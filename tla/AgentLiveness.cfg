SPECIFICATION FairSpec
CONSTANTS
    MaxStores = 1
    MaxAgents = 1
    MaxContainers = 2
    MaxRevision = 2
    MaxFaults = 0
    PodMayBeDeleted = FALSE
    PersistsContainerID = TRUE
CHECK_DEADLOCK FALSE
INVARIANTS ReadyAgentRuns
PROPERTIES ConfigNeverRegresses AgentConverges
