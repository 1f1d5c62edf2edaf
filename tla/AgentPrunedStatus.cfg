SPECIFICATION FairSpec
CONSTANTS
    MaxStores = 1
    MaxAgents = 1
    MaxContainers = 1
    MaxRevision = 1
    MaxFaults = 0
    PodMayBeDeleted = FALSE
    PersistsContainerID = FALSE
CHECK_DEADLOCK FALSE

PROPERTIES AgentFollowsContainer
