SPECIFICATION FairSpec
CONSTANTS
    MaxStores = 2
    MaxAgents = 1
    MaxContainers = 1
    MaxRevision = 1
    MaxFaults = 0
    PodMayBeDeleted = TRUE
    PersistsContainerID = TRUE
CHECK_DEADLOCK FALSE
PROPERTIES OrphanAgentsCollected
