SPECIFICATION Spec
CONSTANTS
    MaxStores = 2
    MaxAgents = 1
    MaxContainers = 1
    MaxRevision = 1
    MaxFaults = 1
    PodMayBeDeleted = TRUE
    PersistsContainerID = TRUE
CHECK_DEADLOCK FALSE
INVARIANTS TypeOK
PROPERTIES LiveAgentKept StoppedBeforeFinalized StoreIsALifecycle
