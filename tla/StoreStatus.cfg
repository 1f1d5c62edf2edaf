SPECIFICATION FairSpec
CONSTANTS
    MaxStores = 2
    MaxRevision = 2
    MaxChanges = 2
    MaxFaults = 1
    Statuses <- MCStatuses
CHECK_DEADLOCK FALSE
INVARIANTS TypeOK
PROPERTIES StoreIsALifecycle StoreAgrees StoreGetsProtocol
