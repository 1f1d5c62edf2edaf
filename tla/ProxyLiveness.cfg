SPECIFICATION FairSpec
CONSTANTS
    MaxPrimitives = 1
    MaxProxies = 1
    MaxContainers = 1
    MaxGrants = 0
    MaxBrokerRestarts = 0
    MaxFaults = 0
    MayBeDeleted = {"agent","pod"}
CHECK_DEADLOCK FALSE
INVARIANTS TypeOK
PROPERTIES ProxyConverges OrphanProxiesCollected
