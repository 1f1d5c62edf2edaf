SPECIFICATION Spec
CONSTANTS
    MaxPrimitives = 2
    MaxProxies = 2
    MaxContainers = 2
    MaxGrants = 1
    MaxBrokerRestarts = 1
    MaxFaults = 1
    MayBeDeleted = {}
CONSTRAINT Bounds
CHECK_DEADLOCK FALSE
INVARIANTS ServedPermissions RegisteredIsBacked ReadyProxyServed
PROPERTIES DestroyedBeforeFinalized SweptForGood PrimitiveIsALifecycle
