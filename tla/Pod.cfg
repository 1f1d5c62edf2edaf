SPECIFICATION FairSpec
CONSTANTS
    Primitives = {1, 2}
    Description <- MCDescription
    Pod <- MCPod
    Protocol <- MCProtocol
    Worlds <- MCWorlds
    FirstWorld = "open"
    MaxStores = 2
    MaxEvents = 3
CHECK_DEADLOCK FALSE
INVARIANTS TypeOK
PROPERTIES PodBecomesReady PodReportsWaiting PrimitiveIsServed PermissionsEnforced
