SPECIFICATION FairSpec
CONSTANTS
    Kinds = {"Counter", "Map"}
    MaxObjects = 2
    MaxDeletes = 1
    MaxFaults = 1
CHECK_DEADLOCK FALSE
INVARIANTS TypeOK
PROPERTIES TypedIsServed LoserIsServed OrphanPrimitiveCollected PrimitiveIsALifecycle
