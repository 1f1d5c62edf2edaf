SPECIFICATION Spec
CONSTANTS
    a = a
    b = b
    aAgain = aAgain
    nameA = nameA
    nameB = nameB
    NoOwner = NoOwner
    Pods <- MCPods
    NameOf <- MCNameOf
    MayFail = FALSE
INVARIANTS OneLeader
CHECK_DEADLOCK FALSE
