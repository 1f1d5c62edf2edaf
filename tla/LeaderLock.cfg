SPECIFICATION FairSpec
CONSTANTS
    a = a
    b = b
    aAgain = aAgain
    nameA = nameA
    nameB = nameB
    NoOwner = NoOwner
    Pods <- MCPods
    NameOf <- MCNameOf
    MayFail = TRUE
INVARIANTS TypeOK NeverContended
PROPERTIES BecomeReturns
CHECK_DEADLOCK FALSE
