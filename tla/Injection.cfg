SPECIFICATION Spec
CONSTANTS
    Plugins <- MCPlugins
    UserPorts <- MCUserPorts
    MaxSubmissions = 2
    MaxChanges = 1
CHECK_DEADLOCK FALSE
INVARIANTS TypeOK InjectedOnce SupportedIsReachable AskedIsInjected
PROPERTIES SecondPassIsIdle
