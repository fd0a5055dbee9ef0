CONSTANTS
    NMembers = 2
    Slots = {1, 2}
    MaxLaunches = 3
    Options <- LaggingOptions
SPECIFICATION Spec
INVARIANT NeverDoubleLaunched
CHECK_DEADLOCK FALSE
