SPECIFICATION Spec
CONSTANTS
    NDisks = 2
    MaxFaults = 1
    Runs <- MovedRuns
    SourceVms <- TwoDisks
INVARIANT WholeVmMoved
CHECK_DEADLOCK FALSE
