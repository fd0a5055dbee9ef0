SPECIFICATION Spec
CONSTANTS
    NDisks = 2
    MaxFaults = 1
    Runs <- SweepRuns
    SourceVms <- TwoDisks
INVARIANT SiblingsKeepDisks
CHECK_DEADLOCK FALSE
