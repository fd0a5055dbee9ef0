SPECIFICATION Spec
CONSTANTS
    NDisks = 2
    MaxFaults = 1
    Runs <- FoldedRuns
    SourceVms <- TwoDisks
INVARIANT NamesakeNeverLost
CHECK_DEADLOCK FALSE
