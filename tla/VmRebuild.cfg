SPECIFICATION Spec
CONSTANTS
    NDisks = 3
    MaxFaults = 2
    Runs <- MCRuns
    SourceVms <- MCSourceVms
INVARIANTS
    TypeOK
    RebuildComplete
    RollbackLeavesNothing
PROPERTIES
    FreedVolumesUnused
