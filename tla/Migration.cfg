CONSTANTS
    NDisks = 2
    StartAttempts = 2
    Platforms <- MCPlatforms
    Silent <- MCSilent
    VSphere <- MCVSphere
    Options <- MCOptions
SPECIFICATION FairSpec
INVARIANTS
    TypeOK
    NoDataLoss
    EradicationFollowsRemoval
    RollbackKeepsSource
    RollbackIsComplete
    BootsOnlyComplete
    NoDoubleBoot
PROPERTIES
    DryRunChangesNothing
    Terminates
    ImplementsColdCutover
CHECK_DEADLOCK FALSE
