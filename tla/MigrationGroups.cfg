CONSTANTS
    NMembers = 2
    Slots = {1, 2}
    MaxLaunches = 3
    Options <- MCOptions
SPECIFICATION FairSpec
INVARIANTS
    TypeOK
    WithinConcurrency
    LaunchesStop
    RecordsAreTrue
PROPERTIES
    GroupFinishes
CHECK_DEADLOCK FALSE
