CONSTANTS
    Jobs = {"m1", "p"}
    Clients = {"c1"}
    Vm <- MCVm
    Entry <- MCEntry
    MaxConcurrent = 1
    OpLines = 1
    MaxFaults = 2
    MaxRestarts = 1
SPECIFICATION FairSpec
INVARIANTS
    TypeOK
    NoOrphans
    VerdictsAgree
    EndMeansRecorded
PROPERTIES
    VerdictsAreFinal
    WaitingJobsEnd
    FollowersEnd
CHECK_DEADLOCK FALSE
