\* Two nodes, two calls that go wrong, three operations besides the retries.
SPECIFICATION Spec
CONSTANTS
    NNodes = 2
    MaxFaults = 2
    MaxOps = 3
    Setups <- MCSetups
INVARIANTS
    TypeOK
    OkMeansConfigured
    TeardownRemoves
    AddsOnlyItsOwn
PROPERTIES
    DefinedOverPlugin
    RetriesSucceed
CHECK_DEADLOCK FALSE
