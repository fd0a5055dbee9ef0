CONSTANTS
    NNodes = 2
    Groups = {"A", "B"}
    Typed = "A"
    Jobs = {1}
    Options <- MCOptions
    MaxStarts = 1
    MaxEvents = 1
SPECIFICATION Spec
INVARIANTS
    TypeOK
    RegisteredTogether
    ReconcileSettles
PROPERTIES
    RemovalsSpareNodes
    NeverSplits
CHECK_DEADLOCK FALSE
