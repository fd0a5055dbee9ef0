CONSTANTS
    NNodes = 2
    Groups = {"A", "B"}
    Typed = "A"
    Jobs = {1}
    Options <- XcpOptions
    MaxStarts = 2
    MaxEvents = 0
SPECIFICATION Spec
PROPERTY RemovesOnlyDeparted
CHECK_DEADLOCK FALSE
