SPECIFICATION Spec
CONSTANTS
    Size = 4
    Inline = {0, 1}
    HeapCap = 5
    StackCap = 8
    NLocals = 4
    Apply <- MCApply
    Scenarios <- MCScenarios
    Exempt = {"Assign"}
    Pads = {0, 2, 3, 4}
INVARIANTS FusedAgrees FusedOwns FusedFits
CHECK_DEADLOCK FALSE
