SPECIFICATION Spec
CONSTANTS
    Size = 4
    Inline = {0, 1}
    HeapCap = 10
    StackCap = 9
    NLocals = 3
    Apply <- MCApply
    Preludes <- MCPreludes
    Late = FALSE
    SelfStore = TRUE
    Reserve = 4
    Depth = 1
INVARIANT CountsExact
CHECK_DEADLOCK FALSE
