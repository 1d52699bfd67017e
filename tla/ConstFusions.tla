----------------------------- MODULE ConstFusions -----------------------------
(***************************************************************************)
(* The rows of the fusion table of interp/threaded.go led by const.get,    *)
(* named for the opcodes they replace.                                     *)
(***************************************************************************)
EXTENDS FusionShapes

CONST_GET_GLOBAL_GET_I1ARRAY_SET == Assign("global", Sources, "I1")
CONST_GET_LOCAL_GET_I1ARRAY_SET == Assign("local", Sources, "I1")
CONST_GET_CONST_GET_I1ARRAY_SET == Assign("const", Sources, "I1")
CONST_GET_UPVAL_GET_I1ARRAY_SET == Assign("upval", Sources, "I1")
CONST_GET_I32_CONST_I1ARRAY_SET == Assign("imm", Sources, "I1")
CONST_GET_GLOBAL_GET_F32ARRAY_SET == Assign("global", Sources, "F32")
CONST_GET_LOCAL_GET_F32ARRAY_SET == Assign("local", Sources, "F32")
CONST_GET_CONST_GET_F32ARRAY_SET == Assign("const", Sources, "F32")
CONST_GET_UPVAL_GET_F32ARRAY_SET == Assign("upval", Sources, "F32")
CONST_GET_I32_CONST_F32ARRAY_SET == Assign("imm", Sources, "F32")
CONST_GET_GLOBAL_GET_F64ARRAY_SET == Assign("global", Sources, "F64")
CONST_GET_LOCAL_GET_F64ARRAY_SET == Assign("local", Sources, "F64")
CONST_GET_CONST_GET_F64ARRAY_SET == Assign("const", Sources, "F64")
CONST_GET_UPVAL_GET_F64ARRAY_SET == Assign("upval", Sources, "F64")
CONST_GET_I32_CONST_F64ARRAY_SET == Assign("imm", Sources, "F64")
CONST_GET_GLOBAL_GET_I32ARRAY_SET == Assign("global", Sources, "I32")
CONST_GET_LOCAL_GET_I32ARRAY_SET == Assign("local", Sources, "I32")
CONST_GET_CONST_GET_I32ARRAY_SET == Assign("const", Sources, "I32")
CONST_GET_UPVAL_GET_I32ARRAY_SET == Assign("upval", Sources, "I32")
CONST_GET_I32_CONST_I32ARRAY_SET == Assign("imm", Sources, "I32")
CONST_GET_GLOBAL_GET_I64ARRAY_SET == Assign("global", Sources, "I64")
CONST_GET_LOCAL_GET_I64ARRAY_SET == Assign("local", Sources, "I64")
CONST_GET_CONST_GET_I64ARRAY_SET == Assign("const", Sources, "I64")
CONST_GET_UPVAL_GET_I64ARRAY_SET == Assign("upval", Sources, "I64")
CONST_GET_I32_CONST_I64ARRAY_SET == Assign("imm", Sources, "I64")
CONST_GET_GLOBAL_GET_I8ARRAY_SET == Assign("global", Sources, "I8")
CONST_GET_LOCAL_GET_I8ARRAY_SET == Assign("local", Sources, "I8")
CONST_GET_CONST_GET_I8ARRAY_SET == Assign("const", Sources, "I8")
CONST_GET_UPVAL_GET_I8ARRAY_SET == Assign("upval", Sources, "I8")
CONST_GET_I32_CONST_I8ARRAY_SET == Assign("imm", Sources, "I8")
CONST_GET_F32Compare_BR_IF == Binary("stack", "const", F32Compare, "branch")
CONST_GET_F64Compare_BR_IF == Binary("stack", "const", F64Compare, "branch")
CONST_GET_I32Compare_BR_IF == Binary("stack", "const", I32Compare, "branch")
CONST_GET_I64Compare_BR_IF == Binary("stack", "const", I64Compare, "branch")
CONST_GET_I1ARRAY_GET == Element("const", Sources, "I1")
CONST_GET_F32ARRAY_GET == Element("const", Sources, "F32")
CONST_GET_F64ARRAY_GET == Element("const", Sources, "F64")
CONST_GET_I32ARRAY_GET == Element("const", Sources, "I32")
CONST_GET_I64ARRAY_GET == Element("const", Sources, "I64")
CONST_GET_I8ARRAY_GET == Element("const", Sources, "I8")
CONST_GET_REF_IS_NULL_BR_IF == IsNull("const", "branch")
CONST_GET_CLOSURE_NEW == Capture
CONST_GET_F32Arith == Binary("stack", "const", F32Arith, "push")
CONST_GET_F32Div == Binary("stack", "const", F32Div, "push")
CONST_GET_F32Sel == Binary("stack", "const", F32Sel, "push")
CONST_GET_F32Compare == Binary("stack", "const", F32Compare, "push")
CONST_GET_F64Arith == Binary("stack", "const", F64Arith, "push")
CONST_GET_F64Div == Binary("stack", "const", F64Div, "push")
CONST_GET_F64Sel == Binary("stack", "const", F64Sel, "push")
CONST_GET_F64Compare == Binary("stack", "const", F64Compare, "push")
CONST_GET_ARRAY_GET == Element("stack", {"const"}, "Any")
CONST_GET_STRUCT_GET == Field("stack", "const")
CONST_GET_I32Arith == Binary("stack", "const", I32Arith, "push")
CONST_GET_I32Div == Binary("stack", "const", I32Div, "push")
CONST_GET_I32Bits == Binary("stack", "const", I32Bits, "push")
CONST_GET_I32Compare == Binary("stack", "const", I32Compare, "push")
CONST_GET_I64More == Binary("stack", "const", I64More, "push")
CONST_GET_I64Arith == Binary("stack", "const", I64Arith, "push")
CONST_GET_I64Div == Binary("stack", "const", I64Div, "push")
CONST_GET_I64Bits == Binary("stack", "const", I64Bits, "push")
CONST_GET_I64Less == Binary("stack", "const", I64Less, "push")
CONST_GET_DROP == Discard("const")
CONST_GET_REF_IS_NULL == IsNull("const", "push")

ConstRows == {
    CONST_GET_GLOBAL_GET_I1ARRAY_SET, CONST_GET_LOCAL_GET_I1ARRAY_SET,
    CONST_GET_CONST_GET_I1ARRAY_SET, CONST_GET_UPVAL_GET_I1ARRAY_SET,
    CONST_GET_I32_CONST_I1ARRAY_SET, CONST_GET_GLOBAL_GET_F32ARRAY_SET,
    CONST_GET_LOCAL_GET_F32ARRAY_SET, CONST_GET_CONST_GET_F32ARRAY_SET,
    CONST_GET_UPVAL_GET_F32ARRAY_SET, CONST_GET_I32_CONST_F32ARRAY_SET,
    CONST_GET_GLOBAL_GET_F64ARRAY_SET, CONST_GET_LOCAL_GET_F64ARRAY_SET,
    CONST_GET_CONST_GET_F64ARRAY_SET, CONST_GET_UPVAL_GET_F64ARRAY_SET,
    CONST_GET_I32_CONST_F64ARRAY_SET, CONST_GET_GLOBAL_GET_I32ARRAY_SET,
    CONST_GET_LOCAL_GET_I32ARRAY_SET, CONST_GET_CONST_GET_I32ARRAY_SET,
    CONST_GET_UPVAL_GET_I32ARRAY_SET, CONST_GET_I32_CONST_I32ARRAY_SET,
    CONST_GET_GLOBAL_GET_I64ARRAY_SET, CONST_GET_LOCAL_GET_I64ARRAY_SET,
    CONST_GET_CONST_GET_I64ARRAY_SET, CONST_GET_UPVAL_GET_I64ARRAY_SET,
    CONST_GET_I32_CONST_I64ARRAY_SET, CONST_GET_GLOBAL_GET_I8ARRAY_SET,
    CONST_GET_LOCAL_GET_I8ARRAY_SET, CONST_GET_CONST_GET_I8ARRAY_SET,
    CONST_GET_UPVAL_GET_I8ARRAY_SET, CONST_GET_I32_CONST_I8ARRAY_SET,
    CONST_GET_F32Compare_BR_IF, CONST_GET_F64Compare_BR_IF, CONST_GET_I32Compare_BR_IF,
    CONST_GET_I64Compare_BR_IF, CONST_GET_I1ARRAY_GET, CONST_GET_F32ARRAY_GET,
    CONST_GET_F64ARRAY_GET, CONST_GET_I32ARRAY_GET, CONST_GET_I64ARRAY_GET,
    CONST_GET_I8ARRAY_GET, CONST_GET_REF_IS_NULL_BR_IF, CONST_GET_CLOSURE_NEW,
    CONST_GET_F32Arith, CONST_GET_F32Div, CONST_GET_F32Sel, CONST_GET_F32Compare,
    CONST_GET_F64Arith, CONST_GET_F64Div, CONST_GET_F64Sel, CONST_GET_F64Compare,
    CONST_GET_ARRAY_GET, CONST_GET_STRUCT_GET, CONST_GET_I32Arith, CONST_GET_I32Div,
    CONST_GET_I32Bits, CONST_GET_I32Compare, CONST_GET_I64More, CONST_GET_I64Arith,
    CONST_GET_I64Div, CONST_GET_I64Bits, CONST_GET_I64Less, CONST_GET_DROP,
    CONST_GET_REF_IS_NULL}

===============================================================================
