----------------------------- MODULE UpvalFusions -----------------------------
(***************************************************************************)
(* The rows of the fusion table of interp/threaded.go led by upval.get,    *)
(* named for the opcodes they replace.                                     *)
(***************************************************************************)
EXTENDS FusionShapes

UPVAL_GET_F32_CONST_F32Compare_BR_IF == Binary("upval", "imm", F32Compare, "branch")
UPVAL_GET_F64_CONST_F64Compare_BR_IF == Binary("upval", "imm", F64Compare, "branch")
UPVAL_GET_GLOBAL_GET_I64More_BR_IF == Binary("upval", "global", I64More, "branch")
UPVAL_GET_GLOBAL_GET_F32Compare_BR_IF == Binary("upval", "global", F32Compare, "branch")
UPVAL_GET_GLOBAL_GET_F64Compare_BR_IF == Binary("upval", "global", F64Compare, "branch")
UPVAL_GET_GLOBAL_GET_I32Compare_BR_IF == Binary("upval", "global", I32Compare, "branch")
UPVAL_GET_GLOBAL_GET_I64Less_BR_IF == Binary("upval", "global", I64Less, "branch")
UPVAL_GET_LOCAL_GET_I64More_BR_IF == Binary("upval", "local", I64More, "branch")
UPVAL_GET_LOCAL_GET_F32Compare_BR_IF == Binary("upval", "local", F32Compare, "branch")
UPVAL_GET_LOCAL_GET_F64Compare_BR_IF == Binary("upval", "local", F64Compare, "branch")
UPVAL_GET_LOCAL_GET_I32Compare_BR_IF == Binary("upval", "local", I32Compare, "branch")
UPVAL_GET_LOCAL_GET_I64Less_BR_IF == Binary("upval", "local", I64Less, "branch")
UPVAL_GET_UPVAL_GET_I64More_BR_IF == Binary("upval", "upval", I64More, "branch")
UPVAL_GET_UPVAL_GET_F32Compare_BR_IF == Binary("upval", "upval", F32Compare, "branch")
UPVAL_GET_UPVAL_GET_F64Compare_BR_IF == Binary("upval", "upval", F64Compare, "branch")
UPVAL_GET_UPVAL_GET_I32Compare_BR_IF == Binary("upval", "upval", I32Compare, "branch")
UPVAL_GET_UPVAL_GET_I64Less_BR_IF == Binary("upval", "upval", I64Less, "branch")
UPVAL_GET_I32_CONST_I32Compare_BR_IF == Binary("upval", "imm", I32Compare, "branch")
UPVAL_GET_I64_CONST_I64Compare_BR_IF == Binary("upval", "imm", I64Compare, "branch")
UPVAL_GET_I64More_BR_IF == Binary("stack", "upval", I64More, "branch")
UPVAL_GET_F32_CONST_F32Arith == Binary("upval", "imm", F32Arith, "push")
UPVAL_GET_F32_CONST_F32Div == Binary("upval", "imm", F32Div, "push")
UPVAL_GET_F32_CONST_F32Sel == Binary("upval", "imm", F32Sel, "push")
UPVAL_GET_F32_CONST_F32Compare == Binary("upval", "imm", F32Compare, "push")
UPVAL_GET_F32Compare_BR_IF == Binary("stack", "upval", F32Compare, "branch")
UPVAL_GET_F64_CONST_F64Arith == Binary("upval", "imm", F64Arith, "push")
UPVAL_GET_F64_CONST_F64Div == Binary("upval", "imm", F64Div, "push")
UPVAL_GET_F64_CONST_F64Sel == Binary("upval", "imm", F64Sel, "push")
UPVAL_GET_F64_CONST_F64Compare == Binary("upval", "imm", F64Compare, "push")
UPVAL_GET_F64Same_BR_IF == Binary("stack", "upval", F64Same, "branch")
UPVAL_GET_GLOBAL_GET_I64More == Binary("upval", "global", I64More, "push")
UPVAL_GET_GLOBAL_GET_F32Arith == Binary("upval", "global", F32Arith, "push")
UPVAL_GET_GLOBAL_GET_F32Div == Binary("upval", "global", F32Div, "push")
UPVAL_GET_GLOBAL_GET_F32Sel == Binary("upval", "global", F32Sel, "push")
UPVAL_GET_GLOBAL_GET_F32Compare == Binary("upval", "global", F32Compare, "push")
UPVAL_GET_GLOBAL_GET_F64Arith == Binary("upval", "global", F64Arith, "push")
UPVAL_GET_GLOBAL_GET_F64Div == Binary("upval", "global", F64Div, "push")
UPVAL_GET_GLOBAL_GET_F64Sel == Binary("upval", "global", F64Sel, "push")
UPVAL_GET_GLOBAL_GET_F64Compare == Binary("upval", "global", F64Compare, "push")
UPVAL_GET_GLOBAL_GET_I32Arith == Binary("upval", "global", I32Arith, "push")
UPVAL_GET_GLOBAL_GET_I32Div == Binary("upval", "global", I32Div, "push")
UPVAL_GET_GLOBAL_GET_I32Bits == Binary("upval", "global", I32Bits, "push")
UPVAL_GET_GLOBAL_GET_I32Compare == Binary("upval", "global", I32Compare, "push")
UPVAL_GET_GLOBAL_GET_I64Arith == Binary("upval", "global", I64Arith, "push")
UPVAL_GET_GLOBAL_GET_I64Div == Binary("upval", "global", I64Div, "push")
UPVAL_GET_GLOBAL_GET_I64Bits == Binary("upval", "global", I64Bits, "push")
UPVAL_GET_GLOBAL_GET_I64Less == Binary("upval", "global", I64Less, "push")
UPVAL_GET_F64Order_BR_IF == Binary("stack", "upval", F64Order, "branch")
UPVAL_GET_LOCAL_GET_I64More == Binary("upval", "local", I64More, "push")
UPVAL_GET_LOCAL_GET_F32Arith == Binary("upval", "local", F32Arith, "push")
UPVAL_GET_LOCAL_GET_F32Div == Binary("upval", "local", F32Div, "push")
UPVAL_GET_LOCAL_GET_F32Sel == Binary("upval", "local", F32Sel, "push")
UPVAL_GET_LOCAL_GET_F32Compare == Binary("upval", "local", F32Compare, "push")
UPVAL_GET_LOCAL_GET_F64Arith == Binary("upval", "local", F64Arith, "push")
UPVAL_GET_LOCAL_GET_F64Div == Binary("upval", "local", F64Div, "push")
UPVAL_GET_LOCAL_GET_F64Sel == Binary("upval", "local", F64Sel, "push")
UPVAL_GET_LOCAL_GET_F64Compare == Binary("upval", "local", F64Compare, "push")
UPVAL_GET_LOCAL_GET_I32Arith == Binary("upval", "local", I32Arith, "push")
UPVAL_GET_LOCAL_GET_I32Div == Binary("upval", "local", I32Div, "push")
UPVAL_GET_LOCAL_GET_I32Bits == Binary("upval", "local", I32Bits, "push")
UPVAL_GET_LOCAL_GET_I32Compare == Binary("upval", "local", I32Compare, "push")
UPVAL_GET_LOCAL_GET_I64Arith == Binary("upval", "local", I64Arith, "push")
UPVAL_GET_LOCAL_GET_I64Div == Binary("upval", "local", I64Div, "push")
UPVAL_GET_LOCAL_GET_I64Bits == Binary("upval", "local", I64Bits, "push")
UPVAL_GET_LOCAL_GET_I64Less == Binary("upval", "local", I64Less, "push")
UPVAL_GET_UPVAL_GET_I64More == Binary("upval", "upval", I64More, "push")
UPVAL_GET_UPVAL_GET_F32Arith == Binary("upval", "upval", F32Arith, "push")
UPVAL_GET_UPVAL_GET_F32Div == Binary("upval", "upval", F32Div, "push")
UPVAL_GET_UPVAL_GET_F32Sel == Binary("upval", "upval", F32Sel, "push")
UPVAL_GET_UPVAL_GET_F32Compare == Binary("upval", "upval", F32Compare, "push")
UPVAL_GET_UPVAL_GET_F64Arith == Binary("upval", "upval", F64Arith, "push")
UPVAL_GET_UPVAL_GET_F64Div == Binary("upval", "upval", F64Div, "push")
UPVAL_GET_UPVAL_GET_F64Sel == Binary("upval", "upval", F64Sel, "push")
UPVAL_GET_UPVAL_GET_F64Compare == Binary("upval", "upval", F64Compare, "push")
UPVAL_GET_UPVAL_GET_I32Arith == Binary("upval", "upval", I32Arith, "push")
UPVAL_GET_UPVAL_GET_I32Div == Binary("upval", "upval", I32Div, "push")
UPVAL_GET_UPVAL_GET_I32Bits == Binary("upval", "upval", I32Bits, "push")
UPVAL_GET_UPVAL_GET_I32Compare == Binary("upval", "upval", I32Compare, "push")
UPVAL_GET_UPVAL_GET_I64Arith == Binary("upval", "upval", I64Arith, "push")
UPVAL_GET_UPVAL_GET_I64Div == Binary("upval", "upval", I64Div, "push")
UPVAL_GET_UPVAL_GET_I64Bits == Binary("upval", "upval", I64Bits, "push")
UPVAL_GET_UPVAL_GET_I64Less == Binary("upval", "upval", I64Less, "push")
UPVAL_GET_REF_IS_NULL_BR_IF == IsNull("upval", "branch")
UPVAL_GET_I32_CONST_I32Arith == Binary("upval", "imm", I32Arith, "push")
UPVAL_GET_I32_CONST_I32Div == Binary("upval", "imm", I32Div, "push")
UPVAL_GET_I32_CONST_I32Bits == Binary("upval", "imm", I32Bits, "push")
UPVAL_GET_I32_CONST_I32Compare == Binary("upval", "imm", I32Compare, "push")
UPVAL_GET_I32Compare_BR_IF == Binary("stack", "upval", I32Compare, "branch")
UPVAL_GET_I64_CONST_I64More == Binary("upval", "imm", I64More, "push")
UPVAL_GET_I64_CONST_I64Arith == Binary("upval", "imm", I64Arith, "push")
UPVAL_GET_I64_CONST_I64Div == Binary("upval", "imm", I64Div, "push")
UPVAL_GET_I64_CONST_I64Bits == Binary("upval", "imm", I64Bits, "push")
UPVAL_GET_I64_CONST_I64Less == Binary("upval", "imm", I64Less, "push")
UPVAL_GET_I64Less_BR_IF == Binary("stack", "upval", I64Less, "branch")
UPVAL_GET_CONST_GET_STRUCT_GET == Field("upval", "const")
UPVAL_GET_I32_CONST_STRUCT_GET == Field("upval", "imm")
UPVAL_GET_I1ARRAY_GET == Element("upval", Sources, "I1")
UPVAL_GET_F32ARRAY_GET == Element("upval", Sources, "F32")
UPVAL_GET_F64ARRAY_GET == Element("upval", Sources, "F64")
UPVAL_GET_I32ARRAY_GET == Element("upval", Sources, "I32")
UPVAL_GET_I64ARRAY_GET == Element("upval", Sources, "I64")
UPVAL_GET_I8ARRAY_GET == Element("upval", Sources, "I8")
UPVAL_GET_I64More == Binary("stack", "upval", I64More, "push")
UPVAL_GET_F32Arith == Binary("stack", "upval", F32Arith, "push")
UPVAL_GET_F32Div == Binary("stack", "upval", F32Div, "push")
UPVAL_GET_F32Sel == Binary("stack", "upval", F32Sel, "push")
UPVAL_GET_F32Compare == Binary("stack", "upval", F32Compare, "push")
UPVAL_GET_F64Arith == Binary("stack", "upval", F64Arith, "push")
UPVAL_GET_F64Div == Binary("stack", "upval", F64Div, "push")
UPVAL_GET_F64Sel == Binary("stack", "upval", F64Sel, "push")
UPVAL_GET_F64Compare == Binary("stack", "upval", F64Compare, "push")
UPVAL_GET_DROP == Discard("upval")
UPVAL_GET_REF_IS_NULL == IsNull("upval", "push")
UPVAL_GET_I32Arith == Binary("stack", "upval", I32Arith, "push")
UPVAL_GET_I32Div == Binary("stack", "upval", I32Div, "push")
UPVAL_GET_I32Bits == Binary("stack", "upval", I32Bits, "push")
UPVAL_GET_I32Compare == Binary("stack", "upval", I32Compare, "push")
UPVAL_GET_I64Arith == Binary("stack", "upval", I64Arith, "push")
UPVAL_GET_I64Div == Binary("stack", "upval", I64Div, "push")
UPVAL_GET_I64Bits == Binary("stack", "upval", I64Bits, "push")
UPVAL_GET_I64Less == Binary("stack", "upval", I64Less, "push")

UpvalRows == {
    UPVAL_GET_F32_CONST_F32Compare_BR_IF, UPVAL_GET_F64_CONST_F64Compare_BR_IF,
    UPVAL_GET_GLOBAL_GET_I64More_BR_IF, UPVAL_GET_GLOBAL_GET_F32Compare_BR_IF,
    UPVAL_GET_GLOBAL_GET_F64Compare_BR_IF, UPVAL_GET_GLOBAL_GET_I32Compare_BR_IF,
    UPVAL_GET_GLOBAL_GET_I64Less_BR_IF, UPVAL_GET_LOCAL_GET_I64More_BR_IF,
    UPVAL_GET_LOCAL_GET_F32Compare_BR_IF, UPVAL_GET_LOCAL_GET_F64Compare_BR_IF,
    UPVAL_GET_LOCAL_GET_I32Compare_BR_IF, UPVAL_GET_LOCAL_GET_I64Less_BR_IF,
    UPVAL_GET_UPVAL_GET_I64More_BR_IF, UPVAL_GET_UPVAL_GET_F32Compare_BR_IF,
    UPVAL_GET_UPVAL_GET_F64Compare_BR_IF, UPVAL_GET_UPVAL_GET_I32Compare_BR_IF,
    UPVAL_GET_UPVAL_GET_I64Less_BR_IF, UPVAL_GET_I32_CONST_I32Compare_BR_IF,
    UPVAL_GET_I64_CONST_I64Compare_BR_IF, UPVAL_GET_I64More_BR_IF,
    UPVAL_GET_F32_CONST_F32Arith, UPVAL_GET_F32_CONST_F32Div, UPVAL_GET_F32_CONST_F32Sel,
    UPVAL_GET_F32_CONST_F32Compare, UPVAL_GET_F32Compare_BR_IF,
    UPVAL_GET_F64_CONST_F64Arith, UPVAL_GET_F64_CONST_F64Div, UPVAL_GET_F64_CONST_F64Sel,
    UPVAL_GET_F64_CONST_F64Compare, UPVAL_GET_F64Same_BR_IF, UPVAL_GET_GLOBAL_GET_I64More,
    UPVAL_GET_GLOBAL_GET_F32Arith, UPVAL_GET_GLOBAL_GET_F32Div, UPVAL_GET_GLOBAL_GET_F32Sel,
    UPVAL_GET_GLOBAL_GET_F32Compare, UPVAL_GET_GLOBAL_GET_F64Arith,
    UPVAL_GET_GLOBAL_GET_F64Div, UPVAL_GET_GLOBAL_GET_F64Sel,
    UPVAL_GET_GLOBAL_GET_F64Compare, UPVAL_GET_GLOBAL_GET_I32Arith,
    UPVAL_GET_GLOBAL_GET_I32Div, UPVAL_GET_GLOBAL_GET_I32Bits,
    UPVAL_GET_GLOBAL_GET_I32Compare, UPVAL_GET_GLOBAL_GET_I64Arith,
    UPVAL_GET_GLOBAL_GET_I64Div, UPVAL_GET_GLOBAL_GET_I64Bits, UPVAL_GET_GLOBAL_GET_I64Less,
    UPVAL_GET_F64Order_BR_IF, UPVAL_GET_LOCAL_GET_I64More, UPVAL_GET_LOCAL_GET_F32Arith,
    UPVAL_GET_LOCAL_GET_F32Div, UPVAL_GET_LOCAL_GET_F32Sel, UPVAL_GET_LOCAL_GET_F32Compare,
    UPVAL_GET_LOCAL_GET_F64Arith, UPVAL_GET_LOCAL_GET_F64Div, UPVAL_GET_LOCAL_GET_F64Sel,
    UPVAL_GET_LOCAL_GET_F64Compare, UPVAL_GET_LOCAL_GET_I32Arith,
    UPVAL_GET_LOCAL_GET_I32Div, UPVAL_GET_LOCAL_GET_I32Bits, UPVAL_GET_LOCAL_GET_I32Compare,
    UPVAL_GET_LOCAL_GET_I64Arith, UPVAL_GET_LOCAL_GET_I64Div, UPVAL_GET_LOCAL_GET_I64Bits,
    UPVAL_GET_LOCAL_GET_I64Less, UPVAL_GET_UPVAL_GET_I64More, UPVAL_GET_UPVAL_GET_F32Arith,
    UPVAL_GET_UPVAL_GET_F32Div, UPVAL_GET_UPVAL_GET_F32Sel, UPVAL_GET_UPVAL_GET_F32Compare,
    UPVAL_GET_UPVAL_GET_F64Arith, UPVAL_GET_UPVAL_GET_F64Div, UPVAL_GET_UPVAL_GET_F64Sel,
    UPVAL_GET_UPVAL_GET_F64Compare, UPVAL_GET_UPVAL_GET_I32Arith,
    UPVAL_GET_UPVAL_GET_I32Div, UPVAL_GET_UPVAL_GET_I32Bits, UPVAL_GET_UPVAL_GET_I32Compare,
    UPVAL_GET_UPVAL_GET_I64Arith, UPVAL_GET_UPVAL_GET_I64Div, UPVAL_GET_UPVAL_GET_I64Bits,
    UPVAL_GET_UPVAL_GET_I64Less, UPVAL_GET_REF_IS_NULL_BR_IF, UPVAL_GET_I32_CONST_I32Arith,
    UPVAL_GET_I32_CONST_I32Div, UPVAL_GET_I32_CONST_I32Bits, UPVAL_GET_I32_CONST_I32Compare,
    UPVAL_GET_I32Compare_BR_IF, UPVAL_GET_I64_CONST_I64More, UPVAL_GET_I64_CONST_I64Arith,
    UPVAL_GET_I64_CONST_I64Div, UPVAL_GET_I64_CONST_I64Bits, UPVAL_GET_I64_CONST_I64Less,
    UPVAL_GET_I64Less_BR_IF, UPVAL_GET_CONST_GET_STRUCT_GET, UPVAL_GET_I32_CONST_STRUCT_GET,
    UPVAL_GET_I1ARRAY_GET, UPVAL_GET_F32ARRAY_GET, UPVAL_GET_F64ARRAY_GET,
    UPVAL_GET_I32ARRAY_GET, UPVAL_GET_I64ARRAY_GET, UPVAL_GET_I8ARRAY_GET,
    UPVAL_GET_I64More, UPVAL_GET_F32Arith, UPVAL_GET_F32Div, UPVAL_GET_F32Sel,
    UPVAL_GET_F32Compare, UPVAL_GET_F64Arith, UPVAL_GET_F64Div, UPVAL_GET_F64Sel,
    UPVAL_GET_F64Compare, UPVAL_GET_DROP, UPVAL_GET_REF_IS_NULL, UPVAL_GET_I32Arith,
    UPVAL_GET_I32Div, UPVAL_GET_I32Bits, UPVAL_GET_I32Compare, UPVAL_GET_I64Arith,
    UPVAL_GET_I64Div, UPVAL_GET_I64Bits, UPVAL_GET_I64Less}

===============================================================================
