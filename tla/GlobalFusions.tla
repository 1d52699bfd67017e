---------------------------- MODULE GlobalFusions -----------------------------
(***************************************************************************)
(* The rows of the fusion table of interp/threaded.go led by global.get,   *)
(* named for the opcodes they replace.                                     *)
(***************************************************************************)
EXTENDS FusionShapes

GLOBAL_GET_F32_CONST_F32Compare_BR_IF == Binary("global", "imm", F32Compare, "branch")
GLOBAL_GET_F64_CONST_F64Compare_BR_IF == Binary("global", "imm", F64Compare, "branch")
GLOBAL_GET_GLOBAL_GET_I64More_BR_IF == Binary("global", "global", I64More, "branch")
GLOBAL_GET_GLOBAL_GET_F32Compare_BR_IF == Binary("global", "global", F32Compare, "branch")
GLOBAL_GET_GLOBAL_GET_F64Compare_BR_IF == Binary("global", "global", F64Compare, "branch")
GLOBAL_GET_GLOBAL_GET_I32Compare_BR_IF == Binary("global", "global", I32Compare, "branch")
GLOBAL_GET_GLOBAL_GET_I64Less_BR_IF == Binary("global", "global", I64Less, "branch")
GLOBAL_GET_LOCAL_GET_I64More_BR_IF == Binary("global", "local", I64More, "branch")
GLOBAL_GET_LOCAL_GET_F32Compare_BR_IF == Binary("global", "local", F32Compare, "branch")
GLOBAL_GET_LOCAL_GET_F64Compare_BR_IF == Binary("global", "local", F64Compare, "branch")
GLOBAL_GET_LOCAL_GET_I32Compare_BR_IF == Binary("global", "local", I32Compare, "branch")
GLOBAL_GET_LOCAL_GET_I64Less_BR_IF == Binary("global", "local", I64Less, "branch")
GLOBAL_GET_UPVAL_GET_I64More_BR_IF == Binary("global", "upval", I64More, "branch")
GLOBAL_GET_UPVAL_GET_F32Compare_BR_IF == Binary("global", "upval", F32Compare, "branch")
GLOBAL_GET_UPVAL_GET_F64Compare_BR_IF == Binary("global", "upval", F64Compare, "branch")
GLOBAL_GET_UPVAL_GET_I32Compare_BR_IF == Binary("global", "upval", I32Compare, "branch")
GLOBAL_GET_UPVAL_GET_I64Less_BR_IF == Binary("global", "upval", I64Less, "branch")
GLOBAL_GET_I32_CONST_I32Compare_BR_IF == Binary("global", "imm", I32Compare, "branch")
GLOBAL_GET_I64_CONST_I64Compare_BR_IF == Binary("global", "imm", I64Compare, "branch")
GLOBAL_GET_I64More_BR_IF == Binary("stack", "global", I64More, "branch")
GLOBAL_GET_F32_CONST_F32Arith == Binary("global", "imm", F32Arith, "push")
GLOBAL_GET_F32_CONST_F32Div == Binary("global", "imm", F32Div, "push")
GLOBAL_GET_F32_CONST_F32Sel == Binary("global", "imm", F32Sel, "push")
GLOBAL_GET_F32_CONST_F32Compare == Binary("global", "imm", F32Compare, "push")
GLOBAL_GET_F32Compare_BR_IF == Binary("stack", "global", F32Compare, "branch")
GLOBAL_GET_F64_CONST_F64Arith == Binary("global", "imm", F64Arith, "push")
GLOBAL_GET_F64_CONST_F64Div == Binary("global", "imm", F64Div, "push")
GLOBAL_GET_F64_CONST_F64Sel == Binary("global", "imm", F64Sel, "push")
GLOBAL_GET_F64_CONST_F64Compare == Binary("global", "imm", F64Compare, "push")
GLOBAL_GET_F64Same_BR_IF == Binary("stack", "global", F64Same, "branch")
GLOBAL_GET_GLOBAL_GET_I64More == Binary("global", "global", I64More, "push")
GLOBAL_GET_GLOBAL_GET_F32Arith == Binary("global", "global", F32Arith, "push")
GLOBAL_GET_GLOBAL_GET_F32Div == Binary("global", "global", F32Div, "push")
GLOBAL_GET_GLOBAL_GET_F32Sel == Binary("global", "global", F32Sel, "push")
GLOBAL_GET_GLOBAL_GET_F32Compare == Binary("global", "global", F32Compare, "push")
GLOBAL_GET_GLOBAL_GET_F64Arith == Binary("global", "global", F64Arith, "push")
GLOBAL_GET_GLOBAL_GET_F64Div == Binary("global", "global", F64Div, "push")
GLOBAL_GET_GLOBAL_GET_F64Sel == Binary("global", "global", F64Sel, "push")
GLOBAL_GET_GLOBAL_GET_F64Compare == Binary("global", "global", F64Compare, "push")
GLOBAL_GET_GLOBAL_GET_I32Arith == Binary("global", "global", I32Arith, "push")
GLOBAL_GET_GLOBAL_GET_I32Div == Binary("global", "global", I32Div, "push")
GLOBAL_GET_GLOBAL_GET_I32Bits == Binary("global", "global", I32Bits, "push")
GLOBAL_GET_GLOBAL_GET_I32Compare == Binary("global", "global", I32Compare, "push")
GLOBAL_GET_GLOBAL_GET_I64Arith == Binary("global", "global", I64Arith, "push")
GLOBAL_GET_GLOBAL_GET_I64Div == Binary("global", "global", I64Div, "push")
GLOBAL_GET_GLOBAL_GET_I64Bits == Binary("global", "global", I64Bits, "push")
GLOBAL_GET_GLOBAL_GET_I64Less == Binary("global", "global", I64Less, "push")
GLOBAL_GET_F64Order_BR_IF == Binary("stack", "global", F64Order, "branch")
GLOBAL_GET_LOCAL_GET_I64More == Binary("global", "local", I64More, "push")
GLOBAL_GET_LOCAL_GET_F32Arith == Binary("global", "local", F32Arith, "push")
GLOBAL_GET_LOCAL_GET_F32Div == Binary("global", "local", F32Div, "push")
GLOBAL_GET_LOCAL_GET_F32Sel == Binary("global", "local", F32Sel, "push")
GLOBAL_GET_LOCAL_GET_F32Compare == Binary("global", "local", F32Compare, "push")
GLOBAL_GET_LOCAL_GET_F64Arith == Binary("global", "local", F64Arith, "push")
GLOBAL_GET_LOCAL_GET_F64Div == Binary("global", "local", F64Div, "push")
GLOBAL_GET_LOCAL_GET_F64Sel == Binary("global", "local", F64Sel, "push")
GLOBAL_GET_LOCAL_GET_F64Compare == Binary("global", "local", F64Compare, "push")
GLOBAL_GET_LOCAL_GET_I32Arith == Binary("global", "local", I32Arith, "push")
GLOBAL_GET_LOCAL_GET_I32Div == Binary("global", "local", I32Div, "push")
GLOBAL_GET_LOCAL_GET_I32Bits == Binary("global", "local", I32Bits, "push")
GLOBAL_GET_LOCAL_GET_I32Compare == Binary("global", "local", I32Compare, "push")
GLOBAL_GET_LOCAL_GET_I64Arith == Binary("global", "local", I64Arith, "push")
GLOBAL_GET_LOCAL_GET_I64Div == Binary("global", "local", I64Div, "push")
GLOBAL_GET_LOCAL_GET_I64Bits == Binary("global", "local", I64Bits, "push")
GLOBAL_GET_LOCAL_GET_I64Less == Binary("global", "local", I64Less, "push")
GLOBAL_GET_UPVAL_GET_I64More == Binary("global", "upval", I64More, "push")
GLOBAL_GET_UPVAL_GET_F32Arith == Binary("global", "upval", F32Arith, "push")
GLOBAL_GET_UPVAL_GET_F32Div == Binary("global", "upval", F32Div, "push")
GLOBAL_GET_UPVAL_GET_F32Sel == Binary("global", "upval", F32Sel, "push")
GLOBAL_GET_UPVAL_GET_F32Compare == Binary("global", "upval", F32Compare, "push")
GLOBAL_GET_UPVAL_GET_F64Arith == Binary("global", "upval", F64Arith, "push")
GLOBAL_GET_UPVAL_GET_F64Div == Binary("global", "upval", F64Div, "push")
GLOBAL_GET_UPVAL_GET_F64Sel == Binary("global", "upval", F64Sel, "push")
GLOBAL_GET_UPVAL_GET_F64Compare == Binary("global", "upval", F64Compare, "push")
GLOBAL_GET_UPVAL_GET_I32Arith == Binary("global", "upval", I32Arith, "push")
GLOBAL_GET_UPVAL_GET_I32Div == Binary("global", "upval", I32Div, "push")
GLOBAL_GET_UPVAL_GET_I32Bits == Binary("global", "upval", I32Bits, "push")
GLOBAL_GET_UPVAL_GET_I32Compare == Binary("global", "upval", I32Compare, "push")
GLOBAL_GET_UPVAL_GET_I64Arith == Binary("global", "upval", I64Arith, "push")
GLOBAL_GET_UPVAL_GET_I64Div == Binary("global", "upval", I64Div, "push")
GLOBAL_GET_UPVAL_GET_I64Bits == Binary("global", "upval", I64Bits, "push")
GLOBAL_GET_UPVAL_GET_I64Less == Binary("global", "upval", I64Less, "push")
GLOBAL_GET_REF_IS_NULL_BR_IF == IsNull("global", "branch")
GLOBAL_GET_I32_CONST_I32Arith == Binary("global", "imm", I32Arith, "push")
GLOBAL_GET_I32_CONST_I32Div == Binary("global", "imm", I32Div, "push")
GLOBAL_GET_I32_CONST_I32Bits == Binary("global", "imm", I32Bits, "push")
GLOBAL_GET_I32_CONST_I32Compare == Binary("global", "imm", I32Compare, "push")
GLOBAL_GET_I32Compare_BR_IF == Binary("stack", "global", I32Compare, "branch")
GLOBAL_GET_I64_CONST_I64More == Binary("global", "imm", I64More, "push")
GLOBAL_GET_I64_CONST_I64Arith == Binary("global", "imm", I64Arith, "push")
GLOBAL_GET_I64_CONST_I64Div == Binary("global", "imm", I64Div, "push")
GLOBAL_GET_I64_CONST_I64Bits == Binary("global", "imm", I64Bits, "push")
GLOBAL_GET_I64_CONST_I64Less == Binary("global", "imm", I64Less, "push")
GLOBAL_GET_I64Less_BR_IF == Binary("stack", "global", I64Less, "branch")
GLOBAL_GET_CONST_GET_STRUCT_GET == Field("global", "const")
GLOBAL_GET_I32_CONST_STRUCT_GET == Field("global", "imm")
GLOBAL_GET_I1ARRAY_GET == Element("global", Sources, "I1")
GLOBAL_GET_F32ARRAY_GET == Element("global", Sources, "F32")
GLOBAL_GET_F64ARRAY_GET == Element("global", Sources, "F64")
GLOBAL_GET_I32ARRAY_GET == Element("global", Sources, "I32")
GLOBAL_GET_I64ARRAY_GET == Element("global", Sources, "I64")
GLOBAL_GET_I8ARRAY_GET == Element("global", Sources, "I8")
GLOBAL_GET_I64More == Binary("stack", "global", I64More, "push")
GLOBAL_GET_F32Arith == Binary("stack", "global", F32Arith, "push")
GLOBAL_GET_F32Div == Binary("stack", "global", F32Div, "push")
GLOBAL_GET_F32Sel == Binary("stack", "global", F32Sel, "push")
GLOBAL_GET_F32Compare == Binary("stack", "global", F32Compare, "push")
GLOBAL_GET_F64Arith == Binary("stack", "global", F64Arith, "push")
GLOBAL_GET_F64Div == Binary("stack", "global", F64Div, "push")
GLOBAL_GET_F64Sel == Binary("stack", "global", F64Sel, "push")
GLOBAL_GET_F64Compare == Binary("stack", "global", F64Compare, "push")
GLOBAL_GET_DROP == Discard("global")
GLOBAL_GET_REF_IS_NULL == IsNull("global", "push")
GLOBAL_GET_I32Arith == Binary("stack", "global", I32Arith, "push")
GLOBAL_GET_I32Div == Binary("stack", "global", I32Div, "push")
GLOBAL_GET_I32Bits == Binary("stack", "global", I32Bits, "push")
GLOBAL_GET_I32Compare == Binary("stack", "global", I32Compare, "push")
GLOBAL_GET_I64Arith == Binary("stack", "global", I64Arith, "push")
GLOBAL_GET_I64Div == Binary("stack", "global", I64Div, "push")
GLOBAL_GET_I64Bits == Binary("stack", "global", I64Bits, "push")
GLOBAL_GET_I64Less == Binary("stack", "global", I64Less, "push")

GlobalRows == {
    GLOBAL_GET_F32_CONST_F32Compare_BR_IF, GLOBAL_GET_F64_CONST_F64Compare_BR_IF,
    GLOBAL_GET_GLOBAL_GET_I64More_BR_IF, GLOBAL_GET_GLOBAL_GET_F32Compare_BR_IF,
    GLOBAL_GET_GLOBAL_GET_F64Compare_BR_IF, GLOBAL_GET_GLOBAL_GET_I32Compare_BR_IF,
    GLOBAL_GET_GLOBAL_GET_I64Less_BR_IF, GLOBAL_GET_LOCAL_GET_I64More_BR_IF,
    GLOBAL_GET_LOCAL_GET_F32Compare_BR_IF, GLOBAL_GET_LOCAL_GET_F64Compare_BR_IF,
    GLOBAL_GET_LOCAL_GET_I32Compare_BR_IF, GLOBAL_GET_LOCAL_GET_I64Less_BR_IF,
    GLOBAL_GET_UPVAL_GET_I64More_BR_IF, GLOBAL_GET_UPVAL_GET_F32Compare_BR_IF,
    GLOBAL_GET_UPVAL_GET_F64Compare_BR_IF, GLOBAL_GET_UPVAL_GET_I32Compare_BR_IF,
    GLOBAL_GET_UPVAL_GET_I64Less_BR_IF, GLOBAL_GET_I32_CONST_I32Compare_BR_IF,
    GLOBAL_GET_I64_CONST_I64Compare_BR_IF, GLOBAL_GET_I64More_BR_IF,
    GLOBAL_GET_F32_CONST_F32Arith, GLOBAL_GET_F32_CONST_F32Div, GLOBAL_GET_F32_CONST_F32Sel,
    GLOBAL_GET_F32_CONST_F32Compare, GLOBAL_GET_F32Compare_BR_IF,
    GLOBAL_GET_F64_CONST_F64Arith, GLOBAL_GET_F64_CONST_F64Div, GLOBAL_GET_F64_CONST_F64Sel,
    GLOBAL_GET_F64_CONST_F64Compare, GLOBAL_GET_F64Same_BR_IF,
    GLOBAL_GET_GLOBAL_GET_I64More, GLOBAL_GET_GLOBAL_GET_F32Arith,
    GLOBAL_GET_GLOBAL_GET_F32Div, GLOBAL_GET_GLOBAL_GET_F32Sel,
    GLOBAL_GET_GLOBAL_GET_F32Compare, GLOBAL_GET_GLOBAL_GET_F64Arith,
    GLOBAL_GET_GLOBAL_GET_F64Div, GLOBAL_GET_GLOBAL_GET_F64Sel,
    GLOBAL_GET_GLOBAL_GET_F64Compare, GLOBAL_GET_GLOBAL_GET_I32Arith,
    GLOBAL_GET_GLOBAL_GET_I32Div, GLOBAL_GET_GLOBAL_GET_I32Bits,
    GLOBAL_GET_GLOBAL_GET_I32Compare, GLOBAL_GET_GLOBAL_GET_I64Arith,
    GLOBAL_GET_GLOBAL_GET_I64Div, GLOBAL_GET_GLOBAL_GET_I64Bits,
    GLOBAL_GET_GLOBAL_GET_I64Less, GLOBAL_GET_F64Order_BR_IF, GLOBAL_GET_LOCAL_GET_I64More,
    GLOBAL_GET_LOCAL_GET_F32Arith, GLOBAL_GET_LOCAL_GET_F32Div, GLOBAL_GET_LOCAL_GET_F32Sel,
    GLOBAL_GET_LOCAL_GET_F32Compare, GLOBAL_GET_LOCAL_GET_F64Arith,
    GLOBAL_GET_LOCAL_GET_F64Div, GLOBAL_GET_LOCAL_GET_F64Sel,
    GLOBAL_GET_LOCAL_GET_F64Compare, GLOBAL_GET_LOCAL_GET_I32Arith,
    GLOBAL_GET_LOCAL_GET_I32Div, GLOBAL_GET_LOCAL_GET_I32Bits,
    GLOBAL_GET_LOCAL_GET_I32Compare, GLOBAL_GET_LOCAL_GET_I64Arith,
    GLOBAL_GET_LOCAL_GET_I64Div, GLOBAL_GET_LOCAL_GET_I64Bits, GLOBAL_GET_LOCAL_GET_I64Less,
    GLOBAL_GET_UPVAL_GET_I64More, GLOBAL_GET_UPVAL_GET_F32Arith,
    GLOBAL_GET_UPVAL_GET_F32Div, GLOBAL_GET_UPVAL_GET_F32Sel,
    GLOBAL_GET_UPVAL_GET_F32Compare, GLOBAL_GET_UPVAL_GET_F64Arith,
    GLOBAL_GET_UPVAL_GET_F64Div, GLOBAL_GET_UPVAL_GET_F64Sel,
    GLOBAL_GET_UPVAL_GET_F64Compare, GLOBAL_GET_UPVAL_GET_I32Arith,
    GLOBAL_GET_UPVAL_GET_I32Div, GLOBAL_GET_UPVAL_GET_I32Bits,
    GLOBAL_GET_UPVAL_GET_I32Compare, GLOBAL_GET_UPVAL_GET_I64Arith,
    GLOBAL_GET_UPVAL_GET_I64Div, GLOBAL_GET_UPVAL_GET_I64Bits, GLOBAL_GET_UPVAL_GET_I64Less,
    GLOBAL_GET_REF_IS_NULL_BR_IF, GLOBAL_GET_I32_CONST_I32Arith,
    GLOBAL_GET_I32_CONST_I32Div, GLOBAL_GET_I32_CONST_I32Bits,
    GLOBAL_GET_I32_CONST_I32Compare, GLOBAL_GET_I32Compare_BR_IF,
    GLOBAL_GET_I64_CONST_I64More, GLOBAL_GET_I64_CONST_I64Arith,
    GLOBAL_GET_I64_CONST_I64Div, GLOBAL_GET_I64_CONST_I64Bits, GLOBAL_GET_I64_CONST_I64Less,
    GLOBAL_GET_I64Less_BR_IF, GLOBAL_GET_CONST_GET_STRUCT_GET,
    GLOBAL_GET_I32_CONST_STRUCT_GET, GLOBAL_GET_I1ARRAY_GET, GLOBAL_GET_F32ARRAY_GET,
    GLOBAL_GET_F64ARRAY_GET, GLOBAL_GET_I32ARRAY_GET, GLOBAL_GET_I64ARRAY_GET,
    GLOBAL_GET_I8ARRAY_GET, GLOBAL_GET_I64More, GLOBAL_GET_F32Arith, GLOBAL_GET_F32Div,
    GLOBAL_GET_F32Sel, GLOBAL_GET_F32Compare, GLOBAL_GET_F64Arith, GLOBAL_GET_F64Div,
    GLOBAL_GET_F64Sel, GLOBAL_GET_F64Compare, GLOBAL_GET_DROP, GLOBAL_GET_REF_IS_NULL,
    GLOBAL_GET_I32Arith, GLOBAL_GET_I32Div, GLOBAL_GET_I32Bits, GLOBAL_GET_I32Compare,
    GLOBAL_GET_I64Arith, GLOBAL_GET_I64Div, GLOBAL_GET_I64Bits, GLOBAL_GET_I64Less}

===============================================================================
