----------------------------- MODULE LocalFusions -----------------------------
(***************************************************************************)
(* The rows of the fusion table of interp/threaded.go led by local.get,    *)
(* named for the opcodes they replace.                                     *)
(***************************************************************************)
EXTENDS FusionShapes

LOCAL_GET_F32_CONST_F32Arith_LOCAL_SET == Binary("local", "imm", F32Arith, "local")
LOCAL_GET_F32_CONST_F32Sel_LOCAL_SET == Binary("local", "imm", F32Sel, "local")
LOCAL_GET_F32_CONST_F32Compare_BR_IF == Binary("local", "imm", F32Compare, "branch")
LOCAL_GET_F64_CONST_F64Arith_LOCAL_SET == Binary("local", "imm", F64Arith, "local")
LOCAL_GET_F64_CONST_F64Sel_LOCAL_SET == Binary("local", "imm", F64Sel, "local")
LOCAL_GET_F64_CONST_F64Compare_BR_IF == Binary("local", "imm", F64Compare, "branch")
LOCAL_GET_LOCAL_GET_I64More_BR_IF == Binary("local", "local", I64More, "branch")
LOCAL_GET_LOCAL_GET_F32Arith_LOCAL_SET == Binary("local", "local", F32Arith, "local")
LOCAL_GET_LOCAL_GET_F32Sel_LOCAL_SET == Binary("local", "local", F32Sel, "local")
LOCAL_GET_LOCAL_GET_F32Compare_BR_IF == Binary("local", "local", F32Compare, "branch")
LOCAL_GET_LOCAL_GET_F64Arith_LOCAL_SET == Binary("local", "local", F64Arith, "local")
LOCAL_GET_LOCAL_GET_F64Sel_LOCAL_SET == Binary("local", "local", F64Sel, "local")
LOCAL_GET_LOCAL_GET_F64Compare_BR_IF == Binary("local", "local", F64Compare, "branch")
LOCAL_GET_LOCAL_GET_I32Arith_LOCAL_SET == Binary("local", "local", I32Arith, "local")
LOCAL_GET_LOCAL_GET_I32Bits_LOCAL_SET == Binary("local", "local", I32Bits, "local")
LOCAL_GET_LOCAL_GET_I32Compare_BR_IF == Binary("local", "local", I32Compare, "branch")
LOCAL_GET_LOCAL_GET_I64Arith_LOCAL_SET == Binary("local", "local", I64Arith, "local")
LOCAL_GET_LOCAL_GET_I64Bits_LOCAL_SET == Binary("local", "local", I64Bits, "local")
LOCAL_GET_LOCAL_GET_I64Less_BR_IF == Binary("local", "local", I64Less, "branch")
LOCAL_GET_I32_CONST_I32Arith_LOCAL_SET == Binary("local", "imm", I32Arith, "local")
LOCAL_GET_I32_CONST_I32Bits_LOCAL_SET == Binary("local", "imm", I32Bits, "local")
LOCAL_GET_I32_CONST_I32Compare_BR_IF == Binary("local", "imm", I32Compare, "branch")
LOCAL_GET_I64_CONST_I64More_BR_IF == Binary("local", "imm", I64More, "branch")
LOCAL_GET_I64_CONST_I64Arith_LOCAL_SET == Binary("local", "imm", I64Arith, "local")
LOCAL_GET_I64_CONST_I64Bits_LOCAL_SET == Binary("local", "imm", I64Bits, "local")
LOCAL_GET_I64_CONST_I64Less_BR_IF == Binary("local", "imm", I64Less, "branch")
LOCAL_GET_I64More_BR_IF == Binary("stack", "local", I64More, "branch")
LOCAL_GET_F32_CONST_F32Arith == Binary("local", "imm", F32Arith, "push")
LOCAL_GET_F32_CONST_F32Div == Binary("local", "imm", F32Div, "push")
LOCAL_GET_F32_CONST_F32Sel == Binary("local", "imm", F32Sel, "push")
LOCAL_GET_F32_CONST_F32Compare == Binary("local", "imm", F32Compare, "push")
LOCAL_GET_F32Compare_BR_IF == Binary("stack", "local", F32Compare, "branch")
LOCAL_GET_F64_CONST_F64Arith == Binary("local", "imm", F64Arith, "push")
LOCAL_GET_F64_CONST_F64Div == Binary("local", "imm", F64Div, "push")
LOCAL_GET_F64_CONST_F64Sel == Binary("local", "imm", F64Sel, "push")
LOCAL_GET_F64_CONST_F64Compare == Binary("local", "imm", F64Compare, "push")
LOCAL_GET_F64Compare_BR_IF == Binary("stack", "local", F64Compare, "branch")
LOCAL_GET_LOCAL_GET_I64More == Binary("local", "local", I64More, "push")
LOCAL_GET_LOCAL_GET_F32Arith == Binary("local", "local", F32Arith, "push")
LOCAL_GET_LOCAL_GET_F32Div == Binary("local", "local", F32Div, "push")
LOCAL_GET_LOCAL_GET_F32Sel == Binary("local", "local", F32Sel, "push")
LOCAL_GET_LOCAL_GET_F32Compare == Binary("local", "local", F32Compare, "push")
LOCAL_GET_LOCAL_GET_F64Arith == Binary("local", "local", F64Arith, "push")
LOCAL_GET_LOCAL_GET_F64Div == Binary("local", "local", F64Div, "push")
LOCAL_GET_LOCAL_GET_F64Sel == Binary("local", "local", F64Sel, "push")
LOCAL_GET_LOCAL_GET_F64Compare == Binary("local", "local", F64Compare, "push")
LOCAL_GET_LOCAL_GET_I32Arith == Binary("local", "local", I32Arith, "push")
LOCAL_GET_LOCAL_GET_I32Div == Binary("local", "local", I32Div, "push")
LOCAL_GET_LOCAL_GET_I32Bits == Binary("local", "local", I32Bits, "push")
LOCAL_GET_LOCAL_GET_I32Compare == Binary("local", "local", I32Compare, "push")
LOCAL_GET_LOCAL_GET_I64Arith == Binary("local", "local", I64Arith, "push")
LOCAL_GET_LOCAL_GET_I64Div == Binary("local", "local", I64Div, "push")
LOCAL_GET_LOCAL_GET_I64Bits == Binary("local", "local", I64Bits, "push")
LOCAL_GET_LOCAL_GET_I64Less == Binary("local", "local", I64Less, "push")
LOCAL_GET_REF_IS_NULL_BR_IF == IsNull("local", "branch")
LOCAL_GET_I32_CONST_I32Arith == Binary("local", "imm", I32Arith, "push")
LOCAL_GET_I32_CONST_I32Div == Binary("local", "imm", I32Div, "push")
LOCAL_GET_I32_CONST_I32Bits == Binary("local", "imm", I32Bits, "push")
LOCAL_GET_I32_CONST_I32Compare == Binary("local", "imm", I32Compare, "push")
LOCAL_GET_I32Compare_BR_IF == Binary("stack", "local", I32Compare, "branch")
LOCAL_GET_I64_CONST_I64More == Binary("local", "imm", I64More, "push")
LOCAL_GET_I64_CONST_I64Arith == Binary("local", "imm", I64Arith, "push")
LOCAL_GET_I64_CONST_I64Div == Binary("local", "imm", I64Div, "push")
LOCAL_GET_I64_CONST_I64Bits == Binary("local", "imm", I64Bits, "push")
LOCAL_GET_I64_CONST_I64Less == Binary("local", "imm", I64Less, "push")
LOCAL_GET_I64Less_BR_IF == Binary("stack", "local", I64Less, "branch")
LOCAL_GET_CONST_GET_STRUCT_GET == Field("local", "const")
LOCAL_GET_I32_CONST_STRUCT_GET == Field("local", "imm")
LOCAL_GET_I1ARRAY_GET == Element("local", Sources, "I1")
LOCAL_GET_F32ARRAY_GET == Element("local", Sources, "F32")
LOCAL_GET_F64ARRAY_GET == Element("local", Sources, "F64")
LOCAL_GET_I32ARRAY_GET == Element("local", Sources, "I32")
LOCAL_GET_I64ARRAY_GET == Element("local", Sources, "I64")
LOCAL_GET_I8ARRAY_GET == Element("local", Sources, "I8")
LOCAL_GET_I64More == Binary("stack", "local", I64More, "push")
LOCAL_GET_F32Arith == Binary("stack", "local", F32Arith, "push")
LOCAL_GET_F32Div == Binary("stack", "local", F32Div, "push")
LOCAL_GET_F32Sel == Binary("stack", "local", F32Sel, "push")
LOCAL_GET_F32Compare == Binary("stack", "local", F32Compare, "push")
LOCAL_GET_F64Arith == Binary("stack", "local", F64Arith, "push")
LOCAL_GET_F64Div == Binary("stack", "local", F64Div, "push")
LOCAL_GET_F64Sel == Binary("stack", "local", F64Sel, "push")
LOCAL_GET_F64Compare == Binary("stack", "local", F64Compare, "push")
LOCAL_GET_DROP == Discard("local")
LOCAL_GET_REF_IS_NULL == IsNull("local", "push")
LOCAL_GET_I32Arith == Binary("stack", "local", I32Arith, "push")
LOCAL_GET_I32Div == Binary("stack", "local", I32Div, "push")
LOCAL_GET_I32Bits == Binary("stack", "local", I32Bits, "push")
LOCAL_GET_I32Compare == Binary("stack", "local", I32Compare, "push")
LOCAL_GET_I64Arith == Binary("stack", "local", I64Arith, "push")
LOCAL_GET_I64Div == Binary("stack", "local", I64Div, "push")
LOCAL_GET_I64Bits == Binary("stack", "local", I64Bits, "push")
LOCAL_GET_I64Less == Binary("stack", "local", I64Less, "push")

LocalRows == {
    LOCAL_GET_F32_CONST_F32Arith_LOCAL_SET, LOCAL_GET_F32_CONST_F32Sel_LOCAL_SET,
    LOCAL_GET_F32_CONST_F32Compare_BR_IF, LOCAL_GET_F64_CONST_F64Arith_LOCAL_SET,
    LOCAL_GET_F64_CONST_F64Sel_LOCAL_SET, LOCAL_GET_F64_CONST_F64Compare_BR_IF,
    LOCAL_GET_LOCAL_GET_I64More_BR_IF, LOCAL_GET_LOCAL_GET_F32Arith_LOCAL_SET,
    LOCAL_GET_LOCAL_GET_F32Sel_LOCAL_SET, LOCAL_GET_LOCAL_GET_F32Compare_BR_IF,
    LOCAL_GET_LOCAL_GET_F64Arith_LOCAL_SET, LOCAL_GET_LOCAL_GET_F64Sel_LOCAL_SET,
    LOCAL_GET_LOCAL_GET_F64Compare_BR_IF, LOCAL_GET_LOCAL_GET_I32Arith_LOCAL_SET,
    LOCAL_GET_LOCAL_GET_I32Bits_LOCAL_SET, LOCAL_GET_LOCAL_GET_I32Compare_BR_IF,
    LOCAL_GET_LOCAL_GET_I64Arith_LOCAL_SET, LOCAL_GET_LOCAL_GET_I64Bits_LOCAL_SET,
    LOCAL_GET_LOCAL_GET_I64Less_BR_IF, LOCAL_GET_I32_CONST_I32Arith_LOCAL_SET,
    LOCAL_GET_I32_CONST_I32Bits_LOCAL_SET, LOCAL_GET_I32_CONST_I32Compare_BR_IF,
    LOCAL_GET_I64_CONST_I64More_BR_IF, LOCAL_GET_I64_CONST_I64Arith_LOCAL_SET,
    LOCAL_GET_I64_CONST_I64Bits_LOCAL_SET, LOCAL_GET_I64_CONST_I64Less_BR_IF,
    LOCAL_GET_I64More_BR_IF, LOCAL_GET_F32_CONST_F32Arith, LOCAL_GET_F32_CONST_F32Div,
    LOCAL_GET_F32_CONST_F32Sel, LOCAL_GET_F32_CONST_F32Compare, LOCAL_GET_F32Compare_BR_IF,
    LOCAL_GET_F64_CONST_F64Arith, LOCAL_GET_F64_CONST_F64Div, LOCAL_GET_F64_CONST_F64Sel,
    LOCAL_GET_F64_CONST_F64Compare, LOCAL_GET_F64Compare_BR_IF, LOCAL_GET_LOCAL_GET_I64More,
    LOCAL_GET_LOCAL_GET_F32Arith, LOCAL_GET_LOCAL_GET_F32Div, LOCAL_GET_LOCAL_GET_F32Sel,
    LOCAL_GET_LOCAL_GET_F32Compare, LOCAL_GET_LOCAL_GET_F64Arith,
    LOCAL_GET_LOCAL_GET_F64Div, LOCAL_GET_LOCAL_GET_F64Sel, LOCAL_GET_LOCAL_GET_F64Compare,
    LOCAL_GET_LOCAL_GET_I32Arith, LOCAL_GET_LOCAL_GET_I32Div, LOCAL_GET_LOCAL_GET_I32Bits,
    LOCAL_GET_LOCAL_GET_I32Compare, LOCAL_GET_LOCAL_GET_I64Arith,
    LOCAL_GET_LOCAL_GET_I64Div, LOCAL_GET_LOCAL_GET_I64Bits, LOCAL_GET_LOCAL_GET_I64Less,
    LOCAL_GET_REF_IS_NULL_BR_IF, LOCAL_GET_I32_CONST_I32Arith, LOCAL_GET_I32_CONST_I32Div,
    LOCAL_GET_I32_CONST_I32Bits, LOCAL_GET_I32_CONST_I32Compare, LOCAL_GET_I32Compare_BR_IF,
    LOCAL_GET_I64_CONST_I64More, LOCAL_GET_I64_CONST_I64Arith, LOCAL_GET_I64_CONST_I64Div,
    LOCAL_GET_I64_CONST_I64Bits, LOCAL_GET_I64_CONST_I64Less, LOCAL_GET_I64Less_BR_IF,
    LOCAL_GET_CONST_GET_STRUCT_GET, LOCAL_GET_I32_CONST_STRUCT_GET, LOCAL_GET_I1ARRAY_GET,
    LOCAL_GET_F32ARRAY_GET, LOCAL_GET_F64ARRAY_GET, LOCAL_GET_I32ARRAY_GET,
    LOCAL_GET_I64ARRAY_GET, LOCAL_GET_I8ARRAY_GET, LOCAL_GET_I64More, LOCAL_GET_F32Arith,
    LOCAL_GET_F32Div, LOCAL_GET_F32Sel, LOCAL_GET_F32Compare, LOCAL_GET_F64Arith,
    LOCAL_GET_F64Div, LOCAL_GET_F64Sel, LOCAL_GET_F64Compare, LOCAL_GET_DROP,
    LOCAL_GET_REF_IS_NULL, LOCAL_GET_I32Arith, LOCAL_GET_I32Div, LOCAL_GET_I32Bits,
    LOCAL_GET_I32Compare, LOCAL_GET_I64Arith, LOCAL_GET_I64Div, LOCAL_GET_I64Bits,
    LOCAL_GET_I64Less}

===============================================================================
