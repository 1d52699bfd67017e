-------------------------- MODULE Superinstructions ---------------------------
(***************************************************************************)
(* The fusion table of interp/threaded.go, as the generator of             *)
(* internal/cmd/geninterp writes it: one definition per family of fused    *)
(* handlers, named for the opcodes it replaces.  The handlers of a family  *)
(* differ only in the operator they apply or in the slot their index or    *)
(* value is read from.  The rows led by a slot have modules of their own.  *)
(***************************************************************************)
EXTENDS GlobalFusions, LocalFusions, ConstFusions, UpvalFusions

-----------------------------------------------------------------------------
(* Handlers led by dup.                                                    *)

DUP_REF_IS_NULL_BR_IF == IsNull("dup", "branch")
DUP_DROP == Discard("dup")
DUP_REF_IS_NULL == IsNull("dup", "push")

DupRows == {
    DUP_REF_IS_NULL_BR_IF, DUP_DROP, DUP_REF_IS_NULL}

-----------------------------------------------------------------------------
(* Handlers led by ref.null.                                               *)

REF_NULL_REF_IS_NULL_BR_IF == IsNull("null", "branch")
REF_NULL_DROP == Discard("null")
REF_NULL_REF_IS_NULL == IsNull("null", "push")

NullRows == {
    REF_NULL_REF_IS_NULL_BR_IF, REF_NULL_DROP, REF_NULL_REF_IS_NULL}

-----------------------------------------------------------------------------
(* Handlers led by a number constant.                                      *)

I32_CONST_I32Compare_BR_IF == Binary("stack", "imm", I32Compare, "branch")
I32_CONST_ARRAY_GET == Element("stack", {"imm"}, "Any")
I32_CONST_STRUCT_GET == Field("stack", "imm")
I32_CONST_I32Arith == Binary("stack", "imm", I32Arith, "push")
I32_CONST_I32Div == Binary("stack", "imm", I32Div, "push")
I32_CONST_I32Bits == Binary("stack", "imm", I32Bits, "push")
I32_CONST_I32Less == Binary("stack", "imm", I32Less, "push")
I32_CONST_BR_IF == Test
I32_CONST_I32More == Binary("stack", "imm", I32More, "push")
I64_CONST_I64Compare_BR_IF == Binary("stack", "imm", I64Compare, "branch")
I64_CONST_I64More == Binary("stack", "imm", I64More, "push")
I64_CONST_I64Arith == Binary("stack", "imm", I64Arith, "push")
I64_CONST_I64Div == Binary("stack", "imm", I64Div, "push")
I64_CONST_I64Bits == Binary("stack", "imm", I64Bits, "push")
I64_CONST_I64Less == Binary("stack", "imm", I64Less, "push")
F32_CONST_F32Compare_BR_IF == Binary("stack", "imm", F32Compare, "branch")
F32_CONST_F32Arith == Binary("stack", "imm", F32Arith, "push")
F32_CONST_F32Div == Binary("stack", "imm", F32Div, "push")
F32_CONST_F32Sel == Binary("stack", "imm", F32Sel, "push")
F32_CONST_F32Compare == Binary("stack", "imm", F32Compare, "push")
F64_CONST_F64Compare_BR_IF == Binary("stack", "imm", F64Compare, "branch")
F64_CONST_F64Arith == Binary("stack", "imm", F64Arith, "push")
F64_CONST_F64Div == Binary("stack", "imm", F64Div, "push")
F64_CONST_F64Sel == Binary("stack", "imm", F64Sel, "push")
F64_CONST_F64Compare == Binary("stack", "imm", F64Compare, "push")

ImmediateRows == {
    I32_CONST_I32Compare_BR_IF, I32_CONST_ARRAY_GET, I32_CONST_STRUCT_GET,
    I32_CONST_I32Arith, I32_CONST_I32Div, I32_CONST_I32Bits, I32_CONST_I32Less,
    I32_CONST_BR_IF, I32_CONST_I32More, I64_CONST_I64Compare_BR_IF, I64_CONST_I64More,
    I64_CONST_I64Arith, I64_CONST_I64Div, I64_CONST_I64Bits, I64_CONST_I64Less,
    F32_CONST_F32Compare_BR_IF, F32_CONST_F32Arith, F32_CONST_F32Div, F32_CONST_F32Sel,
    F32_CONST_F32Compare, F64_CONST_F64Compare_BR_IF, F64_CONST_F64Arith, F64_CONST_F64Div,
    F64_CONST_F64Sel, F64_CONST_F64Compare}

-----------------------------------------------------------------------------
(* Handlers led by an operator on the stack.                               *)

I32Arith_LOCAL_SET == Binary("stack", "stack", I32Arith, "local")
I32Bits_LOCAL_SET == Binary("stack", "stack", I32Bits, "local")
I32Eqz_BR_IF == Zero("I32", "branch")
I32Compare_BR_IF == Binary("stack", "stack", I32Compare, "branch")
I64Arith_LOCAL_SET == Binary("stack", "stack", I64Arith, "local")
I64Bits_LOCAL_SET == Binary("stack", "stack", I64Bits, "local")
I64Eqz_BR_IF == Zero("I64", "branch")
I64Compare_BR_IF == Binary("stack", "stack", I64Compare, "branch")
F32Arith_LOCAL_SET == Binary("stack", "stack", F32Arith, "local")
F32Sel_LOCAL_SET == Binary("stack", "stack", F32Sel, "local")
F32Compare_BR_IF == Binary("stack", "stack", F32Compare, "branch")
F64Arith_LOCAL_SET == Binary("stack", "stack", F64Arith, "local")
F64Sel_LOCAL_SET == Binary("stack", "stack", F64Sel, "local")
F64Compare_BR_IF == Binary("stack", "stack", F64Compare, "branch")

ResidentRows == {
    I32Arith_LOCAL_SET, I32Bits_LOCAL_SET, I32Eqz_BR_IF, I32Compare_BR_IF,
    I64Arith_LOCAL_SET, I64Bits_LOCAL_SET, I64Eqz_BR_IF, I64Compare_BR_IF,
    F32Arith_LOCAL_SET, F32Sel_LOCAL_SET, F32Compare_BR_IF, F64Arith_LOCAL_SET,
    F64Sel_LOCAL_SET, F64Compare_BR_IF}

-----------------------------------------------------------------------------
Rows ==
    DupRows \cup GlobalRows \cup LocalRows \cup ConstRows
      \cup UpvalRows \cup NullRows \cup ImmediateRows \cup ResidentRows

===============================================================================
