----------------------------- MODULE FusionShapes -----------------------------
(***************************************************************************)
(* What the families of fused handlers have in common.  A family is what   *)
(* its handlers do, where their operands come from and where the result    *)
(* goes; Fusion says what each shape does.                                 *)
(*                                                                         *)
(* An operand comes from the "stack" (it is resident, and consumed), from  *)
(* a "local", "global", "upval" or "const" slot (it is borrowed), from an  *)
(* immediate ("imm"), or is a fresh null ("null") or copy of the top       *)
(* ("dup").  A result is pushed ("push"), stored ("local") or decides a    *)
(* conditional branch ("branch").                                          *)
(***************************************************************************)

\* The sources an index or a stored value is fused from.
Sources == {"local", "global", "upval", "const", "imm"}

\* The shapes of fused handlers.
Binary(l, r, o, s)  == [shape |-> "Binary", lhs |-> l, rhs |-> r, op |-> o, sink |-> s]
Zero(k, s)          == [shape |-> "Zero", kind |-> k, sink |-> s]
Element(c, at, k)   == [shape |-> "Element", container |-> c, index |-> at, kind |-> k]
Assign(at, vals, k) == [shape |-> "Assign", index |-> {at}, value |-> vals, kind |-> k]
Field(c, at)        == [shape |-> "Field", container |-> c, index |-> {at}]
IsNull(c, s)        == [shape |-> "IsNull", from |-> c, sink |-> s]
Discard(c)          == [shape |-> "Discard", from |-> c]
Capture             == [shape |-> "Capture"]
Test                == [shape |-> "Test"]

-----------------------------------------------------------------------------
(* The operator families: Arith is add, sub, mul; Bits the shifts,         *)
(* rotations and bitwise operators; Sel is min, max, copysign; Div the     *)
(* operators that trap on a zero divisor; Compare all comparisons, which   *)
(* some families split in two (Less and More, Same and Order).             *)

Operator(k, f, n) == [kind |-> k, does |-> f, name |-> n]

I32Arith   == Operator("I32", "Arithmetic", "Arith")
I32Div     == Operator("I32", "Division", "Div")
I32Bits    == Operator("I32", "Arithmetic", "Bits")
I32Compare == Operator("I32", "Comparison", "Compare")
I32Less    == Operator("I32", "Comparison", "Less")
I32More    == Operator("I32", "Comparison", "More")
I64Arith   == Operator("I64", "Arithmetic", "Arith")
I64Div     == Operator("I64", "Division", "Div")
I64Bits    == Operator("I64", "Arithmetic", "Bits")
I64Compare == Operator("I64", "Comparison", "Compare")
I64Less    == Operator("I64", "Comparison", "Less")
I64More    == Operator("I64", "Comparison", "More")
F32Arith   == Operator("F32", "Arithmetic", "Arith")
F32Div     == Operator("F32", "Division", "Div")
F32Sel     == Operator("F32", "Arithmetic", "Sel")
F32Compare == Operator("F32", "Comparison", "Compare")
F64Arith   == Operator("F64", "Arithmetic", "Arith")
F64Div     == Operator("F64", "Division", "Div")
F64Sel     == Operator("F64", "Arithmetic", "Sel")
F64Compare == Operator("F64", "Comparison", "Compare")
F64Same    == Operator("F64", "Comparison", "Same")
F64Order   == Operator("F64", "Comparison", "Order")

===============================================================================
