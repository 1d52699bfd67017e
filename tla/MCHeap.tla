------------------------------- MODULE MCHeap -------------------------------
(* The heap on instances small enough for TLC. *)
EXTENDS Heap, TLC

\* Operand slots are interchangeable; globals are not among them.
Symmetry == Permutations(Slot \ Global)
=============================================================================
