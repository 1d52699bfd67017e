---------------------------- MODULE MCSharedJit -----------------------------
(* The shared cache on instances small enough for TLC. *)
EXTENDS SharedJit, TLC

Symmetry == Permutations(Member)
=============================================================================
