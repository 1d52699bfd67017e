------------------------------- MODULE MCPool -------------------------------
(***************************************************************************)
(* Model-checking instances of Pool.                                       *)
(***************************************************************************)
EXTENDS Pool, TLC

\* Clients, interpreters and buffers are interchangeable (safety runs only).
Symmetry == Permutations(Client) \cup Permutations(Interp) \cup Permutations(Buf)
=============================================================================
