------------------------------ MODULE MCMachine ------------------------------
(* The machine with one plain function and one that yields. *)
EXTENDS Machine, TLC

Functions == {"plain", "gen"}

\* plain takes an argument and returns a value; gen has a local
Signatures ==
    [f \in Functions |->
        IF f = "plain" THEN [params |-> 1, locals |-> 0, returns |-> 1, yields |-> FALSE]
        ELSE [params |-> 0, locals |-> 1, returns |-> 1, yields |-> TRUE]]

Symmetry == Permutations(Obj)
=============================================================================
