------------------------------ MODULE Counting ------------------------------
(* How references are counted. *)
EXTENDS Naturals, Sequences, FiniteSets

\* How often a occurs in s
Count(s, a) == Cardinality({k \in DOMAIN s : s[k] = a})

\* 1 if P holds
One(P) == IF P THEN 1 ELSE 0
=============================================================================
