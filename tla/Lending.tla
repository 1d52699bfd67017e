------------------------------ MODULE Lending -------------------------------
(***************************************************************************)
(* What the interpreter pool promises its callers, with no locks, channels *)
(* or counters: an interpreter is lent to one client at a time, no more    *)
(* than Size are out, and the native code the borrowers may be executing   *)
(* is unmapped only after the pool was closed and everything is back.      *)
(***************************************************************************)
EXTENDS Naturals, FiniteSets

CONSTANTS Client, Interp, Size, Buf, NoInterp

VARIABLES
    lent,     \* lent[c]: the interpreter client c may run
    open,     \* the pool still accepts calls
    mapped    \* native code that can be executed

absVars == <<lent, open, mapped>>

Out == {lent[c] : c \in Client} \ {NoInterp}

LendingInit ==
    /\ lent = [c \in Client |-> NoInterp]
    /\ open = TRUE
    /\ mapped = {}

\* Get returns i: nobody else has it and the pool is within its size.
Borrow(c, i) ==
    /\ lent[c] = NoInterp
    /\ i \notin Out
    /\ Cardinality(Out) < Size
    /\ lent' = [lent EXCEPT ![c] = i]
    /\ UNCHANGED <<open, mapped>>

\* Put is called: from here on the client may not touch the interpreter.
GiveBack(c) ==
    /\ lent[c] # NoInterp
    /\ lent' = [lent EXCEPT ![c] = NoInterp]
    /\ UNCHANGED <<open, mapped>>

\* A borrower compiles.
Map(c) ==
    /\ lent[c] # NoInterp
    /\ \E b \in Buf \ mapped : mapped' = mapped \cup {b}
    /\ UNCHANGED <<lent, open>>

Shut ==
    /\ open
    /\ open' = FALSE
    /\ UNCHANGED <<lent, mapped>>

Unmap ==
    /\ ~open
    /\ Out = {}
    /\ mapped' = {}
    /\ UNCHANGED <<lent, open>>

LendingNext ==
    \/ \E c \in Client :
          \/ \E i \in Interp : Borrow(c, i)
          \/ GiveBack(c)
          \/ Map(c)
    \/ Shut
    \/ Unmap

LendingSpec == LendingInit /\ [][LendingNext]_absVars
=============================================================================
