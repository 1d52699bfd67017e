----------------------------- MODULE Ownership -----------------------------
(***************************************************************************)
(* One activation that runs statement after statement under a protected    *)
(* region: every statement pushes its operands, executes one opcode of     *)
(* Threaded and stores or drops what it yields, and a trap anywhere in it  *)
(* lands in the catch block with the exception.  Between statements the    *)
(* operand stack is empty, so every reference the machine counts is owned  *)
(* by a slot or by a heap object.                                          *)
(***************************************************************************)
EXTENDS Threaded

CONSTANTS
    Preludes,   \* the programs that lead to the initial states
    Late,       \* offer the operands a handler consumes and then traps on
    SelfStore,  \* offer the statements that store a word over itself
    Reserve,    \* free slots a statement must find (0: it may run out)
    Depth       \* bound on the statements run after a prelude

VARIABLES
    m,          \* the machine
    left        \* statements still to run

vars == <<m, left>>

-----------------------------------------------------------------------------
(* Statements.  Local 1 is declared I64, locals 2 and 3 hold references.   *)

Numbers == {<<"LOCAL_GET", 1>>, <<"Immediate", "I64", 1>>}
Holders == {<<"LOCAL_GET", 2>>, <<"LOCAL_GET", 3>>}
Indexes == {<<"Immediate", "I32", 0>>, <<"Immediate", "I32", 1>>}
Values  == Holders \cup {<<"LOCAL_GET", 1>>}
Keys    == {<<"LOCAL_GET", 1>>, <<"LOCAL_GET", 2>>}
Keep    == {<<"LOCAL_SET", 2>>, <<"LOCAL_SET", 3>>}
One     == <<"Immediate", "I32", 1>>

\* Every way to draw one instruction from each set of a sequence.
Code(sets) ==
    {s \in [1 .. Len(sets) -> UNION ToSet(sets)] : \A i \in DOMAIN sets : s[i] \in sets[i]}
Then(pushes, ops, stores) == {p \o <<op>> \o <<st>> : p \in Code(pushes), op \in ops, st \in stores}
Do(pushes, ops) == {Append(p, op) : p \in Code(pushes), op \in ops}

Moves ==
    Then(<<Values>>, {<<"LOCAL_TEE", 3>>, <<"GLOBAL_TEE", 1>>}, Keep \cup {<<"UPVAL_SET", 1>>})
      \cup Then(<<>>, {<<"GLOBAL_GET", 1>>, <<"UPVAL_GET", 1>>, <<"CONST_GET", 1>>, <<"REF_NULL">>},
                {<<"LOCAL_SET", 2>>, <<"GLOBAL_SET", 1>>, <<"THROW">>})
      \cup {<<a, b, <<"SWAP">>, <<"LOCAL_SET", 2>>, <<"LOCAL_SET", 3>> >> : a \in Values, b \in Holders}
      \cup Then(<<Values, Holders, Indexes>>, {<<"SELECT">>}, {<<"LOCAL_SET", 2>>})
      \cup {<<a, <<"DUP">>, <<"LOCAL_SET", 2>>, <<"DROP">> >> : a \in Holders}

Scalars ==
    Then(<<Numbers, Numbers>>, {<<"Arithmetic", "I64", "ADD">>}, {<<"LOCAL_SET", 1>>})
      \cup Then(<<Numbers, {<<"LOCAL_GET", 1>>}>>, {<<"Comparison", "I64", "LT">>}, {<<"BR_IF">>})
      \cup Then(<<{<<"LOCAL_GET", 1>>}>>, {<<"EQZ">>, <<"Convert", "I32">>}, {<<"BR_IF">>})

References ==
    Then(<<Holders>>, {<<"REF_IS_NULL">>, <<"REF_TEST", "Str">>, <<"ERROR_CODE">>, <<"STRING_LEN">>,
                       <<"MAP_LEN">>}, {<<"BR_IF">>})
      \cup Then(<<Holders>>, {<<"REF_CAST", "Str">>, <<"REF_GET">>, <<"ERROR_GET">>, <<"STRING_ITER">>,
                              <<"MAP_KEYS">>, <<"MAP_ITER">>}, {<<"LOCAL_SET", 3>>})
      \cup Then(<<Holders, Holders>>, {<<"REF_EQ">>}, {<<"BR_IF">>})
      \cup Then(<<{One}>>, {<<"REF_NEW">>, <<"MAP_NEW_DEFAULT", "Map">>, <<"MAP_NEW_DEFAULT", "TMap">>,
                            <<"ARRAY_NEW_DEFAULT", "Ref">>}, {<<"LOCAL_SET", 2>>})
      \cup Do(<<Holders, {One}>>, {<<"REF_SET">>})
      \cup Do(<<Holders>>, {<<"THROW">>, <<"MAP_CLEAR">>})
      \cup Then(<<Values, {One}>>, {<<"ERROR_NEW">>}, Keep)
      \cup {<<a, <<"STRING_ENCODE_UTF32">>, <<"STRING_NEW_UTF32">>, <<"LOCAL_SET", 2>> >> : a \in Holders}
      \cup Then(<<Holders, {<<"CONST_GET", 2>>}>>, {<<"CLOSURE_NEW">>}, {<<"LOCAL_SET", 3>>})

Arrays ==
    Then(<<Numbers, {One}>>, {<<"ARRAY_NEW", "I64">>}, {<<"LOCAL_SET", 2>>})
      \cup Then(<<Values, {One}>>, {<<"ARRAY_NEW", "Ref">>}, {<<"LOCAL_SET", 3>>})
      \cup Then(<<Holders, Values, {One}>>, {<<"ARRAY_APPEND">>}, {<<"LOCAL_SET", 3>>})
      \cup Then(<<Holders, Indexes>>, {<<"ARRAY_GET">>, <<"ARRAY_DELETE">>, <<"STRUCT_GET">>},
                {<<"LOCAL_SET", 3>>, <<"GLOBAL_SET", 1>>})
      \cup Do(<<Holders, Indexes, Values>>, {<<"ARRAY_SET">>, <<"STRUCT_SET">>})
      \cup Do(<<Holders, Indexes, Values, Indexes>>, {<<"ARRAY_FILL">>})
      \cup Do(<<Holders, Indexes, Holders, Indexes, Indexes>>, {<<"ARRAY_COPY">>})
      \cup Then(<<Holders, Indexes, Indexes>>, {<<"ARRAY_SLICE">>}, {<<"LOCAL_SET", 3>>})

Containers ==
    Then(<<Numbers, Holders>>, {<<"STRUCT_NEW", "I64">>}, Keep)
      \cup Then(<<>>, {<<"STRUCT_NEW_DEFAULT", "I64">>}, Keep)
      \cup {<<k, v, k2, v, <<"Immediate", "I32", 2>>, <<"MAP_NEW", "Map">>, <<"LOCAL_SET", 2>> >> :
                k \in Keys, k2 \in Keys, v \in Holders}
      \cup Then(<<Holders, Keys>>, {<<"MAP_GET">>}, {<<"LOCAL_SET", 3>>})
      \cup {<<a, k, <<"MAP_LOOKUP">>, <<"BR_IF">>, <<"LOCAL_SET", 3>> >> : a \in Holders, k \in Keys}
      \cup Do(<<Holders, Keys, Values>>, {<<"MAP_SET">>})
      \cup Do(<<Holders, Keys>>, {<<"MAP_DELETE">>})

\* The opcodes that let go of an operand, leave it on the stack and can still
\* trap.
Consuming ==
    Then(<<Numbers, {<<"Immediate", "I64", 0>>, <<"LOCAL_GET", 1>>}>>, {<<"Division", "I64", "DIV">>},
         {<<"LOCAL_SET", 1>>})
      \cup Then(<<Holders, Holders>>, {<<"STRING_EQ">>, <<"STRING_CONCAT">>}, {<<"DROP">>})
      \cup Then(<<Holders>>, {<<"ARRAY_LEN">>}, {<<"BR_IF">>})

Statements == Moves \cup Scalars \cup References \cup Arrays \cup Containers \cup Consuming

\* A store that is about to overwrite a reference with itself, and a statement
\* that comes to one.
Slot(n, in) ==
    CASE in[1] = "LOCAL_SET" -> n.stack[in[2]]
      [] in[1] = "GLOBAL_SET" -> n.global[in[2]]
      [] in[1] = "UPVAL_SET" -> n.upval[in[2]]
SameStore(n, in) ==
    n.trap = "none" /\ Owned(Top(n, 0)) /\ Top(n, 0) = Slot(n, in)
Overwrites(n, s) ==
    \E k \in DOMAIN s :
        s[k][1] \in {"LOCAL_SET", "GLOBAL_SET", "UPVAL_SET"} /\ SameStore(Run(n, SubSeq(s, 1, k - 1)), s[k])

-----------------------------------------------------------------------------
(* The machine.                                                            *)

\* A machine about to run its first instruction, its constant pool loaded:
\* constant 1 is a string, constant 2 a function of one capture.
Fresh ==
    [stack |-> <<<<"I64", 0>>, Null, Null>>, global |-> <<Null>>, upval |-> <<Null>>,
     const |-> << <<"Ref", 1>>, <<"Ref", 2>> >>,
     heap |-> [a \in Addr |-> CASE a = 1 -> Str(0) [] a = 2 -> [type |-> "Fn", captures |-> 1]
                                [] OTHER -> Nil],
     rc |-> [a \in Addr |-> IF a <= 2 THEN 1 ELSE 0],
     free |-> [i \in 1 .. HeapCap - 2 |-> HeapCap + 1 - i],
     pc |-> 0, trap |-> "none", taken |-> FALSE]

\* Between two statements neither the branch nor the trap of the last one counts.
Settled(n) == [n EXCEPT !.pc = 0, !.trap = "none", !.taken = FALSE]

Init == m \in {Settled(Run(Fresh, p)) : p \in Preludes} /\ left = Depth

\* A statement that ended normally with machine n.
Complete(n) == n.trap = "none" /\ m' = Settled(n)

\* The catch block keeps the exception or drops it.
Caught(n) ==
    \/ m' = Settled(DROP(n))
    \/ (SelfStore \/ ~SameStore(n, <<"GLOBAL_SET", 1>>)) /\ m' = Settled(GLOBAL_SET(n, 1))

\* A statement that trapped, or threw, and landed in the catch block.
Catch(n) ==
    LET enter(landed) == landed.trap = "landed" /\ Caught(Settled(landed))
    IN /\ n.trap # "none"
       /\ enter(IF n.trap = "landed" THEN n ELSE Handle(n))

\* One statement, and what became of it.
Next ==
    /\ left > 0
    /\ Len(m.free) >= Reserve
    /\ left' = left - 1
    /\ \E s \in Statements :
          /\ SelfStore \/ ~Overwrites(m, s)
          /\ \E n \in {Run(m, s)} :
                /\ Late \/ s \notin Consuming \/ n.trap = "none"
                /\ Complete(n) \/ Catch(n)

Spec == Init /\ [][Next]_vars

-----------------------------------------------------------------------------
(* Properties.                                                             *)

\* Whatever statements ran, normally or into a trap that landed, every heap
\* slot counts exactly the words and the object edges that own it, and a slot
\* is on the free list exactly when nothing owns it: no handler drops an edge
\* without its count, counts one twice or releases what land() releases again.
CountsExact == Counted(m)

=============================================================================
