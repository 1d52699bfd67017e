------------------------------- MODULE Fusion -------------------------------
(***************************************************************************)
(* Fused execution beside exact execution.  Two machines start alike and   *)
(* run the same bytecode: `exact' one standalone handler of Threaded at a  *)
(* time, `fast' the fused handler that the generator of                    *)
(* internal/cmd/geninterp composed for the whole pattern.  A step runs one *)
(* pattern of Superinstructions on both, from every room left on the       *)
(* stack; the next one lands the trap, if there was one, in the catch      *)
(* block of the region around it and drops the operands.                   *)
(*                                                                         *)
(* The machines declare the same slots in every source: 1 and 2 hold       *)
(* numbers of the scenario's kind, 3 an I32 index and 4 a container; the   *)
(* constant 5 is a function of one capture.                                *)
(***************************************************************************)
EXTENDS Threaded, Superinstructions

CONSTANTS
    Scenarios,  \* what the slots hold, and the patterns run: [kind, x, y, at, held, depth]
    Exempt,     \* the shapes of rows that are not offered
    Pads        \* operands pushed before a pattern

VARIABLES
    fast,       \* the machine that runs the fused handlers
    exact,      \* the machine that runs the standalone ones
    scene,      \* the scenario, which the declared types of the slots follow
    left        \* patterns still to run

vars == <<fast, exact, scene, left>>

-----------------------------------------------------------------------------
(* Patterns.  A pattern is a row with its choices made: the source of the  *)
(* index or value where the row has several, the immediate and the local   *)
(* a result is stored to.                                                  *)

NumberSlots == {1, 2}
IndexSlot == 3
HolderSlot == 4
FnSlot == 5

Repr(kind) == IF kind \in {"I1", "I8"} THEN "I32" ELSE kind

\* The instruction that materialises slot k of a source.
Fetch(src, k, kind, v) ==
    CASE src = "local" -> <<"LOCAL_GET", k>>
      [] src = "global" -> <<"GLOBAL_GET", k>>
      [] src = "upval" -> <<"UPVAL_GET", k>>
      [] src = "const" -> <<"CONST_GET", k>>
      [] src = "imm" -> <<"Immediate", kind, v>>
      [] src = "null" -> <<"REF_NULL">>
      [] src = "dup" -> <<"DUP">>

\* Nothing to fetch for an operand that is on the stack already.
Load(src, k, kind, v) == IF src = "stack" THEN <<>> ELSE <<Fetch(src, k, kind, v)>>
Resident(src, in) == IF src \in {"stack", "dup"} THEN <<in>> ELSE <<>>

Sink(s, dst) ==
    CASE s = "push" -> <<>>
      [] s = "branch" -> << <<"BR_IF">> >>
      [] s = "local" -> << <<"LOCAL_SET", dst>> >>

\* The bytecode of a pattern, which exact execution runs as it stands.
Bytecode(p) ==
    LET r == p.row
        kind == Repr(scene.kind)
    IN CASE r.shape = "Binary" ->
              Load(r.lhs, 1, kind, p.imm) \o Load(r.rhs, 2, kind, p.imm)
                \o << <<r.op.does, kind, r.op.name>> >> \o Sink(r.sink, p.dst)
         [] r.shape = "Zero" -> << <<"EQZ">> >> \o Sink(r.sink, p.dst)
         [] r.shape = "Element" ->
              Load(r.container, HolderSlot, kind, 0) \o Load(p.src, IndexSlot, "I32", p.imm)
                \o << <<"ARRAY_GET">> >>
         [] r.shape = "Assign" ->
              Load("const", HolderSlot, kind, 0) \o Load(p.src, IndexSlot, "I32", p.imm)
                \o Load(p.val, 1, kind, p.imm) \o << <<"ARRAY_SET">> >>
         [] r.shape = "Field" ->
              Load(r.container, HolderSlot, kind, 0) \o Load(p.src, IndexSlot, "I32", p.imm)
                \o << <<"STRUCT_GET">> >>
         [] r.shape = "IsNull" ->
              Load(r.from, HolderSlot, kind, 0) \o << <<"REF_IS_NULL">> >> \o Sink(r.sink, p.dst)
         [] r.shape = "Discard" -> Load(r.from, HolderSlot, kind, 0) \o << <<"DROP">> >>
         [] r.shape = "Capture" -> << <<"CONST_GET", FnSlot>>, <<"CLOSURE_NEW">> >>
         [] r.shape = "Test" -> << <<"Immediate", "I32", p.imm>>, <<"BR_IF">> >>

\* What the code before a pattern left on the stack for it.
Setup(r) ==
    CASE r.shape = "Binary" -> Resident(r.lhs, <<"LOCAL_GET", 1>>) \o Resident(r.rhs, <<"GLOBAL_GET", 2>>)
      [] r.shape = "Zero" -> << <<"LOCAL_GET", 1>> >>
      [] r.shape \in {"Element", "Field"} -> Resident(r.container, <<"GLOBAL_GET", HolderSlot>>)
      [] r.shape \in {"IsNull", "Discard"} -> Resident(r.from, <<"UPVAL_GET", HolderSlot>>)
      [] r.shape = "Capture" -> << <<"LOCAL_GET", HolderSlot>> >>
      [] OTHER -> <<>>

-----------------------------------------------------------------------------
(* Fused handlers.  A borrowed operand is read where it lies and keeps its *)
(* count; a resident one is consumed.  fr.ip moves once, at the end.       *)

Borrow(m, src, k, kind, v) ==
    CASE src = "local" -> m.stack[k]
      [] src = "global" -> m.global[k]
      [] src = "upval" -> m.upval[k]
      [] src = "const" -> m.const[k]
      [] src = "imm" -> <<kind, v>>
      [] src = "null" -> Null
      [] src = "dup" -> Top(m, 0)

Room(m, then) == Ensure(Sp(m) < StackCap, "overflow", m, then)
Moved(m, p) == IF m.trap = "none" THEN [m EXCEPT !.pc = Len(Bytecode(p))] ELSE m

\* Where the word of w goes, once the n resident operands are gone.
Deliver(w, n, p) ==
    IF w.m.trap # "none" THEN w.m
    ELSE CASE p.row.sink = "push" -> Yield(w, n)
           [] p.row.sink = "branch" -> [Pop(w.m, n) EXCEPT !.taken = (w.b[2] # 0)]
           [] p.row.sink = "local" ->
                Pop([Displace(w.m, w.m.stack[p.dst], w.b) EXCEPT !.stack[p.dst] = w.b], n)

\* The number of resident operands, and the one at a place.
Consumed(r) == Len(Setup(r))
WordTop(m, p, src, k) ==
    IF src = "stack" THEN Top(m, 0) ELSE Borrow(m, src, k, p.row.op.kind, p.imm)
Word(m, p, src, k) ==
    IF src = "stack" THEN Top(m, IF k = 1 THEN Consumed(p.row) - 1 ELSE 0)
    ELSE Borrow(m, src, k, p.row.op.kind, p.imm)

\* A number that is computed without materialising its operands.
FusedBinary(m, p) ==
    LET r == p.row
        n == Consumed(r)
        a == Word(m, p, r.lhs, 1)
        b == Word(m, p, r.rhs, 2)
        gone == ReleaseAll(m, Operands(m, Sp(m) - n, n))
        v == Apply(r.op.name, Num(m, a), Num(m, b))
        w == IF r.op.does = "Comparison" THEN Plain(gone, <<"I32", v % 2>>)
             ELSE Box(gone, r.op.kind, v)
        done == Has(m, n, Deliver(w, n, p))
    IN IF n = 0 /\ r.sink = "push" THEN Room(m, done) ELSE done

\* An operator that may trap finds its operands on the stack, each loaded by
\* the code of its standalone handler.
FusedDivision(m, p) ==
    LET op == p.row.op
        divide(loaded) ==
            IF loaded.trap # "none" THEN loaded ELSE Division(loaded, op.kind, op.name)
    IN divide(Run(m, Load(p.row.lhs, 1, op.kind, p.imm) \o Load(p.row.rhs, 2, op.kind, p.imm)))

FusedZeroRoomy(m, p) ==
    Room(m, Deliver(Plain(ReleaseBox(m, Top(m, 0)),
                          <<"I32", IF Num(m, Top(m, 0)) = 0 THEN 1 ELSE 0>>), 1, p))
FusedZero(m, p) ==
    Has(m, 1, Deliver(Plain(ReleaseBox(m, Top(m, 0)),
                            <<"I32", IF Num(m, Top(m, 0)) = 0 THEN 1 ELSE 0>>), 1, p))

\* An element read from the array type the slot declares, or by arrayGet().
FusedElement(m, p) ==
    LET r == p.row
        at == Num(m, Borrow(m, p.src, IndexSlot, "I32", p.imm))
        b == Borrow(m, r.container, HolderSlot, "Ref", 0)
        typed == Typed(m, b) /\ Obj(m, b).kind = r.kind
        read == IF ~typed THEN ArrayGet(m, b, at)
                ELSE IF Within(Elems(m, b), at, 1) THEN Box(m, r.kind, Elems(m, b)[at + 1])
                ELSE Plain(Trap(m, "range"), Null)
    IN CASE r.container = "stack" ->
              Has(m, 1, Ensure(IsRef(Top(m, 0)), "mismatch", m,
                               Exchange(ArrayGet(m, Top(m, 0), at), Top(m, 0), 1)))
         [] r.container = "const" -> Room(m, Ensure(typed, "mismatch", m, Yield(read, 0)))
         [] OTHER -> Room(m, Ensure(IsRef(b), "mismatch", m, Yield(read, 0)))

\* A field read for the kind the slot's declared type gives it.
FusedField(m, p) ==
    LET at == Num(m, Borrow(m, p.src, IndexSlot, "I32", p.imm))
        b == Borrow(m, p.row.container, HolderSlot, "Ref", 0)
        declared == at = 0 => Obj(m, b).kind = scene.kind
    IN IF p.row.container = "stack"
       THEN Has(m, 1, Ensure(IsRef(Top(m, 0)), "mismatch", m,
                             Exchange(StructField(m, Top(m, 0), at), Top(m, 0), 1)))
       ELSE Room(m, Ensure(IsRef(b), "mismatch", m,
                    Ensure(IsStruct(m, b) => declared, "mismatch", m,
                           Yield(StructField(m, b, at), 0))))

\* The store that the generator fuses for an array constant: the stack pointer
\* goes back by three operands that were never pushed.
FusedAssign(m, p) ==
    LET at == Num(m, Borrow(m, p.src, IndexSlot, "I32", p.imm))
        v == Num(m, Borrow(m, p.val, 1, Repr(p.row.kind), p.imm))
        b == m.const[HolderSlot]
    IN Room(m, Ensure(Typed(m, b), "mismatch", m,
           Ensure(Within(Elems(m, b), at, 1), "range", m,
               Pop(SetElems(m, b, Splice(Elems(m, b), at, <<Narrow(p.row.kind, v)>>)), 3))))

FusedIsNull(m, p) ==
    LET test == Deliver(Plain(m, <<"I32", IF Borrow(m, p.row.from, HolderSlot, "Ref", 0) = Null
                                          THEN 1 ELSE 0>>), 0, p)
        roomy == p.row.sink = "push" \/ p.row.from \in {"null", "dup"}
    IN Has(m, Consumed(p.row), IF roomy THEN Room(m, test) ELSE test)

\* A copy that is dropped at once is never made.
FusedDiscard(m, p) ==
    Has(m, Consumed(p.row), IF p.row.from \in {"null", "dup"} THEN Room(m, m) ELSE m)

\* A closure over a constant function, which is retained instead of copied.
FusedCaptureBorrow(m, p) ==
    LET fn == m.const[FnSlot]
        n == Obj(m, fn).captures
    IN Room(m, Has(m, n,
           Yield(Alloc(Pop(m, n),
                       [type |-> "Clo", elems |-> Operands(m, Sp(m) - n, n) \o <<fn>>]), 0)))
FusedCapture(m, p) ==
    LET fn == m.const[FnSlot]
        n == Obj(m, fn).captures
    IN Room(m, Has(m, n,
           Yield(Alloc(RetainBox(Pop(m, n), fn),
                       [type |-> "Clo", elems |-> Operands(m, Sp(m) - n, n) \o <<fn>>]), 0)))

FusedTest(m, p) == [m EXCEPT !.taken = (p.imm # 0)]

Fused(m, p) ==
    LET r == p.row
    IN CASE r.shape = "Binary" /\ r.op.does = "Division" -> FusedDivision(m, p)
         [] r.shape = "Binary" /\ r.op.does # "Division" -> Moved(FusedBinary(m, p), p)
         [] r.shape = "Zero" -> Moved(FusedZero(m, p), p)
         [] r.shape = "Element" -> Moved(FusedElement(m, p), p)
         [] r.shape = "Field" -> Moved(FusedField(m, p), p)
         [] r.shape = "Assign" -> Moved(FusedAssign(m, p), p)
         [] r.shape = "IsNull" -> Moved(FusedIsNull(m, p), p)
         [] r.shape = "Discard" -> Moved(FusedDiscard(m, p), p)
         [] r.shape = "Capture" -> Moved(FusedCapture(m, p), p)
         [] r.shape = "Test" -> Moved(FusedTest(m, p), p)

-----------------------------------------------------------------------------
(* The machines.                                                           *)

Other(kind) == IF kind = "I32" THEN "F64" ELSE "I32"
Promoted(s, v) == s.kind = "I64" /\ v \notin Inline
Number(s, v, a) == IF Promoted(s, v) THEN <<"Ref", a>> ELSE <<Repr(s.kind), v>>

\* What slot 4 holds: the handlers check it at run time, whatever is declared.
Held(s) ==
    LET last == Narrow(s.kind, Size - 1)
    IN CASE s.held = "null" -> Nil
         [] s.held = "text" -> Str(0)
         [] s.held = "typed" -> TypedArray(s.kind, <<0, last>>)
         [] s.held = "other" -> TypedArray(Other(s.kind), <<1>>)
         [] s.held = "generic" -> Array(<<Number(s, s.x, 4), Null>>)
         [] s.held = "struct" -> Struct(s.kind, last, <<"Ref", 2>>)
         [] s.held = "foreign" -> Struct(Other(s.kind), 1, <<"Ref", 2>>)

\* A machine whose slots the program's prologue has filled: slot 1 of the heap
\* is the function, 2 the array constant, 3 the container, 4 and 5 numbers.
Start(s) ==
    LET slots == <<Number(s, s.x, 4), Number(s, s.y, IF s.y = s.x THEN 4 ELSE 5), <<"I32", s.at>>,
                   IF s.held = "null" THEN Null ELSE <<"Ref", 3>> >>
        heap == [a \in Addr |->
                   CASE a = 1 -> [type |-> "Fn", captures |-> 1]
                     [] a = 2 -> TypedArray(s.kind, <<1, Narrow(s.kind, Size - 2)>>)
                     [] a = 3 -> Held(s)
                     [] a = 4 -> IF Promoted(s, s.x) THEN I64(s.x) ELSE Nil
                     [] a = 5 -> IF Promoted(s, s.y) /\ s.y # s.x THEN I64(s.y) ELSE Nil
                     [] OTHER -> Nil]
        m == [stack |-> slots, global |-> slots, upval |-> slots,
              const |-> <<slots[1], slots[2], slots[3], <<"Ref", 2>>, <<"Ref", 1>> >>,
              heap |-> heap, rc |-> [a \in Addr |-> 0],
              free |-> SetToSeq({a \in Addr : heap[a] = Nil}),
              pc |-> 0, trap |-> "none", taken |-> FALSE]
        edges == Edges(m)
    IN [m EXCEPT !.rc = [a \in Addr |-> Cardinality({i \in DOMAIN edges : edges[i] = a})]]

Init ==
    /\ scene \in Scenarios
    /\ fast = Start(scene)
    /\ exact = fast
    /\ left = scene.depth

\* The rows that the guards of a fused handler accept for the slots' declared
\* types, and the choices they leave.
Accepts(r) ==
    /\ r.shape \notin Exempt
    /\ r.shape = "Binary" => r.op.kind = scene.kind
    /\ r.shape \in {"Zero", "Assign"} => r.kind = scene.kind
    /\ r.shape = "Element" => r.kind \in {scene.kind, "Any"}

Patterns ==
    LET immediate(r, src) == src = "imm" \/ r.shape = "Test" \/ (r.shape = "Binary" /\ r.rhs = "imm")
        choices(r) ==
            {p \in [row : {r},
                    src : IF r.shape \in {"Element", "Field", "Assign"} THEN r.index ELSE {"none"},
                    val : IF r.shape = "Assign" THEN r.value ELSE {"none"},
                    imm : 0 .. Size - 1,
                    dst : IF r.shape = "Binary" /\ r.sink = "local" THEN NumberSlots ELSE {1}] :
                immediate(r, p.src) \/ p.imm = 0}
    IN UNION {choices(r) : r \in Rows}

\* A field index is fused only when the slot's declared type has the field.
Guarded(p) ==
    (p.row.shape = "Field" /\ p.row.container # "stack") =>
        Num(fast, Borrow(fast, p.src, IndexSlot, "I32", p.imm)) \in 0 .. 1

Idle(m) == m.trap = "none" /\ m.pc = 0 /\ Sp(m) = NLocals

\* Both machines run a pattern, after pad operands and the pattern's own.  The
\* handlers that leave the counts wrong are the subject of Ownership: no
\* pattern starts from what they leave.
Fuse(p, pad) ==
    /\ left > 0
    /\ Idle(fast) /\ Idle(exact)
    /\ Counted(exact)
    /\ \E setup \in {[i \in 1 .. pad |-> <<"REF_NULL">>] \o Setup(p.row)} :
       \E f \in {Run(fast, setup)}, e \in {Run(exact, setup)} :
          /\ f.trap = "none" /\ e.trap = "none"
          /\ fast' = Fused([f EXCEPT !.pc = 0], p)
          /\ exact' = Run(e, Bytecode(p))
    /\ left' = left - 1
    /\ UNCHANGED scene

\* The end of the statement: a trap lands in the catch block, which drops it.
Settled(m) ==
    LET empty(n) ==
            [ReleaseAll(n, SubSeq(n.stack, NLocals + 1, Sp(n))) EXCEPT
                !.stack = SubSeq(@, 1, NLocals), !.pc = 0, !.taken = FALSE,
                !.trap = IF @ = "landed" THEN "none" ELSE @]
    IN empty(IF m.trap = "none" THEN m ELSE Handle(m))

Settle ==
    /\ ~Idle(exact)
    /\ fast.trap = exact.trap
    /\ fast' = Settled(fast) /\ fast'.trap = "none"
    /\ exact' = Settled(exact) /\ exact'.trap = "none"
    /\ UNCHANGED <<scene, left>>

Next == (\E p \in Patterns, pad \in Pads : Accepts(p.row) /\ Guarded(p) /\ Fuse(p, pad)) \/ Settle

Spec == Init /\ [][Next]_vars

-----------------------------------------------------------------------------
(* Properties.                                                             *)

\* What a word stands for: a promoted number is the number.
Meaning(m, b) == IF Obj(m, b).type = "I64" THEN <<"I64", Num(m, b)>> ELSE b
Meanings(m, s) == [i \in DOMAIN s |-> Meaning(m, s[i])]
Locals(m) == SubSeq(m.stack, 1, Min({NLocals, Sp(m)}))
Slots(m) == <<Meanings(m, Locals(m)), Meanings(m, m.global), Meanings(m, m.upval)>>

\* How often each object is counted, wherever it was allocated.
Counts(m) ==
    [o \in {m.heap[a] : a \in Addr} |->
        MapThenSumSet(LAMBDA a : IF m.heap[a] = o THEN m.rc[a] ELSE 0, Addr)]

RanOut == {"overflow", "exhausted"}

\* A fused handler does what the handlers it replaces do: the same trap or none,
\* the same operands, slots and branch, fr.ip past the same instructions, and,
\* once a trap has landed, the same objects with the same counts.
FusedAgrees ==
    exact.trap \notin RanOut =>
        /\ fast.trap = exact.trap
        /\ fast.taken = exact.taken
        /\ Slots(fast) = Slots(exact)
        /\ exact.trap = "none" =>
              /\ Meanings(fast, fast.stack) = Meanings(exact, exact.stack)
              /\ fast.pc = exact.pc
              /\ Counts(fast) = Counts(exact)

\* Borrowing in place of materialising owns what it should: whether the fused
\* handler finished, trapped or landed, each slot of the heap counts its owners
\* if it does in exact execution, and also where exact execution ran out of room
\* first.  (An allocation that fails after its operands were consumed is one of
\* the late traps of Ownership, and leaves either machine inexact.)
FusedOwns ==
    (fast.trap # "exhausted" /\ (Counted(exact) \/ exact.trap \in RanOut)) => Counted(fast)

\* A fused handler never needs a stack word or a heap slot that the handlers it
\* replaces do not need.
FusedFits == fast.trap \in RanOut => exact.trap \in RanOut

=============================================================================
