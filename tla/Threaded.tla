------------------------------ MODULE Threaded ------------------------------
(***************************************************************************)
(* The standalone handlers of interp/threaded.go: one operator per opcode, *)
(* from machine to machine, for the opcodes that move values between the   *)
(* operand stack, the variable slots and the heap.  Calls, coroutines and  *)
(* frames are the subject of Machine; the collector is the subject of      *)
(* Heap.  Here the frame is one activation whose locals sit below its      *)
(* operands, and the question is what every handler owes the exact         *)
(* reference counts, on its normal path and on each of its traps, once     *)
(* land() has delivered the trap to a protected region's catch block.      *)
(*                                                                         *)
(* A machine is a record:                                                  *)
(*   stack    locals first, then operands (i.stack[bp:sp]); its length     *)
(*            is sp                                                        *)
(*   global, upval, const   the slots of the other three sources           *)
(*   heap, rc, free         the slots, their counts and the free list      *)
(*   pc       how many instructions of the current statement have advanced *)
(*            fr.ip; the trapping instruction is the one at pc             *)
(*   trap     "none", or the error the handler panicked with               *)
(*   taken    whether the last conditional branch was taken                *)
(* A word on the stack is a pair <<kind, value>>; <<"Ref", a>> refers to   *)
(* slot a of the heap and <<"Ref", 0>> is null.  An I64 outside Inline     *)
(* does not fit a word and is promoted to a heap object.                   *)
(***************************************************************************)
EXTENDS Integers, Sequences, FiniteSets, SequencesExt, FiniteSetsExt

CONSTANTS
    Size,           \* numbers are 0 .. Size - 1
    Inline,         \* the I64 values a word can hold
    HeapCap,        \* heap limit: slots 1 .. HeapCap
    StackCap,       \* len(i.stack)
    NLocals,        \* locals of the activation, the bottom of its stack
    Apply(_, _, _)  \* what a binary operator computes from its operands

ASSUME SizeAssumption == Size \in Nat \ {0} /\ Inline \subseteq 0 .. Size - 1
ASSUME HeapAssumption == HeapCap \in Nat /\ StackCap \in Nat /\ NLocals \in 0 .. StackCap

Addr == 1 .. HeapCap
Null == <<"Ref", 0>>
Nil == [type |-> "nil"]

-----------------------------------------------------------------------------
(* Words and counts.                                                       *)

IsRef(b) == b[1] = "Ref"
Owned(b) == IsRef(b) /\ b[2] # 0

\* The heap object a word refers to; the null slot and a freed one hold nil.
Obj(m, b) == IF Owned(b) THEN m.heap[b[2]] ELSE Nil

\* refs(): the addresses an object owns, one entry per edge.
Refs(o) ==
    LET Ref(s) == [i \in DOMAIN SelectSeq(s, Owned) |-> SelectSeq(s, Owned)[i][2]]
    IN CASE o.type \in {"Gen", "Clo", "Err", "Iter"} -> Ref(o.elems)
         [] o.type = "Struct" -> Ref(<<o.ref>>)
         [] o.type \in {"Map", "TMap"} -> Ref(FlattenSeq([i \in DOMAIN o.entries |->
                                    <<o.entries[i].key, o.entries[i].val>>]))
         [] OTHER -> <<>>

Trap(m, e) == [m EXCEPT !.trap = e]
Ensure(ok, e, m, then) == IF ok THEN then ELSE Trap(m, e)
Advance(m) == [m EXCEPT !.pc = @ + 1]

RetainBox(m, b) == IF Owned(b) THEN [m EXCEPT !.rc[b[2]] = @ + 1] ELSE m
RetainAll(m, s) == FoldLeft(RetainBox, m, s)

\* release(): the worklist that frees an object and then what it owned.
RECURSIVE Drain(_, _)
Drain(m, work) ==
    IF work = <<>> THEN m
    ELSE LET a == Last(work)
             n == m.rc[a] - 1
         IN IF n # 0
            THEN Drain([m EXCEPT !.rc[a] = n], Front(work))
            ELSE Drain([m EXCEPT !.rc[a] = 0, !.heap[a] = Nil, !.free = Append(@, a)],
                       Front(work) \o Refs(m.heap[a]))

ReleaseBox(m, b) == IF Owned(b) THEN Drain(m, <<b[2]>>) ELSE m
ReleaseAll(m, s) == FoldLeft(ReleaseBox, m, s)

\* alloc() within the limit: the last freed slot, with one reference.  The
\* result is the machine and the word that owns the new object.
Alloc(m, o) ==
    IF m.free = <<>> THEN [m |-> Trap(m, "exhausted"), b |-> Null]
    ELSE [m |-> [m EXCEPT !.heap[Last(m.free)] = o, !.rc[Last(m.free)] = 1,
                          !.free = Front(@)],
          b |-> <<"Ref", Last(m.free)>>]

I64(v) == [type |-> "I64", num |-> v]
Plain(m, b) == [m |-> m, b |-> b]

\* boxI64() and the Box functions of the other kinds.
Box(m, kind, v) ==
    IF kind = "I64" /\ v \notin Inline THEN Alloc(m, I64(v)) ELSE Plain(m, <<kind, v>>)

\* borrowI64() and the unboxing of the other kinds: the number, unconsumed.
Num(m, b) == IF IsRef(b) THEN Obj(m, b).num ELSE b[2]

\* unboxI64() traps on a reference to anything but a promoted number.
IsNum(m, b) == IsRef(b) => Obj(m, b).type = "I64"

-----------------------------------------------------------------------------
(* The operand stack.                                                      *)

Sp(m) == Len(m.stack)
Top(m, k) == m.stack[Sp(m) - k]     \* Top(m, 0) is i.stack[i.sp-1]
Pop(m, n) == [m EXCEPT !.stack = SubSeq(@, 1, Len(@) - n)]
Has(m, n, then) == Ensure(Sp(m) >= n, "underflow", m, then)

\* A push that takes ownership of b, after the room check of the producers.
Push(m, b) ==
    Ensure(Sp(m) < StackCap, "overflow", m, Advance([m EXCEPT !.stack = Append(@, b)]))
PushCopy(m, b) ==
    Ensure(Sp(m) < StackCap, "overflow", m,
           Advance(RetainBox([m EXCEPT !.stack = Append(@, b)], b)))

\* Replace the top n operands by the word of an allocation or boxing p, whose
\* trap leaves the operands where p found them.
Yield(p, n) ==
    IF p.m.trap # "none" THEN p.m
    ELSE Advance([p.m EXCEPT !.stack = Append(SubSeq(@, 1, Len(@) - n), p.b)])

GLOBAL_GET(m, k) == PushCopy(m, m.global[k])
UPVAL_GET(m, k) == PushCopy(m, m.upval[k])
CONST_GET(m, k) == PushCopy(m, m.const[k])
LOCAL_GET(m, k) ==
    Ensure(Sp(m) < StackCap, "overflow", m,
           Ensure(k <= Sp(m), "segfault", m, PushCopy(m, m.stack[k])))

\* Storing over a slot releases its old word unless it is the word stored.
Displace(m, old, b) == IF old = b THEN m ELSE ReleaseBox(m, old)

GLOBAL_SET(m, k) ==
    Has(m, 1, Advance(Pop([Displace(m, m.global[k], Top(m, 0)) EXCEPT
                               !.global[k] = Top(m, 0)], 1)))
UPVAL_SET(m, k) ==
    Has(m, 1, Advance(Pop([Displace(m, m.upval[k], Top(m, 0)) EXCEPT
                               !.upval[k] = Top(m, 0)], 1)))
LOCAL_SET(m, k) ==
    Has(m, 1, Ensure(k <= Sp(m), "segfault", m,
        Advance(Pop([Displace(m, m.stack[k], Top(m, 0)) EXCEPT
                         !.stack[k] = Top(m, 0)], 1))))

\* A tee keeps the operand, so the slot takes a reference of its own first.
TeeBorrow(m, old, b) == IF old = b THEN m ELSE ReleaseBox(m, old)
Tee(m, old, b) == IF old = b THEN m ELSE ReleaseBox(RetainBox(m, b), old)

GLOBAL_TEE(m, k) ==
    Has(m, 1, Advance([Tee(m, m.global[k], Top(m, 0)) EXCEPT !.global[k] = Top(m, 0)]))
LOCAL_TEE(m, k) ==
    Has(m, 1, Ensure(k <= Sp(m), "segfault", m,
        Advance([Tee(m, m.stack[k], Top(m, 0)) EXCEPT !.stack[k] = Top(m, 0)])))

DROP(m) == Has(m, 1, Advance(Pop(ReleaseBox(m, Top(m, 0)), 1)))
DUP(m) == Has(m, 1, PushCopy(m, Top(m, 0)))
SWAP(m) ==
    Has(m, 2, Advance([m EXCEPT !.stack[Sp(m)] = Top(m, 1), !.stack[Sp(m) - 1] = Top(m, 0)]))
SELECT(m) ==
    LET kept == IF Num(m, Top(m, 0)) # 0 THEN Top(m, 2) ELSE Top(m, 1)
        lost == IF Num(m, Top(m, 0)) # 0 THEN Top(m, 1) ELSE Top(m, 2)
    IN Has(m, 3, Yield(Plain(ReleaseBox(m, lost), kept), 3))
BR_IF(m) ==
    Has(m, 1, Advance([Pop(m, 1) EXCEPT !.taken = (Num(m, Top(m, 0)) # 0)]))

-----------------------------------------------------------------------------
(* Numbers.  unboxI64 consumes a promoted operand where it reads it, which *)
(* for the trapping operators is before the check of the divisor.          *)

Arithmetic(m, kind, op) ==
    LET a == Top(m, 1)
        b == Top(m, 0)
        consumed == ReleaseBox(ReleaseBox(m, a), b)
    IN Has(m, 2, Yield(Box(consumed, kind, Apply(op, Num(m, a), Num(m, b))), 2))

Comparison(m, kind, op) ==
    LET a == Top(m, 1)
        b == Top(m, 0)
        consumed == ReleaseBox(ReleaseBox(m, a), b)
    IN Has(m, 2, Yield(Plain(consumed, <<"I32", Apply(op, Num(m, a), Num(m, b)) % 2>>), 2))

Division(m, kind, op) ==
    LET a == Top(m, 1)
        b == Top(m, 0)
        consumed == ReleaseBox(ReleaseBox(m, b), a)
    IN Has(m, 2, Ensure(Num(m, b) # 0, "divide", consumed,
           Yield(Box(consumed, kind, Apply(op, Num(m, a), Num(m, b))), 2)))

EQZ(m) ==
    Has(m, 1, Yield(Plain(ReleaseBox(m, Top(m, 0)),
                          <<"I32", IF Num(m, Top(m, 0)) = 0 THEN 1 ELSE 0>>), 1))

\* The conversions between the numeric kinds: I64_TO_I32, I32_TO_I64_S, ...
Convert(m, kind) ==
    Has(m, 1, Yield(Box(ReleaseBox(m, Top(m, 0)), kind, Num(m, Top(m, 0))), 1))

\* I32_CONST, I64_CONST, F32_CONST, F64_CONST.
Immediate(m, kind, v) ==
    Ensure(Sp(m) < StackCap, "overflow", m, Yield(Box(m, kind, v), 0))

-----------------------------------------------------------------------------
(* References.                                                             *)

REF_NULL(m) == Push(m, Null)
REF_IS_NULL(m) ==
    Has(m, 1, Yield(Plain(ReleaseBox(m, Top(m, 0)),
                          <<"I32", IF Top(m, 0) = Null THEN 1 ELSE 0>>), 1))
REF_EQ(m) ==
    Has(m, 2, Yield(Plain(ReleaseBox(ReleaseBox(m, Top(m, 0)), Top(m, 1)),
                          <<"I32", IF Top(m, 0) = Top(m, 1) THEN 1 ELSE 0>>), 2))
REF_NEW(m) ==
    Has(m, 1, Ensure(~IsRef(Top(m, 0)), "mismatch", m,
        Yield(Alloc(m, [type |-> Top(m, 0)[1], num |-> Top(m, 0)[2]]), 1)))

Scalar == {"I32", "I64"}

\* The word is boxed, perhaps into a second object, before the cell is let go.
REF_GET(m) ==
    LET o == Obj(m, Top(m, 0))
        p == Box(m, o.type, o.num)
    IN Has(m, 1, Ensure(o.type \in Scalar, "mismatch", m,
           IF p.m.trap # "none" THEN p.m
           ELSE Yield(Plain(ReleaseBox(p.m, Top(m, 0)), p.b), 1)))
REF_SET(m) ==
    LET cell == Top(m, 1)
    IN Has(m, 2, Ensure(~IsRef(Top(m, 0)) /\ Obj(m, cell).type \in Scalar, "mismatch", m,
           Advance(ReleaseBox(Pop([m EXCEPT !.heap[cell[2]] =
               [type |-> Top(m, 0)[1], num |-> Top(m, 0)[2]]], 2), cell))))
REF_TEST(m, type) ==
    LET b == Top(m, 0)
    IN Has(m, 1, Yield(Plain(ReleaseBox(m, b),
           <<"I32", IF (IF IsRef(b) THEN Obj(m, b).type ELSE b[1]) = type THEN 1 ELSE 0>>), 1))
REF_CAST(m, type) ==
    LET b == Top(m, 0)
    IN Has(m, 1, Ensure((IF IsRef(b) THEN Obj(m, b).type ELSE b[1]) = type, "mismatch", m,
                        Advance(m)))

-----------------------------------------------------------------------------
(* Strings: unboxRef checks an operand and consumes it, one at a time.     *)

Str(t) == [type |-> "Str", text |-> t]
IsStr(m, b) == Obj(m, b).type = "Str"

STRING_LEN(m) ==
    Has(m, 1, Ensure(IsStr(m, Top(m, 0)), "mismatch", m,
        Yield(Plain(ReleaseBox(m, Top(m, 0)), <<"I32", 1>>), 1)))
STRING_EQ(m) ==
    LET first == ReleaseBox(m, Top(m, 0))
    IN Has(m, 2, Ensure(IsStr(m, Top(m, 0)), "mismatch", m,
           Ensure(IsStr(first, Top(m, 1)), "mismatch", first,
               Yield(Plain(ReleaseBox(first, Top(m, 1)),
                           <<"I32", IF Obj(m, Top(m, 0)) = Obj(m, Top(m, 1))
                                    THEN 1 ELSE 0>>), 2))))
STRING_CONCAT(m) ==
    Has(m, 2, Ensure(IsStr(m, Top(m, 1)) /\ IsStr(m, Top(m, 0)), "mismatch", m,
        Yield(Alloc(Pop(ReleaseBox(ReleaseBox(m, Top(m, 0)), Top(m, 1)), 1), Str(1)), 1)))
STRING_ENCODE_UTF32(m) ==
    Has(m, 1, Ensure(IsStr(m, Top(m, 0)), "mismatch", m,
        Yield(Alloc(ReleaseBox(m, Top(m, 0)), [type |-> "Arr", kind |-> "I32", elems |-> <<0>>]), 1)))
\* The iterator takes over the operand's reference to the string.
STRING_ITER(m) ==
    Has(m, 1, Ensure(IsStr(m, Top(m, 0)), "mismatch", m,
        Yield(Alloc(m, [type |-> "Iter", elems |-> <<Top(m, 0)>>]), 1)))

-----------------------------------------------------------------------------
(* Arrays: "Arr" is the TypedArray of numbers of one kind, "Gen" the       *)
(* generic Array that owns its elements.                                   *)

Typed(m, b) == Obj(m, b).type = "Arr"
IsArray(m, b) == Obj(m, b).type \in {"Arr", "Gen"}
TypedArray(kind, s) == [type |-> "Arr", kind |-> kind, elems |-> s]
Array(s) == [type |-> "Gen", elems |-> s]
Elems(m, b) == Obj(m, b).elems
Within(s, at, n) == at >= 0 /\ at + n <= Len(s)
SetElems(m, b, s) == [m EXCEPT !.heap[b[2]].elems = s]
Splice(s, at, t) == [i \in DOMAIN s |-> IF i \in at + 1 .. at + Len(t) THEN t[i - at] ELSE s[i]]
Operands(m, from, n) == [i \in 1 .. n |-> m.stack[from + i]]

\* What an element of a kind keeps of a number: a Boolean array tells zero from
\* the rest (the truncation to 8 bits is beyond Size).
Narrow(kind, v) == IF kind = "I1" /\ v # 0 THEN 1 ELSE v
Nums(m, kind, s) == [i \in DOMAIN s |-> Narrow(kind, Num(m, s[i]))]

\* unboxI64() over operands, first to last: a mismatch finds those before it let
\* go.  Operands of the other kinds are never references.
UnboxAll(m, words, then) ==
    LET bad == {i \in DOMAIN words : ~IsNum(m, words[i])}
    IN Ensure(bad = {}, "mismatch", ReleaseAll(m, SubSeq(words, 1, Min(bad) - 1)), then)

\* The size is not negative: make() would panic below it.
ARRAY_NEW(m, kind) ==
    LET n == Num(m, Top(m, 0))
        words == Operands(m, Sp(m) - n - 1, n)
    IN Has(m, 1, Has(m, n + 1,
           IF kind = "Ref" THEN Yield(Alloc(Pop(m, n), Array(words)), 1)
           ELSE UnboxAll(m, words,
                    Yield(Alloc(Pop(ReleaseAll(m, words), n), TypedArray(kind, Nums(m, kind, words))), 1))))
ARRAY_NEW_DEFAULT(m, kind) ==
    LET n == Num(m, Top(m, 0))
        all(x) == [i \in 1 .. n |-> x]
    IN Has(m, 1, Ensure(n >= 0, "segfault", m,
           Yield(Alloc(m, IF kind = "Ref" THEN Array(all(Null)) ELSE TypedArray(kind, all(0))), 1)))

\* unbox() consumes the operand before its type is looked at.
ARRAY_LEN(m) ==
    LET consumed == ReleaseBox(m, Top(m, 0))
    IN Has(m, 1, Ensure(IsArray(m, Top(m, 0)), "mismatch", consumed,
           Yield(Plain(consumed, <<"I32", Len(Elems(m, Top(m, 0)))>>), 1)))

\* arrayGet(): a generic element is copied, a typed one is boxed.
ArrayGet(m, b, at) ==
    IF ~IsArray(m, b) THEN Plain(Trap(m, "mismatch"), Null)
    ELSE IF ~Within(Elems(m, b), at, 1) THEN Plain(Trap(m, "range"), Null)
    ELSE IF Typed(m, b) THEN Box(m, Obj(m, b).kind, Elems(m, b)[at + 1])
    ELSE Plain(RetainBox(m, Elems(m, b)[at + 1]), Elems(m, b)[at + 1])

\* The result of a read p replaces the container, which is let go after it.
Exchange(p, b, n) ==
    IF p.m.trap # "none" THEN p.m ELSE Yield(Plain(ReleaseBox(p.m, b), p.b), n)

ARRAY_GET(m) ==
    LET popped == Pop(m, 1)
        b == Top(m, 1)
    IN Has(m, 2, Ensure(IsRef(b), "mismatch", popped,
           Exchange(ArrayGet(popped, b, Num(m, Top(m, 0))), b, 1)))

ARRAY_SET(m) ==
    LET val == Top(m, 0)
        at == Num(m, Top(m, 1))
        b == Top(m, 2)
        stored == IF Typed(m, b)
                  THEN SetElems(ReleaseBox(m, val), b,
                                Splice(Elems(m, b), at, <<Narrow(Obj(m, b).kind, Num(m, val))>>))
                  ELSE ReleaseBox(SetElems(m, b, Splice(Elems(m, b), at, <<val>>)),
                                  Elems(m, b)[at + 1])
    IN Has(m, 3, Ensure(IsArray(m, b), "mismatch", m,
           Ensure(Within(Elems(m, b), at, 1), "range", m,
               Ensure(Typed(m, b) => IsNum(m, val), "mismatch", m,
                   Advance(Pop(ReleaseBox(stored, b), 3))))))

\* A generic fill retains the value once less than it stores it, and lets it
\* go when it stores it nowhere.
ARRAY_FILL(m) ==
    LET n == Num(m, Top(m, 0))
        val == Top(m, 1)
        at == Num(m, Top(m, 2))
        b == Top(m, 3)
        old == SubSeq(Elems(m, b), at + 1, at + n)
        filled(w) == Splice(Elems(m, b), at, [i \in 1 .. n |-> w])
        stored == IF Typed(m, b)
                  THEN SetElems(ReleaseBox(m, val), b, filled(Narrow(Obj(m, b).kind, Num(m, val))))
                  ELSE IF n <= 0 THEN ReleaseBox(m, val)
                  ELSE ReleaseAll(SetElems(RetainAll(m, [i \in 1 .. n - 1 |-> val]), b, filled(val)), old)
    IN Has(m, 4, Ensure(IsArray(m, b), "mismatch", m,
           Ensure(Within(Elems(m, b), at, n), "range", m,
               Ensure(Typed(m, b) => IsNum(m, val), "mismatch", m,
                   Advance(Pop(ReleaseBox(stored, b), 4))))))

Alike(m, dst, src) ==
    /\ Obj(m, src).type = Obj(m, dst).type
    /\ Typed(m, dst) => Obj(m, src).kind = Obj(m, dst).kind

ARRAY_COPY(m) ==
    LET n == Num(m, Top(m, 0))
        from == Num(m, Top(m, 1))
        src == Top(m, 2)
        to == Num(m, Top(m, 3))
        dst == Top(m, 4)
        new == SubSeq(Elems(m, src), from + 1, from + n)
        old == SubSeq(Elems(m, dst), to + 1, to + n)
        counted == IF Typed(m, dst) THEN m ELSE ReleaseAll(RetainAll(m, new), old)
    IN Has(m, 5, Ensure(n >= 0, "range", m,
           Ensure(IsArray(m, dst) /\ Alike(m, dst, src), "mismatch", m,
               Ensure(Within(Elems(m, src), from, n) /\ Within(Elems(m, dst), to, n), "range", m,
                   Advance(Pop(ReleaseBox(ReleaseBox(
                       SetElems(counted, dst, Splice(Elems(m, dst), to, new)), src), dst), 5))))))

ARRAY_APPEND(m) ==
    LET n == Num(m, Top(m, 0))
        words == Operands(m, Sp(m) - n - 1, n)
        b == m.stack[Sp(m) - n - 1]
        grown == IF Typed(m, b)
                 THEN SetElems(ReleaseAll(m, words), b, Elems(m, b) \o Nums(m, Obj(m, b).kind, words))
                 ELSE SetElems(m, b, Elems(m, b) \o words)
        done == Advance(Pop(grown, n + 1))
    IN Has(m, 1, Has(m, n + 2, Ensure(IsArray(m, b), "mismatch", m,
           IF Typed(m, b) THEN UnboxAll(m, words, done) ELSE done)))

ARRAY_DELETE(m) ==
    LET at == Num(m, Top(m, 0))
        b == Top(m, 1)
        p == IF Typed(m, b) THEN Box(m, Obj(m, b).kind, Elems(m, b)[at + 1])
             ELSE Plain(m, Elems(m, b)[at + 1])
    IN Has(m, 2, Ensure(IsArray(m, b), "mismatch", m,
           Ensure(Within(Elems(m, b), at, 1), "range", m,
               IF p.m.trap # "none" THEN p.m
               ELSE Exchange(Plain(SetElems(p.m, b, RemoveAt(Elems(m, b), at + 1)), p.b), b, 2))))

ARRAY_SLICE(m) ==
    LET end == Num(m, Top(m, 0))
        start == Num(m, Top(m, 1))
        b == Top(m, 2)
        part == SubSeq(Elems(m, b), start + 1, end)
        kept == IF Typed(m, b) THEN m ELSE RetainAll(m, part)
    IN Has(m, 3, Ensure(IsArray(m, b), "mismatch", m,
           Ensure(start >= 0 /\ end <= Len(Elems(m, b)) /\ start <= end, "range", m,
               Exchange(Alloc(kept, [Obj(m, b) EXCEPT !.elems = part]), b, 3))))


-----------------------------------------------------------------------------
(* Structs: a number of some kind, kept as a raw number, and a reference.   *)

IsStruct(m, b) == Obj(m, b).type = "Struct"

Struct(kind, n, b) == [type |-> "Struct", kind |-> kind, num |-> n, ref |-> b]

STRUCT_NEW(m, kind) ==
    Has(m, 2, Ensure(IsNum(m, Top(m, 1)), "mismatch", m,
        Yield(Alloc(Pop(ReleaseBox(m, Top(m, 1)), 1), Struct(kind, Num(m, Top(m, 1)), Top(m, 0))), 1)))
STRUCT_NEW_DEFAULT(m, kind) ==
    Ensure(Sp(m) < StackCap, "overflow", m, Yield(Alloc(m, Struct(kind, 0, Null)), 0))

\* structField(): the number is boxed, the reference is copied.
StructField(m, b, at) ==
    IF ~IsStruct(m, b) THEN Plain(Trap(m, "mismatch"), Null)
    ELSE IF at \notin 0 .. 1 THEN Plain(Trap(m, "segfault"), Null)
    ELSE IF at = 0 THEN Box(m, Obj(m, b).kind, Obj(m, b).num)
    ELSE Plain(RetainBox(m, Obj(m, b).ref), Obj(m, b).ref)

STRUCT_GET(m) ==
    LET popped == Pop(m, 1)
        b == Top(m, 1)
    IN Has(m, 2, Ensure(IsRef(b), "mismatch", popped,
           Exchange(StructField(popped, b, Num(m, Top(m, 0))), b, 1)))
STRUCT_SET(m) ==
    LET val == Top(m, 0)
        at == Num(m, Top(m, 1))
        b == Top(m, 2)
        stored == IF at = 0
                  THEN [ReleaseBox(m, val) EXCEPT !.heap[b[2]].num = Num(m, val)]
                  ELSE [ReleaseBox(m, Obj(m, b).ref) EXCEPT !.heap[b[2]].ref = val]
    IN Has(m, 3, Ensure(IsStruct(m, b), "mismatch", m,
           Ensure(at \in 0 .. 1, "segfault", m,
               Ensure(at = 0 => IsNum(m, val), "mismatch", m,
                   Advance(Pop(ReleaseBox(stored, b), 3))))))

-----------------------------------------------------------------------------
(* Maps: "Map" is the generic map, whose entries own their key and their   *)
(* value; "TMap" is the TypedMap of I64 keys, whose entries own a value.   *)
(* An entry's k is the index it is found under.                            *)

IsMap(m, b) == Obj(m, b).type \in {"Map", "TMap"}
Entries(m, b) == Obj(m, b).entries
SetEntries(m, b, s) == [m EXCEPT !.heap[b[2]].entries = s]
Found(s, k) == {i \in DOMAIN s : s[i].k = k}
Words(s) == FlattenSeq([i \in DOMAIN s |-> <<s[i].key, s[i].val>>])

\* mapKey(), and the unboxing of a typed map's key: the index, the machine
\* once the operand is consumed, and the key an entry stores.
MapKey(m, key) ==
    LET o == Obj(m, key)
        number == [m |-> ReleaseBox(m, key), k |-> <<"I64", Num(m, key)>>, b |-> <<"I64", 0>>]
    IN IF key[1] = "I64" \/ o.type = "I64" THEN number
       ELSE [m |-> m, k |-> IF o.type = "Str" THEN <<"Text", o.text>> ELSE key, b |-> key]

\* Map.Set: what the entries become and the words of the entry replaced.
Enter(e, s, val) ==
    LET new == [k |-> e.k, key |-> e.b, val |-> val]
    IN [m |-> e.m,
        s |-> IF Found(s, e.k) = {} THEN Append(s, new)
              ELSE [i \in DOMAIN s |-> IF s[i].k = e.k THEN new ELSE s[i]],
        gone |-> Words(SelectSeq(s, LAMBDA x : x.k = e.k))]
Put(m, s, key, val) == Enter(MapKey(m, key), s, val)

\* The replaced entry's words are let go.
Replaced(p) == [m |-> ReleaseAll(p.m, p.gone), s |-> p.s]

\* A typed map takes only numbers as keys.
KeyOk(type, m, key) == type = "TMap" => IsNum(m, key)

MAP_NEW(m, type) ==
    LET n == Num(m, Top(m, 0))
        base == Sp(m) - 1 - 2 * n
        add(p, i) ==
            IF p.m.trap # "none" THEN p
            ELSE IF ~KeyOk(type, p.m, m.stack[base + 2 * i - 1])
            THEN [p EXCEPT !.m = Trap(p.m, "mismatch")]
            ELSE Replaced(Put(p.m, p.s, m.stack[base + 2 * i - 1], m.stack[base + 2 * i]))
        built(p) == IF p.m.trap # "none" THEN p.m
                    ELSE Yield(Alloc(p.m, [type |-> type, entries |-> p.s]), 2 * n + 1)
    IN Has(m, 1, Ensure(n >= 0, "range", m, Has(m, 2 * n + 1,
           built(FoldLeft(add, [m |-> m, s |-> <<>>], [i \in 1 .. n |-> i])))))
MAP_NEW_DEFAULT(m, type) ==
    Has(m, 1, Ensure(Num(m, Top(m, 0)) >= 0, "range", m,
        Yield(Alloc(m, [type |-> type, entries |-> <<>>]), 1)))
MAP_LEN(m) ==
    Has(m, 1, Ensure(IsMap(m, Top(m, 0)), "mismatch", m,
        Yield(Plain(ReleaseBox(m, Top(m, 0)), <<"I32", Len(Entries(m, Top(m, 0)))>>), 1)))

\* The value under a key, or the map's zero; the key operand is consumed.
Retrieve(m, b, e, at) ==
    LET val == IF at = {} THEN Null ELSE Entries(m, b)[CHOOSE i \in at : TRUE].val
    IN [m |-> ReleaseBox(RetainBox(ReleaseBox(e.m, e.b), val), b), b |-> val, found |-> at # {}]
MapGet(m, b, key) ==
    LET get(e) == Retrieve(m, b, e, Found(Entries(m, b), e.k))
    IN get(MapKey(m, key))

MAP_GET(m) ==
    Has(m, 2, Ensure(IsMap(m, Top(m, 1)) /\ KeyOk(Obj(m, Top(m, 1)).type, m, Top(m, 0)), "mismatch", m,
        Yield(MapGet(m, Top(m, 1), Top(m, 0)), 2)))
MAP_LOOKUP(m) ==
    LET answer(p) == Advance([p.m EXCEPT !.stack[Sp(m) - 1] = p.b,
                                         !.stack[Sp(m)] = <<"I32", IF p.found THEN 1 ELSE 0>>])
    IN Has(m, 2, Ensure(IsMap(m, Top(m, 1)) /\ KeyOk(Obj(m, Top(m, 1)).type, m, Top(m, 0)), "mismatch", m,
           answer(MapGet(m, Top(m, 1), Top(m, 0)))))
MAP_SET(m) ==
    LET b == Top(m, 2)
        store(p) == ReleaseAll(SetEntries(p.m, b, p.s), p.gone)
    IN Has(m, 3, Ensure(IsMap(m, b) /\ KeyOk(Obj(m, b).type, m, Top(m, 1)), "mismatch", m,
           Advance(Pop(ReleaseBox(store(Put(m, Entries(m, b), Top(m, 1), Top(m, 0))), b), 3))))
MAP_DELETE(m) ==
    LET b == Top(m, 1)
        remove(e) ==
            ReleaseBox(ReleaseAll(SetEntries(e.m, b, SelectSeq(Entries(m, b), LAMBDA x : x.k # e.k)),
                                  Words(SelectSeq(Entries(m, b), LAMBDA x : x.k = e.k))), e.b)
    IN Has(m, 2, Ensure(IsMap(m, b) /\ KeyOk(Obj(m, b).type, m, Top(m, 0)), "mismatch", m,
           Advance(Pop(ReleaseBox(remove(MapKey(m, Top(m, 0))), b), 2))))
MAP_CLEAR(m) ==
    LET b == Top(m, 0)
    IN Has(m, 1, Ensure(IsMap(m, b), "mismatch", m,
           Advance(Pop(ReleaseBox(ReleaseAll(SetEntries(m, b, <<>>), Words(Entries(m, b))), b), 1))))

\* A generic map's stored keys are copied, a typed map's are boxed again.
MAP_KEYS(m) ==
    LET b == Top(m, 0)
        n == Len(Entries(m, b))
        start == [m |-> m, s |-> <<>>]
        add(p, e) == LET q == IF Obj(m, b).type = "TMap" THEN Box(p.m, "I64", e.k[2])
                              ELSE Plain(RetainBox(p.m, e.key), e.key)
                     IN [m |-> q.m, s |-> Append(p.s, q.b)]
        keys == FoldLeft(add, start, Entries(m, b))
    IN Has(m, 1, Ensure(IsMap(m, b), "mismatch", m,
           IF keys.m.trap # "none" THEN keys.m
           ELSE Exchange(Alloc(keys.m, Array(keys.s)), b, 1)))

\* The iterator takes over the operand's reference to the map and copies the
\* first key.
MAP_ITER(m) ==
    LET b == Top(m, 0)
        current == IF Obj(m, b).type = "Map" /\ Entries(m, b) # <<>>
                   THEN <<Entries(m, b)[1].key>> ELSE <<>>
    IN Has(m, 1, Ensure(IsMap(m, b), "mismatch", m,
           Yield(Alloc(RetainAll(m, current), [type |-> "Iter", elems |-> <<b>> \o current]), 1)))

-----------------------------------------------------------------------------
(* Closures and errors.  A closure takes over its captures and the         *)
(* function; an error takes over its payload.                              *)

CLOSURE_NEW(m) ==
    LET fn == Top(m, 0)
        n == Obj(m, fn).captures
    IN Has(m, 1, Ensure(Obj(m, fn).type = "Fn", "mismatch", m, Has(m, n + 1,
           Yield(Alloc(Pop(m, n + 1), [type |-> "Clo",
                                       elems |-> Operands(m, Sp(m) - n - 1, n) \o <<fn>>]), 0))))

ERROR_NEW(m) ==
    Has(m, 2, Ensure(Top(m, 0)[1] = "I32", "mismatch", m,
        Yield(Alloc(m, [type |-> "Err", elems |-> <<Top(m, 1)>>]), 2)))
ERROR_GET(m) ==
    LET o == Obj(m, Top(m, 0))
    IN Has(m, 1, Ensure(o.type = "Err", "mismatch", m,
           Exchange(Plain(RetainBox(m, o.elems[1]), o.elems[1]), Top(m, 0), 1)))
ERROR_CODE(m) ==
    Has(m, 1, Ensure(Obj(m, Top(m, 0)).type = "Err", "mismatch", m,
        Yield(Plain(ReleaseBox(m, Top(m, 0)), <<"I32", 1>>), 1)))
STRING_NEW_UTF32(m) ==
    Has(m, 1, Ensure(Typed(m, Top(m, 0)) /\ Obj(m, Top(m, 0)).kind = "I32", "mismatch", m,
        Yield(Alloc(ReleaseBox(m, Top(m, 0)), Str(1)), 1)))

-----------------------------------------------------------------------------
(* Traps.  land() lets go of every operand above the region's entry depth, *)
(* from the top down, and leaves the exception as the sole operand.        *)

Land(m, exc) ==
    [ReleaseAll(m, Reverse(SubSeq(m.stack, NLocals + 1, Sp(m)))) EXCEPT
        !.stack = Append(SubSeq(m.stack, 1, NLocals), exc), !.trap = "landed"]

\* handle(): the error is wrapped in a heap object before the operands go, and
\* a wrap that finds no room leaves the trap undelivered.
Handle(m) ==
    LET p == Alloc([m EXCEPT !.trap = "none"], [type |-> "Err", elems |-> <<Null>>])
    IN IF p.m.trap # "none" THEN p.m ELSE Land(p.m, p.b)

THROW(m) == Has(m, 1, Land(Pop(m, 1), Top(m, 0)))

-----------------------------------------------------------------------------
(* One instruction, <<opcode, operand ...>>, and a run of them that stops  *)
(* at the first trap.                                                      *)

Exec(m, in) ==
    CASE in[1] = "GLOBAL_GET" -> GLOBAL_GET(m, in[2])
      [] in[1] = "GLOBAL_SET" -> GLOBAL_SET(m, in[2])
      [] in[1] = "GLOBAL_TEE" -> GLOBAL_TEE(m, in[2])
      [] in[1] = "LOCAL_GET" -> LOCAL_GET(m, in[2])
      [] in[1] = "LOCAL_SET" -> LOCAL_SET(m, in[2])
      [] in[1] = "LOCAL_TEE" -> LOCAL_TEE(m, in[2])
      [] in[1] = "CONST_GET" -> CONST_GET(m, in[2])
      [] in[1] = "UPVAL_GET" -> UPVAL_GET(m, in[2])
      [] in[1] = "UPVAL_SET" -> UPVAL_SET(m, in[2])
      [] in[1] = "Immediate" -> Immediate(m, in[2], in[3])
      [] in[1] = "Arithmetic" -> Arithmetic(m, in[2], in[3])
      [] in[1] = "Comparison" -> Comparison(m, in[2], in[3])
      [] in[1] = "Division" -> Division(m, in[2], in[3])
      [] in[1] = "EQZ" -> EQZ(m)
      [] in[1] = "Convert" -> Convert(m, in[2])
      [] in[1] = "DROP" -> DROP(m)
      [] in[1] = "DUP" -> DUP(m)
      [] in[1] = "SWAP" -> SWAP(m)
      [] in[1] = "SELECT" -> SELECT(m)
      [] in[1] = "BR_IF" -> BR_IF(m)
      [] in[1] = "THROW" -> THROW(m)
      [] in[1] = "REF_NULL" -> REF_NULL(m)
      [] in[1] = "REF_IS_NULL" -> REF_IS_NULL(m)
      [] in[1] = "REF_EQ" -> REF_EQ(m)
      [] in[1] = "REF_NEW" -> REF_NEW(m)
      [] in[1] = "REF_GET" -> REF_GET(m)
      [] in[1] = "REF_SET" -> REF_SET(m)
      [] in[1] = "REF_TEST" -> REF_TEST(m, in[2])
      [] in[1] = "REF_CAST" -> REF_CAST(m, in[2])
      [] in[1] = "STRING_NEW_UTF32" -> STRING_NEW_UTF32(m)
      [] in[1] = "STRING_LEN" -> STRING_LEN(m)
      [] in[1] = "STRING_EQ" -> STRING_EQ(m)
      [] in[1] = "STRING_CONCAT" -> STRING_CONCAT(m)
      [] in[1] = "STRING_ENCODE_UTF32" -> STRING_ENCODE_UTF32(m)
      [] in[1] = "STRING_ITER" -> STRING_ITER(m)
      [] in[1] = "ARRAY_NEW" -> ARRAY_NEW(m, in[2])
      [] in[1] = "ARRAY_NEW_DEFAULT" -> ARRAY_NEW_DEFAULT(m, in[2])
      [] in[1] = "ARRAY_LEN" -> ARRAY_LEN(m)
      [] in[1] = "ARRAY_GET" -> ARRAY_GET(m)
      [] in[1] = "ARRAY_SET" -> ARRAY_SET(m)
      [] in[1] = "ARRAY_FILL" -> ARRAY_FILL(m)
      [] in[1] = "ARRAY_COPY" -> ARRAY_COPY(m)
      [] in[1] = "ARRAY_APPEND" -> ARRAY_APPEND(m)
      [] in[1] = "ARRAY_DELETE" -> ARRAY_DELETE(m)
      [] in[1] = "ARRAY_SLICE" -> ARRAY_SLICE(m)
      [] in[1] = "STRUCT_NEW" -> STRUCT_NEW(m, in[2])
      [] in[1] = "STRUCT_NEW_DEFAULT" -> STRUCT_NEW_DEFAULT(m, in[2])
      [] in[1] = "STRUCT_GET" -> STRUCT_GET(m)
      [] in[1] = "STRUCT_SET" -> STRUCT_SET(m)
      [] in[1] = "MAP_NEW" -> MAP_NEW(m, in[2])
      [] in[1] = "MAP_NEW_DEFAULT" -> MAP_NEW_DEFAULT(m, in[2])
      [] in[1] = "MAP_LEN" -> MAP_LEN(m)
      [] in[1] = "MAP_GET" -> MAP_GET(m)
      [] in[1] = "MAP_LOOKUP" -> MAP_LOOKUP(m)
      [] in[1] = "MAP_SET" -> MAP_SET(m)
      [] in[1] = "MAP_DELETE" -> MAP_DELETE(m)
      [] in[1] = "MAP_CLEAR" -> MAP_CLEAR(m)
      [] in[1] = "MAP_KEYS" -> MAP_KEYS(m)
      [] in[1] = "MAP_ITER" -> MAP_ITER(m)
      [] in[1] = "CLOSURE_NEW" -> CLOSURE_NEW(m)
      [] in[1] = "ERROR_NEW" -> ERROR_NEW(m)
      [] in[1] = "ERROR_GET" -> ERROR_GET(m)
      [] in[1] = "ERROR_CODE" -> ERROR_CODE(m)

Run(m, code) ==
    FoldLeft(LAMBDA n, in : IF n.trap = "none" THEN Exec(n, in) ELSE n, [m EXCEPT !.pc = 0], code)

-----------------------------------------------------------------------------
(* What the counts must be.                                                *)

\* The address of every owning edge: from the stack, the slots and the heap.
Edges(m) ==
    LET words == SelectSeq(m.stack \o m.global \o m.upval \o m.const, Owned)
    IN [i \in DOMAIN words |-> words[i][2]] \o FlattenSeq([a \in Addr |-> Refs(m.heap[a])])

Counted(m) ==
    LET edges == Edges(m)
    IN \A a \in Addr : /\ m.rc[a] = Cardinality({i \in DOMAIN edges : edges[i] = a})
                       /\ (m.rc[a] = 0) <=> (a \in ToSet(m.free))

=============================================================================
