-------------------------------- MODULE Heap --------------------------------
(***************************************************************************)
(* The interpreter's reference-counted heap and its cycle collector        *)
(* (interp/interp.go: alloc, reuse, gc, scan, mark, sweep, pace, retain,   *)
(* release, releaseBox, reclaim, dispose, recount, Reset, the host entry   *)
(* points) driven by the ownership effects of the threaded handlers that   *)
(* move references (interp/threaded.go).                                   *)
(*                                                                         *)
(* A root slot stands for any place outside the heap that owns a           *)
(* reference: an operand-stack entry, a local, a global, a frame's         *)
(* callable, or a handle the host keeps.  An object is the sequence of     *)
(* references its Refs method reports.  Address 0 is the null sentinel.    *)
(*                                                                         *)
(* release's worklist and the collector's phases are steps of their own,   *)
(* so that the counts can be examined between them; no instruction starts  *)
(* before the previous one is through (Ready).                             *)
(***************************************************************************)
EXTENDS Integers, Sequences, FiniteSets, SequencesExt, Counting

CONSTANTS
    Slot,       \* root slots
    Global,     \* the ones that are globals of reference type
    Limit,      \* WithHeapLimit: how many addresses the heap may have
    Base,       \* 1 + the constants; addresses below it survive Reset
    InitCap,    \* WithHeap: capacity of the heap slice when New is done
    Runway,     \* heapRunway
    Width,      \* references held by the widest object
    MaxRc,      \* bound on the count an object can accumulate
    MaxNull,    \* bound on the count of the null sentinel
    MaxTraps,   \* bound on the traps that are caught
    HostResets  \* whether the host calls Reset between runs

ASSUME HeapAssumption ==
    /\ Limit \in Nat /\ Base \in 1 .. Limit /\ InitCap \in Base .. Limit
    /\ Runway \in Nat /\ Width \in Nat \ {0} /\ MaxRc \in Nat /\ MaxNull \in Nat
    /\ MaxTraps \in Nat /\ HostResets \in BOOLEAN
    /\ IsFiniteSet(Slot) /\ Global \subseteq Slot

Addr  == 0 .. Limit - 1
NoRef == -1                     \* a slot that holds no reference
Nil   == <<-1>>                 \* a heap slot that has been reclaimed
Object == UNION {[1 .. n -> Addr] : n \in 0 .. Width}
NoPend  == [obj |-> <<>>, ops |-> <<>>, dst |-> {}]
Operand == Slot \ Global        \* slots an instruction can consume from or push to
NoStore == [addr |-> NoRef, field |-> 0, val |-> NoRef]

VARIABLES
    root,      \* what each root slot refers to
    heap,      \* heap[a]: the references of the object at a, or Nil
    rc,        \* exact reference counts
    top,       \* len(heap)
    cap,       \* cap(heap)
    free,      \* the free list, used as a stack
    target,    \* occupied slots at which the next allocation collects
    todo,      \* calls of release the current instruction still makes, in order
    work,      \* release's worklist, used as a stack
    store,     \* STRUCT_SET's write, made after it released the old value
    pend,      \* the object being allocated and the slot it goes to
    collected, \* this allocation has run the collector
    trial,     \* the collector's table
    grey,      \* mark's worklist
    phase,     \* "run", alloc's "place", the collector's phases, or a failure
    traps      \* traps caught so far

vars == <<root, heap, rc, top, cap, free, target, todo, work, store, pend,
          collected, trial, grey, phase, traps>>
relVars == <<todo, work, store>>
gcVars  == <<pend, collected, trial, grey, phase>>
memVars == <<top, cap, free, target>>

Ready == phase = "run" /\ todo = <<>> /\ work = <<>> /\ store = NoStore

Alive(a) == heap[a] # Nil
Live == {a \in 0 .. top - 1 : Alive(a)}
Consts == 1 .. Base - 1
Occupied == top - Len(free)

(***************************************************************************)
(* Heap edges, without the field STRUCT_SET is about to overwrite.         *)
(***************************************************************************)
Edges == {e \in Live \X (1 .. Width) :
             /\ e[2] <= Len(heap[e[1]])
             /\ ~(e[1] = store.addr /\ e[2] = store.field)}
EdgesTo(a) == {e \in Edges : heap[e[1]][e[2]] = a}

(***************************************************************************)
(* Everything that owns a reference to a: slots, fields, constants, the    *)
(* operands an unfinished instruction has taken, releases not yet made.    *)
(***************************************************************************)
Owners(a) ==
    Cardinality({s \in Slot : root[s] = a}) + Cardinality(EdgesTo(a))
    + One(a \in Consts) + Count(pend.obj, a) + Count(todo, a) + Count(work, a)
    + One(store.addr = a) + One(store.val = a)

TypeOK ==
    /\ root \in [Slot -> Addr \cup {NoRef}]
    /\ heap \in [Addr -> Object \cup {Nil}]
    /\ rc \in [Addr -> Nat]
    /\ top \in Base .. Limit /\ cap \in top .. 2 * Limit
    /\ free \in Seq(Addr) /\ target \in Base .. Limit
    /\ todo \in Seq(Addr) /\ work \in Seq(Addr)
    /\ store \in [addr : Addr \cup {NoRef}, field : 0 .. Width, val : Addr \cup {NoRef}]
    /\ pend \in [obj : Object, ops : Seq(Operand), dst : SUBSET Operand] /\ collected \in BOOLEAN
    /\ trial \in [Addr -> Int] /\ grey \subseteq Addr
    /\ phase \in {"run", "place", "scan", "mark", "sweep", "exhausted", "segfault"}
    /\ traps \in 0 .. MaxTraps

(***************************************************************************)
(* New: the null sentinel, the constants (objects without references), one *)
(* counted null per reference global, and one more count for the sentinel. *)
(***************************************************************************)
Recounted == [a \in Addr |-> IF a = 0 THEN 1 + Cardinality(Global)
                             ELSE IF a < Base THEN 1 ELSE 0]

Min2(a, b) == IF a < b THEN a ELSE b
Max2(a, b) == IF a < b THEN b ELSE a

\* Slip: the goal is not clamped to the heap limit.
PaceUnclamped(occ) == occ + Max2(occ - Base, Runway)

\* pace, with occ slots in use
Pace(occ) == Max2(Min2(occ + Max2(occ - Base, Runway), Limit), occ)

Init ==
    /\ root = [s \in Slot |-> IF s \in Global THEN 0 ELSE NoRef]
    /\ heap = [a \in Addr |-> IF a < Base THEN <<>> ELSE Nil]
    /\ rc = [Recounted EXCEPT ![0] = @ + 1]
    /\ top = Base /\ cap = InitCap
    /\ free = <<>>
    /\ target = Max2(Min2(Max2(InitCap, Base + Runway), Limit), Base)
    /\ todo = <<>> /\ work = <<>> /\ store = NoStore
    /\ pend = NoPend /\ collected = FALSE
    /\ trial = [a \in Addr |-> 0] /\ grey = {}
    /\ phase = "run"
    /\ traps = 0

-----------------------------------------------------------------------------
(***************************************************************************)
(* Instructions and host calls.  Retain adds to the count in the action;   *)
(* releases are queued in the order the code makes them.                   *)
(***************************************************************************)
Retained(a) == [rc EXCEPT ![a] = @ + 1]
NullRoom(n) == rc[0] + n <= MaxNull
RetainRoom(a) == IF a = 0 THEN NullRoom(1) ELSE rc[a] < MaxRc

\* releaseBox leaves the null sentinel alone; release does not.
BoxRelease(a) == IF a \in {0, NoRef} THEN <<>> ELSE <<a>>
RawRelease(a) == IF a = NoRef THEN <<>> ELSE <<a>>

\* REF_NULL, and zero() for a reference slot
RefNull(t) ==
    /\ Ready
    /\ root[t] = NoRef /\ NullRoom(1)
    /\ root' = [root EXCEPT ![t] = 0]
    /\ rc' = Retained(0)
    /\ UNCHANGED <<heap, memVars, relVars, gcVars, traps>>

\* DUP, LOCAL_GET, GLOBAL_GET, UPVAL_GET, and the host's Retain
Dup(s, t) ==
    /\ Ready
    /\ root[s] # NoRef /\ root[t] = NoRef /\ RetainRoom(root[s])
    /\ root' = [root EXCEPT ![t] = root[s]]
    /\ rc' = Retained(root[s])
    /\ UNCHANGED <<heap, memVars, relVars, gcVars, traps>>

\* CONST_GET of a constant that lives on the heap
ConstGet(a, t) ==
    /\ Ready
    /\ root[t] = NoRef /\ RetainRoom(a)
    /\ root' = [root EXCEPT ![t] = a]
    /\ rc' = Retained(a)
    /\ UNCHANGED <<heap, memVars, relVars, gcVars, traps>>

\* DROP and every handler that consumes an operand with releaseBox
Drop(s) ==
    /\ Ready
    /\ root[s] # NoRef
    /\ todo' = BoxRelease(root[s])
    /\ root' = [root EXCEPT ![s] = NoRef]
    /\ UNCHANGED <<heap, rc, memVars, work, store, gcVars, traps>>

\* Pop, Release, unbox: release without the test for null
HostRelease(s) ==
    /\ Ready
    /\ root[s] # NoRef
    /\ todo' = RawRelease(root[s])
    /\ root' = [root EXCEPT ![s] = NoRef]
    /\ UNCHANGED <<heap, rc, memVars, work, store, gcVars, traps>>

\* LOCAL_SET, GLOBAL_SET, UPVAL_SET: the operand moves into the slot; storing
\* the reference the slot already holds releases nothing.
SetSlot(s, v) ==
    /\ Ready
    /\ s # v /\ root[v] # NoRef
    /\ todo' = IF root[s] # root[v] THEN BoxRelease(root[s]) ELSE <<>>
    /\ root' = [root EXCEPT ![s] = root[v], ![v] = NoRef]
    /\ UNCHANGED <<heap, rc, memVars, work, store, gcVars, traps>>

\* LOCAL_TEE, GLOBAL_TEE: the operand stays
TeeSlot(s, v) ==
    /\ Ready
    /\ root[v] # NoRef /\ root[s] # root[v] /\ RetainRoom(root[v])
    /\ rc' = Retained(root[v])
    /\ todo' = BoxRelease(root[s])
    /\ root' = [root EXCEPT ![s] = root[v]]
    /\ UNCHANGED <<heap, memVars, work, store, gcVars, traps>>

\* SetGlobal, SetLocal: a no-op when the slot already holds the value
HostSet(s, v) ==
    /\ Ready
    /\ root[v] # NoRef /\ root[s] # root[v]
    /\ todo' = RawRelease(root[s])
    /\ root' = [root EXCEPT ![s] = root[v], ![v] = NoRef]
    /\ UNCHANGED <<heap, rc, memVars, work, store, gcVars, traps>>

\* Slip: the element leaves its container without a count of its own.
GetFieldBorrow(s, f) ==
    /\ Ready
    /\ root[s] \notin {0, NoRef} /\ f <= Len(heap[root[s]])
    /\ root' = [root EXCEPT ![s] = heap[root[s]][f]]
    /\ todo' = RawRelease(root[s])
    /\ UNCHANGED <<heap, rc, memVars, work, store, gcVars, traps>>

\* Slip: the container is not released.
GetFieldKeep(s, f) ==
    /\ Ready
    /\ root[s] \notin {0, NoRef} /\ f <= Len(heap[root[s]])
    /\ LET elem == heap[root[s]][f]
       IN  /\ RetainRoom(elem)
           /\ rc' = Retained(elem)
           /\ root' = [root EXCEPT ![s] = elem]
    /\ UNCHANGED <<heap, memVars, relVars, gcVars, traps>>

\* ARRAY_GET, STRUCT_GET, ERROR_GET: retain the element, then release the container
GetField(s, f) ==
    /\ Ready
    /\ root[s] \notin {0, NoRef} /\ f <= Len(heap[root[s]])
    /\ LET elem == heap[root[s]][f]
       IN  /\ RetainRoom(elem)
           /\ rc' = Retained(elem)
           /\ root' = [root EXCEPT ![s] = elem]
    /\ todo' = RawRelease(root[s])
    /\ UNCHANGED <<heap, memVars, work, store, gcVars, traps>>

\* ARRAY_SET: write, release the old element, release the container
ArraySet(s, f, v) ==
    /\ Ready
    /\ s # v /\ root[v] # NoRef
    /\ root[s] \notin {0, NoRef} /\ f <= Len(heap[root[s]])
    /\ heap' = [heap EXCEPT ![root[s]][f] = root[v]]
    /\ todo' = BoxRelease(heap[root[s]][f]) \o RawRelease(root[s])
    /\ root' = [root EXCEPT ![s] = NoRef, ![v] = NoRef]
    /\ UNCHANGED <<rc, memVars, work, store, gcVars, traps>>

\* STRUCT_SET: release the old value while the field still names it, then write,
\* then release the container
StructSet(s, f, v) ==
    /\ Ready
    /\ s # v /\ root[v] # NoRef
    /\ root[s] \notin {0, NoRef} /\ f <= Len(heap[root[s]])
    /\ store' = [addr |-> root[s], field |-> f, val |-> root[v]]
    /\ todo' = BoxRelease(heap[root[s]][f])
    /\ root' = [root EXCEPT ![s] = NoRef, ![v] = NoRef]
    /\ UNCHANGED <<heap, rc, memVars, work, gcVars, traps>>

StructWrite ==
    /\ store # NoStore /\ todo = <<>> /\ work = <<>>
    /\ heap' = [heap EXCEPT ![store.addr][store.field] = store.val]
    /\ todo' = RawRelease(store.addr)
    /\ store' = NoStore
    /\ UNCHANGED <<root, rc, memVars, work, gcVars, traps>>

\* Store: a value built from the references in operands replaces the object a
\* handle names; dispose releases what the old value referred to.
Taken(ops) == [k \in 1 .. Len(ops) |-> root[ops[k]]]
Operands == {ops \in UNION {[1 .. n -> Operand] : n \in 0 .. Width} :
                /\ \A j, k \in DOMAIN ops : j # k => ops[j] # ops[k]
                /\ \A k \in DOMAIN ops : root[ops[k]] # NoRef}

Store(s, ops) ==
    /\ Ready
    /\ root[s] >= Base
    /\ \A k \in DOMAIN ops : ops[k] # s
    /\ heap' = [heap EXCEPT ![root[s]] = Taken(ops)]
    /\ todo' = heap[root[s]]
    /\ root' = [t \in Slot |-> IF \E k \in DOMAIN ops : ops[k] = t THEN NoRef ELSE root[t]]
    /\ UNCHANGED <<rc, memVars, work, store, gcVars, traps>>

-----------------------------------------------------------------------------
(***************************************************************************)
(* Allocation.                                                             *)
(***************************************************************************)
\* alloc is called with obj; its address will go into dst
Alloc(obj, ops, dst) ==
    /\ pend' = [obj |-> obj, ops |-> ops, dst |-> {dst}]
    /\ collected' = (target > 0 /\ Occupied >= target)
    /\ phase' = IF target > 0 /\ Occupied >= target THEN "scan" ELSE "place"
    /\ UNCHANGED <<heap, memVars, relVars, trial, grey>>

\* STRUCT_NEW, ARRAY_NEW, CLOSURE_NEW, MAP_NEW, ERROR_NEW, REF_NEW, strings and
\* boxed 64-bit integers, Alloc and Push: the operands move into the object
New(t, ops) ==
    /\ Ready
    /\ root[t] = NoRef \/ \E k \in DOMAIN ops : ops[k] = t
    /\ root' = [u \in Slot |-> IF \E k \in DOMAIN ops : ops[k] = u THEN NoRef ELSE root[u]]
    /\ Alloc(Taken(ops), ops, t)
    /\ UNCHANGED <<rc, traps>>

\* Slip: the nulls of a fresh array are not counted.
NewDefaultUncounted(t) ==
    /\ Ready
    /\ root[t] = NoRef /\ NullRoom(Width)
    /\ Alloc([k \in 1 .. Width |-> 0], <<>>, t)
    /\ UNCHANGED <<root, rc, traps>>

\* ARRAY_NEW_DEFAULT: one counted null per element
NewDefault(t) ==
    /\ Ready
    /\ root[t] = NoRef /\ NullRoom(Width)
    /\ rc' = [rc EXCEPT ![0] = @ + Width]
    /\ Alloc([k \in 1 .. Width |-> 0], <<>>, t)
    /\ UNCHANGED <<root, traps>>

\* A trap or host error that a handler catches: wrap allocates an Error whose
\* value is BoxedNull, which Refs reports and nobody has counted.
CatchTrap(t) ==
    /\ Ready
    /\ traps < MaxTraps
    /\ root[t] = NoRef
    /\ Alloc(<<0>>, <<>>, t)
    /\ traps' = traps + 1
    /\ UNCHANGED <<root, rc>>

\* The slot an allocation ends in: the object is written with count 1.
Placed(a) ==
    /\ heap' = [heap EXCEPT ![a] = pend.obj]
    /\ rc' = [rc EXCEPT ![a] = 1]
    /\ root' = [s \in Slot |-> IF s \in pend.dst THEN a ELSE root[s]]
    /\ pend' = NoPend /\ collected' = FALSE
    /\ phase' = "run"

\* Slip: the address handed out stays on the free list.
PlaceReuseKeep ==
    /\ phase = "place"
    /\ free # <<>>
    /\ Placed(Last(free))
    /\ UNCHANGED <<free, top, cap, target, relVars, trial, grey, traps>>

PlaceReuse ==
    /\ phase = "place"
    /\ free # <<>>
    /\ Placed(Last(free))
    /\ free' = Front(free)
    /\ UNCHANGED <<top, cap, target, relVars, trial, grey, traps>>

Full == top = cap
Limited == top >= Limit

PlaceCollect ==
    /\ phase = "place"
    /\ free = <<>> /\ ~collected /\ (Full \/ Limited)
    /\ collected' = TRUE
    /\ phase' = "scan"
    /\ UNCHANGED <<root, heap, rc, memVars, relVars, pend, trial, grey, traps>>

\* panic(ErrHeapExhausted).  The stack pointer has been lowered past none, all but
\* the first, or all of the operands; what lies above it is nobody's any more.
PlaceExhausted ==
    /\ phase = "place"
    /\ free = <<>> /\ Limited /\ collected
    /\ \E n \in {0, 1, Len(pend.ops)} :
          root' = [s \in Slot |->
                      IF \E k \in DOMAIN pend.ops : k <= n /\ pend.ops[k] = s
                        THEN pend.obj[CHOOSE k \in DOMAIN pend.ops : pend.ops[k] = s]
                        ELSE root[s]]
    /\ pend' = NoPend /\ collected' = FALSE
    /\ phase' = "exhausted"
    /\ UNCHANGED <<heap, rc, memVars, relVars, trial, grey, traps>>

PlaceAppend ==
    /\ phase = "place"
    /\ free = <<>> /\ ~Limited /\ (Full => collected)
    /\ Placed(top)
    /\ top' = top + 1
    /\ cap' = IF Full THEN 2 * cap ELSE cap
    /\ UNCHANGED <<free, target, relVars, trial, grey, traps>>

\* Run returns the error, or a public host call does; the next call may follow.
Recover ==
    /\ phase = "exhausted"
    /\ phase' = "run"
    /\ UNCHANGED <<root, heap, rc, memVars, relVars, pend, collected, trial, grey, traps>>

-----------------------------------------------------------------------------
(***************************************************************************)
(* release.                                                                *)
(***************************************************************************)
\* A call: the fast path, or the worklist starts with this address.
ReleaseCall ==
    /\ todo # <<>> /\ work = <<>>
    /\ IF rc[Head(todo)] > 1
         THEN /\ rc' = [rc EXCEPT ![Head(todo)] = @ - 1]
              /\ UNCHANGED work
         ELSE /\ work' = <<Head(todo)>>
              /\ UNCHANGED rc
    /\ todo' = Tail(todo)
    /\ UNCHANGED <<root, heap, memVars, store, gcVars, traps>>

\* One turn of the loop; an object that loses its last reference is reclaimed
\* and hands its own references to the worklist.
ReleaseStep ==
    /\ work # <<>>
    /\ LET a == Last(work)
       IN  /\ rc' = [rc EXCEPT ![a] = @ - 1]
           /\ IF rc[a] = 1
                THEN /\ work' = Front(work) \o heap[a]
                     /\ heap' = [heap EXCEPT ![a] = Nil]
                     /\ free' = Append(free, a)
                ELSE /\ work' = Front(work)
                     /\ UNCHANGED <<heap, free>>
    /\ UNCHANGED <<root, top, cap, target, todo, store, gcVars, traps>>

-----------------------------------------------------------------------------
(***************************************************************************)
(* The collector.                                                          *)
(***************************************************************************)
Counted == {a \in 1 .. top - 1 : rc[a] > 0}
InDegree(a) == Cardinality({e \in Edges : e[1] \in Counted /\ heap[e[1]][e[2]] = a})

\* Slip: heap edges are not subtracted, so a cycle counts as its own owner.
ScanUncounted ==
    /\ phase = "scan"
    /\ trial' = rc
    /\ phase' = "mark"
    /\ grey' = {}
    /\ UNCHANGED <<root, heap, rc, memVars, relVars, pend, collected, traps>>

\* Slip: an object owned only by the heap is taken for a fault.
ScanStrict ==
    /\ phase = "scan"
    /\ trial' = [a \in Addr |-> IF a \in Counted THEN rc[a] - InDegree(a) ELSE rc[a]]
    /\ phase' = IF \/ \E e \in Edges : /\ e[1] \in Counted
                                       /\ heap[e[1]][e[2]] \notin Counted \cup {0}
                   \/ \E a \in Counted : rc[a] <= InDegree(a)
                  THEN "segfault" ELSE "mark"
    /\ grey' = {}
    /\ UNCHANGED <<root, heap, rc, memVars, relVars, pend, collected, traps>>

\* scan: counts minus heap edges; a dead child or a negative rest is a fault
Scan ==
    /\ phase = "scan"
    /\ trial' = [a \in Addr |-> IF a \in Counted THEN rc[a] - InDegree(a) ELSE rc[a]]
    /\ phase' = IF \/ \E e \in Edges : /\ e[1] \in Counted
                                       /\ heap[e[1]][e[2]] \notin Counted \cup {0}
                   \/ \E a \in Counted : rc[a] < InDegree(a)
                  THEN "segfault" ELSE "mark"
    /\ grey' = {}
    /\ UNCHANGED <<root, heap, rc, memVars, relVars, pend, collected, traps>>

\* mark, first loop: everything with an owner outside the heap
Flip(S) == [a \in Addr |-> IF a \in S THEN - trial[a] - 1 ELSE trial[a]]

MarkRoots ==
    /\ phase = "mark" /\ grey = {}
    /\ \E a \in Counted : trial[a] > 0
    /\ grey' = {a \in Counted : trial[a] > 0}
    /\ trial' = Flip(grey')
    /\ UNCHANGED <<root, heap, rc, memVars, relVars, pend, collected, phase, traps>>

\* Slip: children that are marked already are pushed again.
MarkStepAgain ==
    /\ phase = "mark"
    /\ \E a \in grey :
          LET new == {heap[a][k] : k \in DOMAIN heap[a]} \cap Counted
          IN  /\ grey' = (grey \ {a}) \cup new
              /\ trial' = Flip({b \in new : trial[b] >= 0})
    /\ UNCHANGED <<root, heap, rc, memVars, relVars, pend, collected, phase, traps>>

\* mark, second loop: the unmarked children of one marked object
MarkStep ==
    /\ phase = "mark"
    /\ \E a \in grey :
          LET new == {heap[a][k] : k \in DOMAIN heap[a]} \cap {b \in Counted : trial[b] >= 0}
          IN  /\ grey' = (grey \ {a}) \cup new
              /\ trial' = Flip(new)
    /\ UNCHANGED <<root, heap, rc, memVars, relVars, pend, collected, phase, traps>>

MarkDone ==
    /\ phase = "mark" /\ grey = {}
    /\ \A a \in Counted : trial[a] <= 0
    /\ phase' = "sweep"
    /\ UNCHANGED <<root, heap, rc, memVars, relVars, pend, collected, trial, grey, traps>>

\* sweep, then pace: what is not marked is reclaimed in address order, its
\* edges to survivors are taken off their counts
Dead == {a \in Counted : trial[a] >= 0}
Ascending(S) == {s \in [1 .. Cardinality(S) -> S] : \A j, k \in DOMAIN s : j < k => s[j] < s[k]}

Sweep ==
    /\ phase = "sweep"
    /\ rc' = [a \in Addr |->
                 IF a \in Dead THEN 0
                 ELSE IF a \in Counted
                   THEN rc[a] - Cardinality({e \in EdgesTo(a) : e[1] \in Dead})
                   ELSE rc[a]]
    /\ heap' = [a \in Addr |-> IF a \in Dead THEN Nil ELSE heap[a]]
    /\ \E s \in Ascending(Dead) : free' = free \o s
    /\ target' = Pace(Occupied - Cardinality(Dead))
    /\ trial' = [a \in Addr |-> 0]
    /\ phase' = "place"
    /\ UNCHANGED <<root, top, cap, relVars, pend, collected, grey, traps>>

-----------------------------------------------------------------------------
\* Reset: dynamic slots vanish, counts are rebuilt, globals are seeded anew.
Reset ==
    /\ Ready /\ HostResets
    /\ root' = [s \in Slot |-> IF s \in Global THEN 0 ELSE NoRef]
    /\ heap' = [a \in Addr |-> IF a < Base THEN heap[a] ELSE Nil]
    /\ rc' = Recounted
    /\ top' = Base /\ free' = <<>>
    /\ target' = Pace(Base)
    /\ UNCHANGED <<cap, relVars, gcVars, traps>>

Release == ReleaseCall \/ ReleaseStep \/ StructWrite
Place == PlaceReuse \/ PlaceCollect \/ PlaceExhausted \/ PlaceAppend
Collect == Scan \/ MarkRoots \/ MarkStep \/ MarkDone \/ Sweep
Internal == Release \/ Place \/ Collect \/ Recover

Next ==
    \/ \E t \in Operand : RefNull(t) \/ NewDefault(t) \/ CatchTrap(t) \/ Drop(t) \/ HostRelease(t)
    \/ \E s \in Slot, t \in Operand : Dup(s, t) \/ SetSlot(s, t) \/ TeeSlot(s, t) \/ HostSet(s, t)
    \/ \E a \in Consts, t \in Operand : ConstGet(a, t)
    \/ \E s \in Operand, f \in 1 .. Width :
          \/ GetField(s, f)
          \/ \E v \in Operand : ArraySet(s, f, v) \/ StructSet(s, f, v)
    \/ \E t \in Operand, ops \in Operands : New(t, ops) \/ Store(t, ops)
    \/ Internal
    \/ Reset

Spec == Init /\ [][Next]_vars

-----------------------------------------------------------------------------
(***************************************************************************)
(* Properties.                                                             *)
(***************************************************************************)
\* Every reference anyone owns is covered by a count, so nothing in use is ever
\* reclaimed, reused or reported as a fault by the collector.
NoDangling ==
    \A a \in Addr \ {0} :
        /\ Owners(a) > 0 => a < top /\ Alive(a)
        /\ rc[a] >= Owners(a)
        /\ ~Alive(a) => rc[a] = 0

\* The free list holds exactly the reclaimed addresses, each once.
FreeExact ==
    /\ {free[k] : k \in DOMAIN free} = {a \in 0 .. top - 1 : ~Alive(a)}
    /\ Len(free) = Cardinality({a \in 0 .. top - 1 : ~Alive(a)})

\* The count of the null sentinel covers every null in a slot or a field and one
\* more, so that neither way of releasing a null can bring it to zero.
NullCovered == Alive(0) /\ rc[0] >= 1 + Owners(0)

\* "Heap index 0 is a permanent Null sentinel and is never reclaimed."
NullPermanent == Alive(0)

\* The collector's own consistency checks never fire.
CollectorNeverFaults == phase # "segfault"

\* Addresses that can be reached from S along heap edges: the ones in every set
\* that contains S and that no edge leaves.
Closed(C) == \A e \in Edges : e[1] \in C => heap[e[1]][e[2]] \in C
Closure(S) == {a \in Addr : \A C \in SUBSET Addr : S \subseteq C /\ Closed(C) => a \in C}

Owned == ({root[s] : s \in Slot} \cup Consts \cup {pend.obj[k] : k \in DOMAIN pend.obj})
            \ {0, NoRef}
Overcounted == {a \in Live \ {0} : rc[a] > Owners(a)}
Reachable == Closure(Owned \cup Overcounted)

\* The collector reclaims every cycle nobody outside it owns.
SweepReclaimsGarbage ==
    [][phase = "sweep" => \A a \in Live' \ {0} : a \in Reachable]_vars

\* ErrHeapExhausted is only raised when every address up to the limit holds an
\* object that something outside the heap reaches: garbage, cyclic or not, never
\* makes an allocation fail.
ExhaustedOnlyWhenFull ==
    [][phase = "place" /\ phase' = "exhausted" => Addr \subseteq Reachable \cup {0}]_vars

Surplus(a) == rc[a] - Owners(a)

\* "Every retained non-null ref must be released exactly once": a count is left without
\* an owner only by an allocation that fails, and by a store of the reference its slot
\* already holds.
LeaksOnlySelfStores ==
    [][\A a \in Addr \ {0} : Surplus(a)' > Surplus(a) =>
          \/ phase' = "exhausted"
          \/ \E s \in Slot, v \in Operand :
                root[s] = a /\ root'[s] = a /\ root[v] = a /\ root'[v] = NoRef]_vars

\* A bound on the steps an instruction in progress still takes: the references
\* its releases can reach, and the objects the collector has yet to mark.
StepsLeft ==
    LET unmarked == Cardinality({a \in Counted : trial[a] >= 0})
        releasing == Cardinality({e \in Live \X (1 .. Width) : e[2] \in DOMAIN heap[e[1]]})
                       + Len(pend.obj) + Len(work) + 2 * Len(todo) + (IF store = NoStore THEN 0 ELSE 3)
        collecting == CASE phase = "exhausted" -> 1
                        [] phase = "place" -> IF collected THEN 2 ELSE 2 * Limit + 5
                        [] phase = "sweep" -> 3
                        [] phase = "mark" -> 2 * unmarked + Cardinality(grey) + 4
                        [] phase = "scan" -> 2 * Limit + 4
                        [] OTHER -> 0
    IN releasing + collecting

\* release's worklist and the loops of mark end on every object graph, rings and
\* self-loops included: each step inside an instruction lowers a bound on those left.
WorkRunsDown == [][~Ready => StepsLeft' < StepsLeft]_vars
=============================================================================
