---------------------------- MODULE HeapGarbage -----------------------------
(***************************************************************************)
(* The collector is complete: what sweep leaves is reached from an owner   *)
(* outside the heap or from a count nobody owns, and an allocation fails   *)
(* only in a heap full of such objects.  And it ends, as release's         *)
(* worklist does: every step inside an instruction lowers a bound on the   *)
(* steps left.  Both for every number of slots, addresses and fields.      *)
(***************************************************************************)
EXTENDS HeapProofs

-----------------------------------------------------------------------------
(***************************************************************************)
(* The inductive invariant.  Reachable is not enough for what mark has     *)
(* visited: sweep takes the dead objects' edges away, so the path to a     *)
(* survivor has to run over visited objects only.                          *)
(***************************************************************************)
Marked == {a \in Counted : trial[a] < 0}
Starts == Owned \cup Overcounted

\* C holds every start, and with a visited object its children.
Followed(C) ==
    /\ Starts \subseteq C
    /\ \A e \in Edges : e[1] \in C /\ e[1] \in Marked => heap[e[1]][e[2]] \in C

MarkReach == phase \in {"mark", "sweep"} => \A C \in SUBSET Addr : Followed(C) => Marked \subseteq C
PlaceReach == phase = "place" /\ collected => Live \ {0} \subseteq Reachable

GarbageInv == HeapInv /\ MarkReach /\ PlaceReach

-----------------------------------------------------------------------------
(***************************************************************************)
(* Where marking starts.                                                   *)
(***************************************************************************)
LEMMA SourceCounted ==
    ASSUME ShapeInv, CoverInv, NEW e \in Edges
    PROVE  e[1] \in Counted
<1>1. e[1] \in Addr /\ e[1] \in Live /\ e[2] \in DOMAIN heap[e[1]]
      BY EdgeHeld
<1>2. e[1] # 0
  <2>1. SUFFICES ASSUME e[1] = 0 PROVE FALSE
        OBVIOUS
  <2>2. 0 \in 0 .. Base - 1
        BY AddrFacts
  <2>3. heap[0] = <<>>
        BY <2>2 DEF ShapeInv
  <2>4. QED
        BY <1>1, <2>1, <2>3
<1>3. rc[e[1]] > 0
      BY <1>1, <1>2 DEF CoverInv, Live
<1>4. e[1] \in 1 .. top - 1
      BY <1>1, <1>2, CountedAddr DEF Live
<1>5. QED
      BY <1>3, <1>4 DEF Counted

LEMMA InDegreeIs ==
    ASSUME ShapeInv, CoverInv, NEW a
    PROVE  InDegree(a) = Cardinality(EdgesTo(a))
<1>1. {e \in Edges : e[1] \in Counted /\ heap[e[1]][e[2]] = a} = EdgesTo(a)
      BY SourceCounted DEF EdgesTo
<1>2. QED
      BY <1>1 DEF InDegree

LEMMA CountedLive ==
    ASSUME ShapeInv, CoverInv
    PROVE  Counted = Live \ {0} /\ Counted \subseteq Addr
<1>1. /\ Counted \subseteq Addr \ {0} /\ top \in Nat /\ 0 .. top - 1 \subseteq Addr
      /\ \A a \in Counted : rc[a] > 0 /\ a < top
      BY CountedAddr
<1>2. ASSUME NEW a \in Counted PROVE a \in Live \ {0}
  <2>1. a \in Addr \ {0} /\ rc[a] > 0 /\ a \in 1 .. top - 1
        BY <1>1, <1>2 DEF Counted
  <2>2. Alive(a) /\ a \in 0 .. top - 1
        BY <1>1, <2>1 DEF CoverInv
  <2>3. QED
        BY <2>1, <2>2 DEF Live
<1>3. ASSUME NEW a \in Live \ {0} PROVE a \in Counted
  <2>1. a \in 0 .. top - 1 /\ Alive(a) /\ a # 0
        BY <1>3 DEF Live
  <2>2. a \in Addr \ {0} /\ a \in 1 .. top - 1
        BY <1>1, <2>1
  <2>3. rc[a] > 0
        BY <2>1, <2>2 DEF CoverInv
  <2>4. QED
        BY <2>2, <2>3 DEF Counted
<1>4. QED
      BY <1>1, <1>2, <1>3

\* An object that nobody outside the heap refers to is owned by its edges alone.
LEMMA UnownedTotal ==
    ASSUME ShapeInv, QuietInv, phase # "run", NEW a \in Addr \ {0}, a \notin Owned
    PROVE  Owners(a) = Cardinality(EdgesTo(a))
<1>1. todo = <<>> /\ work = <<>> /\ store = NoStore
      BY DEF QuietInv
<1>2. a # NoRef
      BY AddrFacts
<1>3. (\A s \in Slot : root[s] # a) /\ a \notin Consts /\ (\A k \in DOMAIN pend.obj : pend.obj[k] # a)
      BY <1>2 DEF Owned
<1>4. {s \in Slot : root[s] = a} = {} /\ {k \in DOMAIN pend.obj : pend.obj[k] = a} = {}
      BY <1>3
<1>5. {k \in DOMAIN todo : todo[k] = a} = {} /\ {k \in DOMAIN work : work[k] = a} = {}
      BY <1>1
<1>6. /\ Cardinality({s \in Slot : root[s] = a}) = 0 /\ Count(pend.obj, a) = 0
      /\ Count(todo, a) = 0 /\ Count(work, a) = 0
      BY <1>4, <1>5, FS_EmptySet DEF Count
<1>7. One(a \in Consts) = 0 /\ One(store.addr = a) = 0 /\ One(store.val = a) = 0
      BY <1>1, <1>2, <1>3 DEF One, NoStore
<1>8. Cardinality(EdgesTo(a)) \in Nat
      BY EdgeCount
<1>9. QED
      BY <1>6, <1>7, <1>8 DEF Owners

\* What has more counts than heap edges has an owner outside the heap, or a count
\* nobody owns.
LEMMA StartHeld ==
    ASSUME ShapeInv, CoverInv, QuietInv, phase # "run", NEW a \in Counted, rc[a] > InDegree(a)
    PROVE  a \in Starts
<1>1. a \in Addr \ {0} /\ a \in Live \ {0}
      BY CountedLive, CountedAddr
<1>2. CASE a \in Owned
      BY <1>2 DEF Starts
<1>3. CASE a \notin Owned
  <2>1. Owners(a) = Cardinality(EdgesTo(a)) /\ InDegree(a) = Cardinality(EdgesTo(a))
        BY <1>1, <1>3, UnownedTotal, InDegreeIs
  <2>2. a \in Overcounted
        BY <1>1, <2>1 DEF Overcounted
  <2>3. QED
        BY <2>2 DEF Starts
<1>4. QED
      BY <1>2, <1>3

-----------------------------------------------------------------------------
(***************************************************************************)
(* Marking.                                                                *)
(***************************************************************************)
LEMMA StartsFrame ==
    ASSUME UNCHANGED <<root, heap, rc, memVars, relVars, pend, traps>>
    PROVE  Starts' = Starts /\ Edges' = Edges /\ Counted' = Counted
<1>1. Edges' = Edges /\ Counted' = Counted
      BY CollectorFrame
<1>2. Owned' = Owned
      BY DEF Owned
<1>3. Live' = Live
      BY DEF Live, Alive, memVars
<1>4. \A a : Owners(a)' = Owners(a)
      BY <1>1 DEF Owners, EdgesTo, Count, relVars
<1>5. Overcounted' = Overcounted
      BY <1>3, <1>4 DEF Overcounted
<1>6. QED
      BY <1>1, <1>2, <1>5 DEF Starts

\* Marking more objects, each of them a start or a child of a visited one.
LEMMA MarkMore ==
    ASSUME HeapInv, MarkReach, phase = "mark", phase' \in {"mark", "sweep"},
           UNCHANGED <<root, heap, rc, memVars, relVars, pend, traps>>,
           NEW S, S \subseteq {b \in Counted : trial[b] >= 0}, trial' = Flip(S),
           \A x \in S : \/ x \in Starts
                        \/ \E e \in Edges : e[1] \in Marked /\ heap[e[1]][e[2]] = x
    PROVE  MarkReach'
<1>1. Starts' = Starts /\ Edges' = Edges /\ Counted' = Counted /\ heap' = heap
      BY StartsFrame
<1>2. S \subseteq Addr /\ (\A b \in S : trial[b] >= 0) /\ trial \in [Addr -> Int] /\ Counted \subseteq Addr
      BY CountedAddr DEF HeapInv, ShapeInv, TypeOK
<1>3. (\A b \in S : trial'[b] < 0) /\ \A b \in Addr \ S : trial'[b] = trial[b]
      BY <1>2, FlipFacts
<1>4. Marked' = Marked \cup S
  <2>1. \A b \in Counted : trial'[b] < 0 <=> b \in S \/ trial[b] < 0
    <3>1. TAKE b \in Counted
    <3>2. CASE b \in S
          BY <1>3, <3>2
    <3>3. CASE b \notin S
          BY <1>2, <1>3, <3>3
    <3>4. QED
          BY <3>2, <3>3
  <2>2. QED
        BY <1>1, <2>1 DEF Marked
<1>5. SUFFICES ASSUME NEW C \in SUBSET Addr, Followed(C)'
               PROVE  Marked' \subseteq C
      BY DEF MarkReach
<1>6. Starts \subseteq C /\ \A e \in Edges : e[1] \in C /\ e[1] \in Marked' => heap[e[1]][e[2]] \in C
      BY <1>1, <1>5 DEF Followed
<1>7. Followed(C)
      BY <1>4, <1>6 DEF Followed
<1>8. Marked \subseteq C
      BY <1>7 DEF MarkReach
<1>9. S \subseteq C
      BY <1>4, <1>6, <1>8
<1>10. QED
      BY <1>4, <1>8, <1>9

LEMMA ScanReach ==
    ASSUME HeapInv, Scan
    PROVE  MarkReach'
<1> SUFFICES ASSUME phase' \in {"mark", "sweep"} PROVE Marked' = {}
    BY DEF MarkReach
<1>1. /\ trial' = [a \in Addr |-> IF a \in Counted THEN rc[a] - InDegree(a) ELSE rc[a]]
      /\ UNCHANGED <<root, heap, rc, memVars, relVars, pend, traps>>
      BY DEF Scan
<1>2. Counted' = Counted
      BY <1>1, StartsFrame
<1>3. ASSUME NEW a \in Counted PROVE ~(trial'[a] < 0)
  <2>1. a \in Addr \ {0}
        BY CountedAddr DEF HeapInv
  <2>2. trial'[a] = rc[a] - InDegree(a)
        BY <1>1, <2>1
  <2>3. InDegree(a) \in Nat /\ rc[a] \in Nat /\ InDegree(a) <= rc[a]
    <3>1. /\ InDegree(a) \in Nat /\ Cardinality(EdgesTo(a)) \in Nat /\ Total(a) \in Nat /\ rc[a] \in Nat
          /\ InDegree(a) <= Cardinality(EdgesTo(a))
          /\ Cardinality(EdgesTo(a)) <= Total(a) /\ Total(a) <= rc[a]
          BY <2>1, InDegreeBound DEF HeapInv
    <3>2. QED
          BY <3>1
  <2>4. QED
        BY <2>2, <2>3
<1>4. QED
      BY <1>2, <1>3 DEF Marked

LEMMA MarkRootsReach ==
    ASSUME HeapInv, MarkReach, MarkRoots
    PROVE  MarkReach'
<1> DEFINE S == {a \in Counted : trial[a] > 0}
<1>1. /\ phase = "mark" /\ phase' = "mark" /\ trial' = Flip(S)
      /\ UNCHANGED <<root, heap, rc, memVars, relVars, pend, traps>>
      BY DEF MarkRoots
<1>2. \A a \in Counted : trial[a] \in Int /\ rc[a] \in Nat /\ a \in Addr \ {0}
      BY CountedAddr DEF HeapInv, ShapeInv, TypeOK
<1>3. S \subseteq {b \in Counted : trial[b] >= 0}
      BY <1>2
<1>4. ASSUME NEW x \in S PROVE x \in Starts
  <2>1. x \in Counted /\ trial[x] > 0 /\ trial[x] >= 0
        BY <1>3
  <2>2. trial[x] = rc[x] - InDegree(x)
        BY <1>1, <2>1 DEF HeapInv, TrialInv
  <2>3. InDegree(x) \in Nat /\ rc[x] \in Nat
        BY <1>2, <2>1, InDegreeBound DEF HeapInv
  <2>4. rc[x] > InDegree(x)
        BY <2>1, <2>2, <2>3
  <2>5. QED
        BY <1>1, <2>1, <2>4, StartHeld DEF HeapInv
<1> HIDE DEF S
<1>5. QED
      BY <1>1, <1>3, <1>4, MarkMore

LEMMA MarkStepReach ==
    ASSUME HeapInv, MarkReach, MarkStep
    PROVE  MarkReach'
<1>1. /\ phase = "mark" /\ phase' = "mark"
      /\ UNCHANGED <<root, heap, rc, memVars, relVars, pend, traps>>
      BY DEF MarkStep
<1>2. PICK a \in grey :
          trial' = Flip({heap[a][k] : k \in DOMAIN heap[a]} \cap {b \in Counted : trial[b] >= 0})
      BY DEF MarkStep
<1> DEFINE S == {heap[a][k] : k \in DOMAIN heap[a]} \cap {b \in Counted : trial[b] >= 0}
<1>3. S \subseteq {b \in Counted : trial[b] >= 0} /\ trial' = Flip(S)
      BY <1>2
<1>4. ASSUME NEW x \in S PROVE \E e \in Edges : e[1] \in Marked /\ heap[e[1]][e[2]] = x
  <2>1. PICK k \in DOMAIN heap[a] : heap[a][k] = x
        OBVIOUS
  <2>2. a \in Counted /\ trial[a] < 0
        BY <1>1 DEF HeapInv, TrialInv
  <2>3. a \in Live /\ a \in Addr
        BY <2>2, CountedLive DEF HeapInv
  <2>4. heap[a] \in Object \cup {Nil} /\ heap[a] # Nil
        BY <2>3 DEF HeapInv, ShapeInv, TypeOK, Live, Alive
  <2>5. k \in 1 .. Width /\ k <= Len(heap[a])
        BY <2>1, <2>4, ObjectSeq
  <2>6. store.addr # a
    <3>1. store = NoStore
          BY <1>1 DEF HeapInv, QuietInv
    <3>2. QED
          BY <2>3, <3>1, AddrFacts DEF NoStore
  <2>7. <<a, k>> \in Live \X (1 .. Width) /\ <<a, k>>[1] = a /\ <<a, k>>[2] = k
        BY <2>3, <2>5
  <2>8. <<a, k>> \in Edges
        BY <2>5, <2>6, <2>7 DEF Edges
  <2>9. a \in Marked
        BY <2>2 DEF Marked
  <2>10. QED
        BY <2>1, <2>7, <2>8, <2>9
<1> HIDE DEF S
<1>5. QED
      BY <1>1, <1>3, <1>4, MarkMore

LEMMA MarkDoneReach ==
    ASSUME HeapInv, MarkReach, MarkDone
    PROVE  MarkReach'
<1>1. /\ phase = "mark" /\ phase' = "sweep" /\ trial' = trial /\ heap' = heap
      /\ UNCHANGED <<root, heap, rc, memVars, relVars, pend, traps>>
      BY DEF MarkDone
<1>2. Starts' = Starts /\ Edges' = Edges /\ Counted' = Counted
      BY <1>1, StartsFrame
<1>3. Marked' = Marked
      BY <1>1, <1>2 DEF Marked
<1>4. \A C : Followed(C)' <=> Followed(C)
      BY <1>1, <1>2, <1>3 DEF Followed
<1>5. QED
      BY <1>1, <1>3, <1>4 DEF MarkReach

-----------------------------------------------------------------------------
(***************************************************************************)
(* Sweeping.                                                               *)
(***************************************************************************)
\* What sweep leaves has been visited.
LEMMA SurvivorsMarked ==
    ASSUME HeapInv, Sweep
    PROVE  Live' \ {0} = Marked /\ Marked \subseteq Addr \ {0}
<1>1. /\ heap' = [x \in Addr |-> IF x \in Dead THEN Nil ELSE heap[x]] /\ top' = top
      BY DEF Sweep
<1>2. Counted = Live \ {0} /\ Counted \subseteq Addr \ {0} /\ 0 .. top - 1 \subseteq Addr
      BY CountedLive, CountedAddr DEF HeapInv
<1>3. \A x \in Counted : trial[x] \in Int
      BY <1>2 DEF HeapInv, ShapeInv, TypeOK
<1>4. \A x \in Counted : x \notin Dead <=> x \in Marked
      BY <1>3 DEF Dead, Marked
<1>5. \A x \in Addr : Alive(x)' <=> Alive(x) /\ x \notin Dead
      BY <1>1 DEF Alive
<1>6. Live' = {x \in Live : x \notin Dead}
      BY <1>1, <1>2, <1>5 DEF Live
<1>7. QED
      BY <1>2, <1>4, <1>6 DEF Marked

LEMMA MarkedReachable ==
    ASSUME HeapInv, MarkReach, phase = "sweep"
    PROVE  Marked \subseteq Reachable
<1>1. Marked \subseteq Addr
      BY CountedAddr DEF HeapInv, Marked
<1>2. ASSUME NEW C \in SUBSET Addr, Owned \cup Overcounted \subseteq C, Closed(C)
      PROVE  Marked \subseteq C
  <2>1. Followed(C)
        BY <1>2 DEF Followed, Starts, Closed
  <2>2. QED
        BY <2>1 DEF MarkReach
<1>3. QED
      BY <1>1, <1>2 DEF Reachable, Closure

\* A count nobody owns is still there after the sweep.
LEMMA StartsSwept ==
    ASSUME HeapInv, HeapInv', Sweep
    PROVE  Starts \subseteq Starts'
<1>1. Owned' = Owned
      BY DEF Sweep, Owned
<1>2. ASSUME NEW a \in Overcounted PROVE a \in Overcounted'
  <2>1. a \in Live \ {0} /\ rc[a] > Owners(a)
        BY DEF Overcounted
  <2>2. a \in Addr \ {0} /\ a \in Counted
        BY <2>1, CountedLive, CountedAddr DEF HeapInv
  <2>3. Owners(a) = Total(a)
        BY <2>2, OwnersTotal DEF HeapInv
  <2>4. Owners(a)' = Total(a)' /\ Owners(a)' \in Nat
        BY <2>2, OwnersTotalNext DEF HeapInv
  <2>5. Total(a)' + rc[a] = Total(a) + rc'[a]
        BY <2>2, SweepStep DEF Exact
  <2>6. rc[a] \in Nat /\ rc'[a] \in Nat /\ Owners(a) \in Nat
    <3>1. rc \in [Addr -> Nat] /\ Owners(a) \in Nat
          BY <2>2, OwnersTotal DEF HeapInv, ShapeInv, TypeOK
    <3>2. rc' \in [Addr -> Nat]
          BY DEF HeapInv, ShapeInv, TypeOK
    <3>3. QED
          BY <2>2, <3>1, <3>2
  <2>7. rc'[a] > Owners(a)'
        BY <2>1, <2>3, <2>4, <2>5, <2>6
  <2>8. a \notin Dead
    <3>1. SUFFICES ASSUME a \in Dead PROVE FALSE
          OBVIOUS
    <3>2. rc[a] = Owners(a)
          BY <2>3, <3>1, DeadFacts DEF Sweep
    <3>3. QED
          BY <2>1, <2>6, <3>2
  <2>9. a \in Marked
    <3>1. trial[a] \in Int
          BY <2>2 DEF HeapInv, ShapeInv, TypeOK
    <3>2. QED
          BY <2>2, <2>8, <3>1 DEF Marked, Dead
  <2>10. a \in Live' \ {0}
        BY <2>9, SurvivorsMarked
  <2>11. QED
        BY <2>7, <2>10 DEF Overcounted
<1>3. QED
      BY <1>1, <1>2 DEF Starts

LEMMA SweepReach ==
    ASSUME HeapInv, HeapInv', MarkReach, Sweep
    PROVE  Live' \ {0} \subseteq Reachable /\ Live' \ {0} \subseteq Reachable'
<1>1. phase = "sweep" /\ store' = store /\ heap' = [x \in Addr |-> IF x \in Dead THEN Nil ELSE heap[x]]
      BY DEF Sweep, relVars
<1>2. Live' \ {0} = Marked /\ Marked \subseteq Addr \ {0}
      BY SurvivorsMarked
<1>3. Marked \subseteq Reachable
      BY <1>1, MarkedReachable
<1>4. ASSUME NEW e \in Edges, e[1] \in Marked
      PROVE  e \in Edges' /\ heap'[e[1]] = heap[e[1]]
  <2>1. e[1] \notin Dead /\ e[1] \in Addr
    <3>1. e[1] \in Counted /\ trial[e[1]] < 0 /\ e[1] \in Addr
          BY <1>2, <1>4 DEF Marked
    <3>2. trial[e[1]] \in Int
          BY <3>1 DEF HeapInv, ShapeInv, TypeOK
    <3>3. QED
          BY <3>1, <3>2 DEF Dead
  <2>2. heap'[e[1]] = heap[e[1]]
        BY <1>1, <2>1
  <2>3. e \in Live \X (1 .. Width) /\ e[2] <= Len(heap[e[1]]) /\ ~(e[1] = store.addr /\ e[2] = store.field)
        BY DEF Edges
  <2>4. e \in Live' \X (1 .. Width)
        BY <1>2, <1>4, <2>3
  <2>5. QED
        BY <1>1, <2>2, <2>3, <2>4 DEF Edges
<1>5. ASSUME NEW C \in SUBSET Addr, (Owned \cup Overcounted)' \subseteq C, Closed(C)'
      PROVE  Marked \subseteq C
  <2>1. Starts \subseteq C
        BY <1>5, StartsSwept DEF Starts
  <2>2. ASSUME NEW e \in Edges, e[1] \in C, e[1] \in Marked
        PROVE  heap[e[1]][e[2]] \in C
    <3>1. e \in Edges' /\ heap'[e[1]] = heap[e[1]]
          BY <1>4, <2>2
    <3>2. heap'[e[1]][e[2]] \in C
          BY <1>5, <2>2, <3>1 DEF Closed
    <3>3. QED
          BY <3>1, <3>2
  <2>3. Followed(C)
        BY <2>1, <2>2 DEF Followed
  <2>4. QED
        BY <1>1, <2>3 DEF MarkReach
<1>6. Marked \subseteq Reachable'
      BY <1>2, <1>5 DEF Reachable, Closure
<1>7. QED
      BY <1>2, <1>3, <1>6

-----------------------------------------------------------------------------
(***************************************************************************)
(* Every step.                                                             *)
(***************************************************************************)
\* An instruction ends running, or allocating: in the collector if it is due.
LEMMA InstructionPhase ==
    ASSUME Next, ~Internal
    PROVE  phase = "run" /\ (phase' = "run" \/ (phase' = "scan" /\ collected') \/ (phase' = "place" /\ ~collected'))
<1>1. ASSUME Ready, UNCHANGED gcVars
      PROVE  phase = "run" /\ phase' = "run"
      BY <1>1 DEF Ready, gcVars
<1>2. ASSUME Ready, NEW obj, NEW ops, NEW dst, Alloc(obj, ops, dst)
      PROVE  phase = "run" /\ ((phase' = "scan" /\ collected') \/ (phase' = "place" /\ ~collected'))
      BY <1>2 DEF Ready, Alloc
<1>3. ASSUME NEW t \in Operand, RefNull(t) \/ NewDefault(t) \/ CatchTrap(t) \/ Drop(t) \/ HostRelease(t)
      PROVE  phase = "run" /\ (phase' = "run" \/ (phase' = "scan" /\ collected') \/ (phase' = "place" /\ ~collected'))
      BY <1>1, <1>2, <1>3 DEF RefNull, NewDefault, CatchTrap, Drop, HostRelease
<1>4. ASSUME NEW s \in Slot, NEW t \in Operand, Dup(s, t) \/ SetSlot(s, t) \/ TeeSlot(s, t) \/ HostSet(s, t)
      PROVE  phase = "run" /\ phase' = "run"
      BY <1>1, <1>4 DEF Dup, SetSlot, TeeSlot, HostSet
<1>5. ASSUME NEW a \in Consts, NEW t \in Operand, ConstGet(a, t)
      PROVE  phase = "run" /\ phase' = "run"
      BY <1>1, <1>5 DEF ConstGet
<1>6. ASSUME NEW s \in Operand, NEW f \in 1 .. Width,
             GetField(s, f) \/ \E v \in Operand : ArraySet(s, f, v) \/ StructSet(s, f, v)
      PROVE  phase = "run" /\ phase' = "run"
      BY <1>1, <1>6 DEF GetField, ArraySet, StructSet
<1>7. ASSUME NEW t \in Operand, NEW ops \in Operands, New(t, ops) \/ Store(t, ops)
      PROVE  phase = "run" /\ (phase' = "run" \/ (phase' = "scan" /\ collected') \/ (phase' = "place" /\ ~collected'))
      BY <1>1, <1>2, <1>7 DEF New, Store
<1>8. ASSUME Reset
      PROVE  phase = "run" /\ phase' = "run"
      BY <1>1, <1>8 DEF Reset
<1>9. QED
      BY <1>3, <1>4, <1>5, <1>6, <1>7, <1>8 DEF Next

\* Which steps lead into the phases the invariant speaks of.
LEMMA InternalPhase ==
    ASSUME HeapInv, Internal
    PROVE  \/ Scan \/ MarkRoots \/ MarkStep \/ MarkDone \/ Sweep \/ PlaceExhausted
           \/ phase # "sweep" /\ phase' \in {"run", "scan"}
<1>1. CASE Release
  <2>1. phase = "run"
        BY <1>1 DEF Release, ReleaseCall, ReleaseStep, StructWrite, HeapInv, QuietInv
  <2>2. phase' = phase
        BY <1>1 DEF Release, ReleaseCall, ReleaseStep, StructWrite, gcVars
  <2>3. QED
        BY <2>1, <2>2
<1>2. CASE Place
      BY <1>2 DEF Place, PlaceReuse, PlaceCollect, PlaceAppend, Placed
<1>3. CASE Collect
      BY <1>3 DEF Collect
<1>4. CASE Recover
      BY <1>4 DEF Recover
<1>5. QED
      BY <1>1, <1>2, <1>3, <1>4 DEF Internal

LEMMA GarbageStep ==
    ASSUME GarbageInv, HeapInv', Next
    PROVE  MarkReach' /\ PlaceReach'
<1> USE DEF GarbageInv
<1>1. ASSUME phase' \notin {"mark", "sweep"}, phase' # "place" \/ ~collected'
      PROVE  MarkReach' /\ PlaceReach'
      BY <1>1 DEF MarkReach, PlaceReach
<1>2. ASSUME phase' # "place" PROVE PlaceReach'
      BY <1>2 DEF PlaceReach
<1>3. CASE ~Internal
      BY <1>1, <1>3, InstructionPhase
<1>4. CASE Scan
  <2>1. phase' # "place"
        BY <1>4 DEF Scan
  <2>2. QED
        BY <1>2, <1>4, <2>1, ScanReach
<1>5. CASE MarkRoots \/ MarkStep \/ MarkDone
  <2>1. phase' # "place"
        BY <1>5 DEF MarkRoots, MarkStep, MarkDone
  <2>2. QED
        BY <1>2, <1>5, <2>1, MarkRootsReach, MarkStepReach, MarkDoneReach
<1>6. CASE Sweep
  <2>1. phase' = "place"
        BY <1>6 DEF Sweep
  <2>2. MarkReach'
        BY <2>1 DEF MarkReach
  <2>3. PlaceReach'
        BY <1>6, SweepReach DEF PlaceReach
  <2>4. QED
        BY <2>2, <2>3
<1>7. CASE PlaceExhausted
      BY <1>1, <1>7 DEF PlaceExhausted
<1>8. CASE Internal
      BY <1>1, <1>4, <1>5, <1>6, <1>7, <1>8, InternalPhase
<1>9. QED
      BY <1>3, <1>8

LEMMA GarbageStutter ==
    ASSUME GarbageInv, UNCHANGED vars
    PROVE  MarkReach' /\ PlaceReach'
<1>1. /\ UNCHANGED <<root, heap, rc, memVars, relVars, pend, traps>>
      /\ UNCHANGED <<heap, trial, phase, collected, top>>
      BY DEF vars, memVars, relVars
<1>2. Starts' = Starts /\ Edges' = Edges /\ Counted' = Counted
      BY <1>1, StartsFrame
<1>3. Marked' = Marked /\ Live' = Live
      BY <1>1, <1>2 DEF Marked, Live, Alive
<1>4. \A C : (Followed(C)' <=> Followed(C)) /\ (Closed(C)' <=> Closed(C))
      BY <1>1, <1>2, <1>3 DEF Followed, Closed
<1>5. MarkReach'
      BY <1>1, <1>3, <1>4 DEF MarkReach, GarbageInv
<1>6. Reachable' = Reachable
      BY <1>2, <1>4 DEF Reachable, Closure, Starts
<1>7. PlaceReach'
      BY <1>1, <1>3, <1>6 DEF PlaceReach, GarbageInv
<1>8. QED
      BY <1>5, <1>7

LEMMA GarbageInvariant == Spec /\ []NullPermanent => []GarbageInv
<1>1. Init => GarbageInv
  <2> SUFFICES ASSUME Init PROVE GarbageInv
      OBVIOUS
  <2>1. phase = "run"
        BY DEF Init
  <2>2. QED
        BY <2>1, InitInv DEF GarbageInv, MarkReach, PlaceReach
<1>2. GarbageInv /\ [Next]_vars /\ NullPermanent' => GarbageInv'
  <2> SUFFICES ASSUME GarbageInv, [Next]_vars, NullPermanent' PROVE GarbageInv'
      OBVIOUS
  <2>1. HeapInv'
        BY HeapInvInductive DEF GarbageInv
  <2>2. MarkReach' /\ PlaceReach'
        BY <2>1, GarbageStep, GarbageStutter
  <2>3. QED
        BY <2>1, <2>2 DEF GarbageInv
<1>3. QED
      BY <1>1, <1>2, PTL DEF Spec

\* The collector leaves no garbage: after collect every object is reached from a slot, a
\* constant or the object being allocated, or from a count nobody owns any more; cycles
\* that nothing outside refers to are gone (scan, mark and sweep together).
THEOREM HeapSweepReclaimsGarbage == Spec /\ []NullPermanent => SweepReclaimsGarbage
<1>1. GarbageInv /\ GarbageInv' /\ [Next]_vars =>
         [phase = "sweep" => \A a \in Live' \ {0} : a \in Reachable]_vars
  <2> SUFFICES ASSUME GarbageInv, GarbageInv', Next, phase = "sweep"
               PROVE  \A a \in Live' \ {0} : a \in Reachable
      OBVIOUS
  <2>1. Internal
        BY InstructionPhase
  <2>2. Sweep
        BY <2>1, InternalPhase DEF GarbageInv, Scan, MarkRoots, MarkStep, MarkDone, PlaceExhausted
  <2>3. QED
        BY <2>2, SweepReach DEF GarbageInv
<1>2. QED
      BY <1>1, GarbageInvariant, PTL DEF Spec, SweepReclaimsGarbage

\* ErrHeapExhausted is raised only when every address up to the limit holds an object
\* that is reached: alloc never fails over garbage, cyclic or not.
THEOREM HeapExhaustedOnlyWhenFull == Spec /\ []NullPermanent => ExhaustedOnlyWhenFull
<1>1. GarbageInv /\ [Next]_vars =>
         [phase = "place" /\ phase' = "exhausted" => Addr \subseteq Reachable \cup {0}]_vars
  <2> SUFFICES ASSUME GarbageInv, Next, phase = "place", phase' = "exhausted"
               PROVE  Addr \subseteq Reachable \cup {0}
      OBVIOUS
  <2>1. Internal
        BY InstructionPhase
  <2>2. PlaceExhausted
        BY <2>1, InternalPhase DEF GarbageInv, Scan, MarkRoots, MarkStep, MarkDone, Sweep
  <2>3. free = <<>> /\ top >= Limit /\ collected
        BY <2>2 DEF PlaceExhausted, Limited
  <2>4. {a \in 0 .. top - 1 : ~Alive(a)} = {}
        BY <2>3 DEF GarbageInv, HeapInv, FreeInv
  <2>5. ASSUME NEW a \in Addr, a # 0 PROVE a \in Live \ {0}
    <3>1. a \in 0 .. top - 1
          BY <2>3, AddrFacts, CountedAddr DEF GarbageInv, HeapInv
    <3>2. QED
          BY <2>4, <2>5, <3>1 DEF Live
  <2>6. Live \ {0} \subseteq Reachable
        BY <2>3 DEF GarbageInv, PlaceReach
  <2>7. QED
        BY <2>5, <2>6
<1>2. QED
      BY <1>1, GarbageInvariant, PTL DEF Spec, ExhaustedOnlyWhenFull

-----------------------------------------------------------------------------
(***************************************************************************)
(* The bound on the steps left, as a sum of numbers that one action at a   *)
(* time changes: the fields of the objects on the heap (FieldsOf), the     *)
(* addresses still to be released, and what is left of the allocation.     *)
(***************************************************************************)
FieldsOf(h) == {e \in Addr \X (1 .. Width) : h[e[1]] # Nil /\ e[2] \in DOMAIN h[e[1]]}
Fields(h) == Cardinality(FieldsOf(h))
Size(o) == IF o = Nil THEN 0 ELSE Len(o)

LEMMA FieldsType ==
    ASSUME NEW h
    PROVE  Fields(h) \in Nat /\ IsFiniteSet(FieldsOf(h))
<1>1. IsFiniteSet(Addr) /\ IsFiniteSet(1 .. Width)
      BY FS_Interval, HeapAssumption DEF Addr
<1>2. IsFiniteSet(Addr \X (1 .. Width))
      BY <1>1, FS_Product
<1>3. IsFiniteSet(FieldsOf(h))
      BY <1>2, FS_Subset DEF FieldsOf
<1>4. QED
      BY <1>3, FS_CardinalityType DEF Fields

LEMMA SizeType ==
    ASSUME NEW o \in Object \cup {Nil}
    PROVE  Size(o) \in Nat
<1>1. Len(o) \in Nat
      BY ObjectSeq, AddrFacts
<1>2. QED
      BY <1>1 DEF Size

LEMMA FieldsAt ==
    ASSUME NEW h \in [Addr -> Object \cup {Nil}], NEW c \in Addr
    PROVE  Cardinality(FieldsOf(h) \cap At(c)) = Size(h[c])
<1> DEFINE C == FieldsOf(h) \cap At(c)
           K == 1 .. Len(h[c])
           F == [k \in K |-> <<c, k>>]
<1>1. h[c] \in Object \cup {Nil}
      OBVIOUS
<1>2. Len(h[c]) \in Nat /\ DOMAIN h[c] = 1 .. Len(h[c]) /\ DOMAIN h[c] \subseteq 1 .. Width
      BY <1>1, ObjectSeq, AddrFacts
<1>3. CASE h[c] = Nil
  <2>1. C = {}
        BY <1>3 DEF FieldsOf, At
  <2>2. QED
        BY <1>3, <2>1, FS_EmptySet DEF Size
<1>4. CASE h[c] # Nil
  <2>1. IsFiniteSet(K) /\ Cardinality(K) = Len(h[c])
        BY <1>2, FS_Interval
  <2>2. F \in [K -> C]
        BY <1>2, <1>4 DEF FieldsOf, At
  <2>3. \A x, y \in K : F[x] = F[y] => x = y
        OBVIOUS
  <2>4. \A y \in C : \E x \in K : F[x] = y
    <3>1. TAKE y \in C
    <3>2. y = <<c, y[2]>> /\ y[2] \in K
          BY <1>2 DEF FieldsOf, At
    <3>3. QED
          BY <3>2
  <2>5. Cardinality(C) = Cardinality(K)
    <3> HIDE DEF C, K, F
    <3>1. QED
          BY <2>1, <2>2, <2>3, <2>4, CardMoved
  <2>6. QED
        BY <1>4, <2>1, <2>5 DEF Size
<1>5. QED
      BY <1>3, <1>4

\* One object is written, placed or reclaimed.
LEMMA FieldsUpdate ==
    ASSUME NEW h, NEW g, NEW c, Replaced(h, g, c)
    PROVE  Fields(g) + Size(h[c]) = Fields(h) + Size(g[c])
<1>1. /\ Fields(h) = Cardinality(FieldsOf(h) \cap At(c)) + Cardinality(FieldsOf(h) \ At(c))
      /\ Cardinality(FieldsOf(h) \cap At(c)) \in Nat /\ Cardinality(FieldsOf(h) \ At(c)) \in Nat
      BY FieldsType, CardSplit DEF Fields
<1>2. /\ Fields(g) = Cardinality(FieldsOf(g) \cap At(c)) + Cardinality(FieldsOf(g) \ At(c))
      /\ Cardinality(FieldsOf(g) \cap At(c)) \in Nat
      BY FieldsType, CardSplit DEF Fields
<1>3. FieldsOf(g) \ At(c) = FieldsOf(h) \ At(c)
      BY DEF FieldsOf, At, Replaced
<1>4. Cardinality(FieldsOf(h) \cap At(c)) = Size(h[c])
      BY FieldsAt DEF Replaced
<1>5. Cardinality(FieldsOf(g) \cap At(c)) = Size(g[c])
      BY FieldsAt DEF Replaced
<1>6. Cardinality(FieldsOf(g) \ At(c)) = Cardinality(FieldsOf(h) \ At(c))
      BY <1>3
<1>7. QED
      BY <1>1, <1>2, <1>4, <1>5, <1>6

\* Objects are reclaimed, none is written.
LEMMA FieldsFewer ==
    ASSUME NEW h, NEW g, \A x \in Addr : g[x] = h[x] \/ g[x] = Nil
    PROVE  Fields(g) <= Fields(h)
<1>1. FieldsOf(g) \in SUBSET FieldsOf(h)
      BY DEF FieldsOf
<1>2. QED
      BY <1>1, FieldsType, FS_Subset DEF Fields

-----------------------------------------------------------------------------
Unmarked == {a \in Counted : trial[a] >= 0}

\* What is left of an instruction's releases, and of its allocation.
Load == Fields(heap) + Len(pend.obj) + Len(work)
Calls == 2 * Len(todo) + (IF store = NoStore THEN 0 ELSE 3)
Turns == CASE phase = "exhausted" -> 1
           [] phase = "place" -> IF collected THEN 2 ELSE 2 * Limit + 5
           [] phase = "sweep" -> 3
           [] phase = "mark" -> 2 * Cardinality(Unmarked) + Cardinality(grey) + 4
           [] phase = "scan" -> 2 * Limit + 4
           [] OTHER -> 0

LEMMA FieldsLive == ShapeInv =>
    Cardinality({e \in Live \X (1 .. Width) : e[2] \in DOMAIN heap[e[1]]}) = Fields(heap)
<1> SUFFICES ASSUME ShapeInv
             PROVE  Cardinality({e \in Live \X (1 .. Width) : e[2] \in DOMAIN heap[e[1]]}) = Fields(heap)
    OBVIOUS
<1>1. 0 .. top - 1 \subseteq Addr /\ top \in Nat
      BY CountedAddr
<1>2. ASSUME NEW a PROVE a \in Live <=> a \in Addr /\ heap[a] # Nil
  <2>1. ASSUME a \in Live PROVE a \in Addr /\ heap[a] # Nil
        BY <1>1, <2>1 DEF Live, Alive
  <2>2. ASSUME a \in Addr, heap[a] # Nil PROVE a \in Live
    <3>1. a < top /\ a \in Nat
          BY <2>2, AddrFacts DEF ShapeInv, Alive
    <3>2. a \in 0 .. top - 1
          BY <1>1, <3>1
    <3>3. QED
          BY <2>2, <3>2 DEF Live, Alive
  <2>3. QED
        BY <2>1, <2>2
<1>3. {e \in Live \X (1 .. Width) : e[2] \in DOMAIN heap[e[1]]} = FieldsOf(heap)
      BY <1>2 DEF FieldsOf
<1>4. QED
      BY <1>3 DEF Fields

LEMMA StepTypes ==
    ASSUME ShapeInv
    PROVE  /\ Load \in Nat /\ Calls \in Nat /\ Turns \in Nat
           /\ Fields(heap) \in Nat /\ Len(pend.obj) \in Nat /\ Len(work) \in Nat /\ Len(todo) \in Nat
           /\ IsFiniteSet(Unmarked) /\ IsFiniteSet(grey)
           /\ Cardinality(Unmarked) \in Nat /\ Cardinality(grey) \in Nat
<1>1. pend.obj \in Object /\ work \in Seq(Addr) /\ todo \in Seq(Addr) /\ grey \subseteq Addr
      BY DEF ShapeInv, TypeOK
<1>2. Len(pend.obj) \in Nat
      BY <1>1, ObjectSeq, AddrFacts
<1>3. Len(work) \in Nat /\ Len(todo) \in Nat
      BY <1>1, SeqDomain
<1>4. Fields(heap) \in Nat
      BY FieldsType
<1>5. IsFiniteSet(Unmarked) /\ IsFiniteSet(grey)
      BY <1>1, CountedAddr, AddrFacts, FS_Subset DEF Unmarked
<1>6. Cardinality(Unmarked) \in Nat /\ Cardinality(grey) \in Nat /\ Limit \in Nat
      BY <1>5, FS_CardinalityType, AddrFacts
<1>7. Turns \in Nat
      BY <1>6 DEF Turns
<1>8. Load \in Nat
      BY <1>2, <1>3, <1>4 DEF Load
<1>9. Calls \in Nat
      BY <1>3 DEF Calls
<1>10. QED
      BY <1>2, <1>3, <1>4, <1>5, <1>6, <1>7, <1>8, <1>9

LEMMA Regroup ==
    ASSUME NEW f \in Nat, NEW o \in Nat, NEW w \in Nat, NEW c \in Nat, NEW n \in Nat, NEW t \in Nat
    PROVE  (f + o + w + c + n) + t = (f + o + w) + (c + n) + t
OBVIOUS

LEMMA StepsSum == ShapeInv => StepsLeft = Load + Calls + Turns
<1> SUFFICES ASSUME ShapeInv PROVE StepsLeft = Load + Calls + Turns
    OBVIOUS
<1> DEFINE f == Fields(heap)
           o == Len(pend.obj)
           w == Len(work)
           c == 2 * Len(todo)
           n == IF store = NoStore THEN 0 ELSE 3
<1>1. Cardinality({e \in Live \X (1 .. Width) : e[2] \in DOMAIN heap[e[1]]}) = f
      BY FieldsLive
<1>2. StepsLeft = (f + o + w + c + n) + Turns
      BY <1>1 DEF StepsLeft, Turns, Unmarked
<1>3. Load = f + o + w /\ Calls = c + n
      BY DEF Load, Calls
<1>4. f \in Nat /\ o \in Nat /\ w \in Nat /\ Len(todo) \in Nat /\ Turns \in Nat
      BY StepTypes
<1>5. c \in Nat /\ n \in Nat
      BY <1>4
<1> HIDE DEF f, o, w, c, n
<1>6. (f + o + w + c + n) + Turns = (f + o + w) + (c + n) + Turns
      BY <1>4, <1>5, Regroup
<1>7. QED
      BY <1>2, <1>3, <1>6, Zenon

LEMMA StepTypesNext == ShapeInv' => Load' \in Nat /\ Calls' \in Nat /\ Turns' \in Nat
<1>1. ShapeInv => (Load \in Nat /\ Calls \in Nat /\ Turns \in Nat)
      BY StepTypes
<1>2. ShapeInv' => (Load \in Nat /\ Calls \in Nat /\ Turns \in Nat)'
      BY <1>1, PTL
<1>3. QED
      BY <1>2

LEMMA LowerSum ==
    ASSUME NEW l \in Nat, NEW c \in Nat, NEW t \in Nat, NEW m \in Nat, NEW d \in Nat, NEW u \in Nat,
           \/ m + d < l + c /\ u = t
           \/ m <= l /\ d = c /\ u < t
    PROVE  m + d + u < l + c + t
OBVIOUS

\* A step of release lowers what is left of the releases; a step of alloc or of
\* the collector lowers what is left of the allocation and adds no releases.
LEMMA StepsLower ==
    ASSUME ShapeInv, ShapeInv',
           \/ Load' + Calls' < Load + Calls /\ Turns' = Turns
           \/ Load' <= Load /\ Calls' = Calls /\ Turns' < Turns
    PROVE  StepsLeft' < StepsLeft
<1>1. StepsLeft = Load + Calls + Turns
      BY StepsSum
<1>2. StepsLeft' = Load' + Calls' + Turns'
  <2>1. ShapeInv' => (StepsLeft = Load + Calls + Turns)'
        BY StepsSum, PTL
  <2>2. QED
        BY <2>1
<1>3. Load \in Nat /\ Calls \in Nat /\ Turns \in Nat /\ Load' \in Nat /\ Calls' \in Nat /\ Turns' \in Nat
      BY StepTypes, StepTypesNext
<1>4. Load' + Calls' + Turns' < Load + Calls + Turns
      BY <1>3, LowerSum
<1>5. QED
      BY <1>1, <1>2, <1>4

-----------------------------------------------------------------------------
(***************************************************************************)
(* release.                                                                *)
(***************************************************************************)
LEMMA RunTurns ==
    ASSUME phase = "run", phase' = "run"
    PROVE  Turns' = Turns
BY DEF Turns

LEMMA TailLen ==
    ASSUME NEW S, NEW s \in Seq(S), s # <<>>
    PROVE  Len(s) = Len(Tail(s)) + 1 /\ Len(Tail(s)) \in Nat
OBVIOUS

LEMMA FrontLen ==
    ASSUME NEW S, NEW s \in Seq(S), s # <<>>
    PROVE  Len(s) = Len(Front(s)) + 1 /\ Len(Front(s)) \in Nat
<1>1. Len(s) \in Nat /\ Len(s) >= 1
      OBVIOUS
<1>2. Front(s) = SubSeq(s, 1, Len(s) - 1)
      BY DEF Front
<1>3. Len(SubSeq(s, 1, Len(s) - 1)) = Len(s) - 1
      BY <1>1
<1>4. QED
      BY <1>1, <1>2, <1>3

LEMMA RawLen ==
    ASSUME NEW a
    PROVE  Len(RawRelease(a)) = 0 \/ Len(RawRelease(a)) = 1
BY DEF RawRelease

LEMMA CallSum ==
    ASSUME NEW f \in Nat, NEW o \in Nat, NEW n \in Nat, NEW t \in Nat, NEW w, w = 0 \/ w = 1
    PROVE  (f + o + w) + (2 * t + n) < (f + o + 0) + (2 * (t + 1) + n)
OBVIOUS

LEMMA ReleaseCallLower ==
    ASSUME HeapInv, HeapInv', ReleaseCall
    PROVE  StepsLeft' < StepsLeft
<1>1. /\ todo # <<>> /\ work = <<>> /\ todo' = Tail(todo) /\ (work' = work \/ work' = <<Head(todo)>>)
      /\ UNCHANGED <<heap, store, pend, phase>>
      BY DEF ReleaseCall, gcVars
<1>2. phase = "run"
      BY <1>1 DEF HeapInv, QuietInv
<1>3. todo \in Seq(Addr)
      BY DEF HeapInv, ShapeInv, TypeOK
<1>4. Len(todo) = Len(todo') + 1 /\ Len(todo') \in Nat
      BY <1>1, <1>3, TailLen
<1>5. Len(work) = 0 /\ (Len(work') = 0 \/ Len(work') = 1)
      BY <1>1
<1>6. Fields(heap) \in Nat /\ Len(pend.obj) \in Nat
      BY StepTypes DEF HeapInv
<1>7. Load' = Fields(heap) + Len(pend.obj) + Len(work') /\ Load = Fields(heap) + Len(pend.obj) + Len(work)
      BY <1>1 DEF Load
<1>8. \E n \in Nat : Calls' = 2 * Len(todo') + n /\ Calls = 2 * Len(todo) + n
      BY <1>1 DEF Calls
<1>9. Load' + Calls' < Load + Calls
  <2>1. PICK n \in Nat : Calls' = 2 * Len(todo') + n /\ Calls = 2 * Len(todo) + n
        BY <1>8
  <2>2. QED
        BY <1>4, <1>5, <1>6, <1>7, <2>1, CallSum
<1>10. QED
      BY <1>1, <1>2, <1>9, RunTurns, StepsLower DEF HeapInv

LEMMA TurnSum ==
    ASSUME NEW f \in Nat, NEW o \in Nat, NEW w \in Nat, NEW g \in Nat, NEW v \in Nat, NEW c \in Nat,
           g + v + 1 = f + w
    PROVE  (g + o + v) + c < (f + o + w) + c
OBVIOUS

LEMMA ReclaimSum ==
    ASSUME NEW f \in Nat, NEW g \in Nat, NEW k \in Nat, NEW n \in Nat, g + n = f
    PROVE  g + (k + n) + 1 = f + (k + 1)
OBVIOUS

LEMMA ReleaseStepLower ==
    ASSUME HeapInv, HeapInv', ReleaseStep
    PROVE  StepsLeft' < StepsLeft
<1> DEFINE w == Last(work)
<1>1. /\ work # <<>> /\ UNCHANGED <<todo, store, pend, phase>>
      /\ IF rc[w] = 1 THEN work' = Front(work) \o heap[w] /\ heap' = [heap EXCEPT ![w] = Nil]
                      ELSE work' = Front(work) /\ heap' = heap
      BY DEF ReleaseStep, gcVars
<1>2. /\ w \in Addr /\ phase = "run" /\ Front(work) \in Seq(Addr) /\ Alive(w)
      /\ heap[w] \in Object /\ heap[w] \in Seq(Addr)
      BY <1>1, WorkTop
<1>3. work \in Seq(Addr) /\ heap \in [Addr -> Object \cup {Nil}]
      BY DEF HeapInv, ShapeInv, TypeOK
<1>4. Len(work) = Len(Front(work)) + 1 /\ Len(Front(work)) \in Nat
      BY <1>1, <1>3, FrontLen
<1> HIDE DEF w
<1>5. Fields(heap') + Len(work') + 1 = Fields(heap) + Len(work)
  <2>1. Fields(heap) \in Nat /\ Fields(heap') \in Nat
        BY FieldsType
  <2>2. CASE rc[w] = 1
    <3>1. Replaced(heap, heap', w) /\ heap'[w] = Nil
          BY <1>1, <1>2, <1>3, <2>2 DEF Replaced
    <3>2. Fields(heap') + Size(heap[w]) = Fields(heap) + Size(heap'[w])
          BY <3>1, FieldsUpdate
    <3>3. Size(heap'[w]) = 0 /\ Size(heap[w]) = Len(heap[w])
          BY <1>2, <3>1 DEF Size, Alive
    <3>4. Len(work') = Len(Front(work)) + Len(heap[w]) /\ Len(heap[w]) \in Nat
          BY <1>1, <1>2, <2>2, SeqDomain
    <3>5. Fields(heap') + Len(heap[w]) = Fields(heap)
          BY <2>1, <3>2, <3>3
    <3>6. Fields(heap') + (Len(Front(work)) + Len(heap[w])) + 1 = Fields(heap) + (Len(Front(work)) + 1)
          BY <1>4, <2>1, <3>4, <3>5, ReclaimSum
    <3>7. QED
          BY <1>4, <3>4, <3>6, Zenon
  <2>3. CASE rc[w] # 1
    <3>1. heap' = heap /\ work' = Front(work)
          BY <1>1, <2>3
    <3>2. QED
          BY <1>4, <2>1, <3>1
  <2>4. QED
        BY <2>2, <2>3
<1>6. Load' + Calls' < Load + Calls
  <2>1. Calls' = Calls
        BY <1>1 DEF Calls
  <2>2. Load' = Fields(heap') + Len(pend.obj) + Len(work')
        BY <1>1 DEF Load
  <2>3. Load = Fields(heap) + Len(pend.obj) + Len(work)
        BY DEF Load
  <2>4. /\ Calls \in Nat /\ Fields(heap) \in Nat /\ Len(pend.obj) \in Nat /\ Len(work) \in Nat
        /\ Fields(heap') \in Nat
        BY StepTypes, FieldsType DEF HeapInv
  <2>5. Len(work') \in Nat
    <3>1. work' \in Seq(Addr)
          BY DEF HeapInv, ShapeInv, TypeOK
    <3>2. QED
          BY <3>1, SeqDomain
  <2>6. (Fields(heap') + Len(pend.obj) + Len(work')) + Calls < (Fields(heap) + Len(pend.obj) + Len(work)) + Calls
        BY <1>5, <2>4, <2>5, TurnSum
  <2>7. QED
        BY <2>1, <2>2, <2>3, <2>6, Zenon
<1>7. QED
      BY <1>1, <1>2, <1>6, RunTurns, StepsLower DEF HeapInv

LEMMA StructWriteLower ==
    ASSUME HeapInv, HeapInv', StructWrite
    PROVE  StepsLeft' < StepsLeft
<1> DEFINE c == store.addr
           f == store.field
<1>1. /\ store # NoStore /\ todo = <<>> /\ work = <<>> /\ store' = NoStore /\ todo' = RawRelease(c)
      /\ heap' = [heap EXCEPT ![c][f] = store.val] /\ UNCHANGED <<work, pend, phase>>
      BY DEF StructWrite, gcVars
<1>2. phase = "run" /\ c \in Addr /\ Alive(c) /\ f \in 1 .. Len(heap[c])
      BY <1>1 DEF HeapInv, QuietInv, ShapeInv
<1>3. heap \in [Addr -> Object \cup {Nil}] /\ heap' \in [Addr -> Object \cup {Nil}]
      BY DEF HeapInv, ShapeInv, TypeOK
<1>4. heap[c] \in Object \cup {Nil} /\ heap[c] # Nil
      BY <1>2, <1>3 DEF Alive
<1>5. heap[c] \in Seq(Int) /\ heap'[c] = [heap[c] EXCEPT ![f] = store.val]
      BY <1>1, <1>2, <1>3, <1>4, ObjectSeq
<1>6. DOMAIN heap'[c] = DOMAIN heap[c] /\ \A x \in Addr \ {c} : heap'[x] = heap[x]
      BY <1>1, <1>2, <1>3, <1>5
<1>7. heap'[c] # Nil
  <2>1. heap'[c][f] = store.val /\ f \in DOMAIN heap'[c]
        BY <1>2, <1>5, <1>6
  <2>2. store.val \in Addr /\ NoRef \notin Addr
        BY <1>1, AddrFacts DEF HeapInv, ShapeInv
  <2>3. \A k \in DOMAIN Nil : Nil[k] = NoRef
        BY DEF Nil, NoRef
  <2>4. QED
        BY <2>1, <2>2, <2>3
<1>8. Fields(heap') = Fields(heap)
  <2>1. FieldsOf(heap') = FieldsOf(heap)
        BY <1>4, <1>6, <1>7 DEF FieldsOf
  <2>2. QED
        BY <2>1 DEF Fields
<1>9. (Len(todo') = 0 \/ Len(todo') = 1) /\ Len(todo) = 0
      BY <1>1, RawLen
<1>10. Load' = Load
      BY <1>1, <1>8 DEF Load
<1>11. Calls = 3 /\ (Calls' = 0 \/ Calls' = 2)
  <2>1. Calls = 2 * Len(todo) + 3 /\ Calls' = 2 * Len(todo') + 0
        BY <1>1 DEF Calls
  <2>2. 2 * 0 + 3 = 3 /\ 2 * 0 + 0 = 0 /\ 2 * 1 + 0 = 2
        OBVIOUS
  <2>3. QED
        BY <1>9, <2>1, <2>2, Zenon
<1>12. Load' + Calls' < Load + Calls
  <2>1. Load \in Nat
        BY StepTypes DEF HeapInv
  <2>2. QED
        BY <1>10, <1>11, <2>1
<1>13. QED
      BY <1>1, <1>2, <1>12, RunTurns, StepsLower DEF HeapInv

-----------------------------------------------------------------------------
(***************************************************************************)
(* alloc.                                                                  *)
(***************************************************************************)
\* The object moves from the allocation into the heap.
LEMMA PlacedLower ==
    ASSUME HeapInv, HeapInv', phase = "place", NEW a \in Addr, ~Alive(a), Placed(a), UNCHANGED relVars
    PROVE  StepsLeft' < StepsLeft
<1>1. /\ heap' = [heap EXCEPT ![a] = pend.obj] /\ pend' = NoPend /\ phase' = "run"
      /\ UNCHANGED <<todo, work, store>>
      BY DEF Placed, relVars
<1>2. heap \in [Addr -> Object \cup {Nil}] /\ heap' \in [Addr -> Object \cup {Nil}] /\ pend.obj \in Object
      BY DEF HeapInv, ShapeInv, TypeOK
<1>3. Replaced(heap, heap', a) /\ heap[a] = Nil /\ heap'[a] = pend.obj
      BY <1>1, <1>2 DEF Replaced, Alive
<1>4. pend.obj # Nil
  <2>1. Nil \in Object \cup {Nil}
        OBVIOUS
  <2>2. QED
        BY <1>2, <2>1, ObjectSeq
<1>5. Fields(heap') + Size(heap[a]) = Fields(heap) + Size(heap'[a])
      BY <1>3, FieldsUpdate
<1>6. Size(heap[a]) = 0 /\ Size(heap'[a]) = Len(pend.obj)
      BY <1>3, <1>4 DEF Size
<1>7. Len(pend'.obj) = 0
      BY <1>1 DEF NoPend
<1>8. Load' = Load
  <2>1. Load' = Fields(heap') + Len(pend'.obj) + Len(work) /\ Load = Fields(heap) + Len(pend.obj) + Len(work)
        BY <1>1 DEF Load
  <2>2. Fields(heap) \in Nat /\ Fields(heap') \in Nat /\ Len(pend.obj) \in Nat /\ Len(work) \in Nat
        BY StepTypes, FieldsType DEF HeapInv
  <2>3. QED
        BY <1>5, <1>6, <1>7, <2>1, <2>2
<1>9. Calls' = Calls
      BY <1>1 DEF Calls
<1>10. Turns' = 0 /\ (Turns = 2 \/ Turns = 2 * Limit + 5)
      BY <1>1 DEF Turns
<1>11. Turns' < Turns /\ Load' <= Load
  <2>1. Limit \in Nat /\ Load \in Nat
        BY AddrFacts, StepTypes DEF HeapInv
  <2>2. 0 < 2 * Limit + 5 /\ 0 < 2
        BY <2>1
  <2>3. Load <= Load
        BY <2>1
  <2>4. QED
        BY <1>8, <1>10, <2>2, <2>3, Zenon
<1>12. QED
      BY <1>9, <1>11, StepsLower DEF HeapInv

LEMMA PlaceReuseLower ==
    ASSUME HeapInv, HeapInv', PlaceReuse
    PROVE  StepsLeft' < StepsLeft
<1>1. phase = "place" /\ free # <<>> /\ Placed(Last(free)) /\ UNCHANGED relVars
      BY DEF PlaceReuse
<1>2. Apart(free) /\ free \in Seq(Addr) /\ {free[k] : k \in DOMAIN free} = {b \in 0 .. top - 1 : ~Alive(b)}
      BY DEF HeapInv, FreeInv, ShapeInv, TypeOK
<1>3. Last(free) \in Addr /\ \E k \in DOMAIN free : free[k] = Last(free)
      BY <1>1, <1>2, ApartFront
<1>4. ~Alive(Last(free))
      BY <1>2, <1>3
<1>5. QED
      BY <1>1, <1>3, <1>4, PlacedLower

LEMMA PlaceAppendLower ==
    ASSUME HeapInv, HeapInv', PlaceAppend
    PROVE  StepsLeft' < StepsLeft
<1>1. phase = "place" /\ Placed(top) /\ UNCHANGED relVars /\ ~(top >= Limit)
      BY DEF PlaceAppend, Limited
<1>2. top \in Nat /\ Limit \in Nat
      BY AddrFacts, CountedAddr DEF HeapInv
<1>3. top \in Addr
      BY <1>1, <1>2 DEF Addr
<1>4. ~Alive(top)
      BY <1>2, <1>3 DEF HeapInv, ShapeInv
<1>5. QED
      BY <1>1, <1>3, <1>4, PlacedLower

\* Steps that leave the heap and the releases alone.
LEMMA PhaseLower ==
    ASSUME HeapInv, HeapInv', UNCHANGED <<heap, relVars>>, pend' = pend \/ pend' = NoPend, Turns' < Turns
    PROVE  StepsLeft' < StepsLeft
<1>1. UNCHANGED <<todo, work, store>>
      BY DEF relVars
<1>2. Calls' = Calls
      BY <1>1 DEF Calls
<1>3. Fields(heap) \in Nat /\ Len(pend.obj) \in Nat /\ Len(work) \in Nat
      BY StepTypes DEF HeapInv
<1>4. Len(pend'.obj) = Len(pend.obj) \/ Len(pend'.obj) = 0
      BY DEF NoPend
<1>5. Load' = Fields(heap) + Len(pend'.obj) + Len(work) /\ Load = Fields(heap) + Len(pend.obj) + Len(work)
      BY <1>1 DEF Load
<1>6. Load' <= Load
  <2>1. CASE Len(pend'.obj) = Len(pend.obj)
        BY <1>3, <1>5, <2>1
  <2>2. CASE Len(pend'.obj) = 0
        BY <1>3, <1>5, <2>2
  <2>3. QED
        BY <1>4, <2>1, <2>2
<1>7. QED
      BY <1>2, <1>6, StepsLower DEF HeapInv

LEMMA PlaceCollectLower ==
    ASSUME HeapInv, HeapInv', PlaceCollect
    PROVE  StepsLeft' < StepsLeft
<1>1. phase = "place" /\ phase' = "scan" /\ ~collected /\ UNCHANGED <<heap, relVars, pend>>
      BY DEF PlaceCollect
<1>2. Turns = 2 * Limit + 5 /\ Turns' = 2 * Limit + 4
      BY <1>1 DEF Turns
<1>3. Turns' < Turns
      BY <1>2, AddrFacts
<1>4. QED
      BY <1>1, <1>3, PhaseLower

LEMMA PlaceExhaustedLower ==
    ASSUME HeapInv, HeapInv', PlaceExhausted
    PROVE  StepsLeft' < StepsLeft
<1>1. phase = "place" /\ phase' = "exhausted" /\ collected /\ pend' = NoPend /\ UNCHANGED <<heap, relVars>>
      BY DEF PlaceExhausted
<1>2. Turns = 2 /\ Turns' = 1
      BY <1>1 DEF Turns
<1>3. Turns' < Turns
      BY <1>2
<1>4. QED
      BY <1>1, <1>3, PhaseLower

LEMMA RecoverLower ==
    ASSUME HeapInv, HeapInv', Recover
    PROVE  StepsLeft' < StepsLeft
<1>1. phase = "exhausted" /\ phase' = "run" /\ UNCHANGED <<heap, relVars, pend>>
      BY DEF Recover
<1>2. Turns = 1 /\ Turns' = 0
      BY <1>1 DEF Turns
<1>3. Turns' < Turns
      BY <1>2
<1>4. QED
      BY <1>1, <1>3, PhaseLower

-----------------------------------------------------------------------------
(***************************************************************************)
(* The collector.                                                          *)
(***************************************************************************)
LEMMA UnmarkedBound ==
    ASSUME ShapeInv
    PROVE  Cardinality(Unmarked) <= Limit - 1
<1>1. Limit \in Nat /\ 1 <= Limit
      BY AddrFacts
<1>2. IsFiniteSet(1 .. Limit - 1) /\ Cardinality(1 .. Limit - 1) = Limit - 1
      BY <1>1, FS_Interval
<1>3. Unmarked \in SUBSET (1 .. Limit - 1)
  <2>1. Counted \subseteq Addr \ {0}
        BY CountedAddr
  <2>2. Addr \ {0} \subseteq 1 .. Limit - 1
        BY <1>1 DEF Addr
  <2>3. QED
        BY <2>1, <2>2 DEF Unmarked
<1>4. QED
      BY <1>2, <1>3, FS_Subset

LEMMA MarkTypesNext == ShapeInv' =>
    Cardinality(Unmarked') \in Nat /\ Cardinality(Unmarked') <= Limit - 1 /\ Cardinality(grey') \in Nat
<1>1. ShapeInv => (Cardinality(Unmarked) \in Nat /\ Cardinality(Unmarked) <= Limit - 1 /\ Cardinality(grey) \in Nat)
      BY StepTypes, UnmarkedBound
<1>2. ShapeInv' => (Cardinality(Unmarked) \in Nat /\ Cardinality(Unmarked) <= Limit - 1 /\ Cardinality(grey) \in Nat)'
      BY <1>1, PTL
<1>3. QED
      BY <1>2

LEMMA ScanLower ==
    ASSUME HeapInv, HeapInv', Scan
    PROVE  StepsLeft' < StepsLeft
<1>1. phase = "scan" /\ phase' = "mark" /\ grey' = {} /\ UNCHANGED <<heap, relVars, pend>>
      BY DEF Scan, HeapInv, CollectorNeverFaults
<1>2. Cardinality(grey') = 0
      BY <1>1, FS_EmptySet
<1>3. Turns = 2 * Limit + 4 /\ Turns' = 2 * Cardinality(Unmarked') + Cardinality(grey') + 4
      BY <1>1 DEF Turns
<1>4. Cardinality(Unmarked') \in Nat /\ Cardinality(Unmarked') <= Limit - 1
      BY MarkTypesNext DEF HeapInv
<1>5. Turns' < Turns
  <2>1. Limit \in Nat
        BY AddrFacts
  <2>2. QED
        BY <1>2, <1>3, <1>4, <2>1
<1>6. QED
      BY <1>1, <1>5, PhaseLower

LEMMA MarkSum ==
    ASSUME NEW u \in Nat, NEW v \in Nat, NEW n \in Nat, NEW g \in Nat, NEW h \in Nat,
           v = n + u, h <= g + n, n >= 1 \/ h < g
    PROVE  2 * u + h + 4 < 2 * v + g + 4
OBVIOUS

\* Objects are marked, and as many become grey.
LEMMA MarkLower ==
    ASSUME HeapInv, HeapInv', phase = "mark", phase' = "mark",
           UNCHANGED <<root, heap, rc, memVars, relVars, pend, traps>>,
           NEW S, S \subseteq Unmarked, trial' = Flip(S),
           Cardinality(grey') <= Cardinality(grey) + Cardinality(S),
           S # {} \/ Cardinality(grey') < Cardinality(grey)
    PROVE  StepsLeft' < StepsLeft
<1>1. Counted' = Counted
      BY StartsFrame
<1>2. S \subseteq Addr /\ (\A b \in S : trial[b] >= 0) /\ trial \in [Addr -> Int] /\ Counted \subseteq Addr
      BY CountedAddr DEF HeapInv, ShapeInv, TypeOK, Unmarked
<1>3. (\A b \in S : trial'[b] < 0) /\ (\A b \in Addr \ S : trial'[b] = trial[b]) /\ trial' \in [Addr -> Int]
      BY <1>2, FlipFacts
<1>4. Unmarked' = Unmarked \ S
  <2>1. ASSUME NEW b \in Counted PROVE trial'[b] >= 0 <=> trial[b] >= 0 /\ b \notin S
    <3>1. CASE b \in S
      <4>1. trial'[b] < 0 /\ trial'[b] \in Int
            BY <1>2, <1>3, <3>1
      <4>2. QED
            BY <3>1, <4>1
    <3>2. CASE b \notin S
          BY <1>2, <1>3, <3>2
    <3>3. QED
          BY <3>1, <3>2
  <2>2. QED
        BY <1>1, <2>1 DEF Unmarked
<1>5. Unmarked \cap S = S
      OBVIOUS
<1>6. /\ IsFiniteSet(Unmarked) /\ Cardinality(grey) \in Nat /\ Cardinality(Unmarked) \in Nat
      BY StepTypes DEF HeapInv
<1>7. /\ Cardinality(Unmarked) = Cardinality(Unmarked \cap S) + Cardinality(Unmarked \ S)
      /\ Cardinality(Unmarked \ S) \in Nat /\ Cardinality(Unmarked \cap S) \in Nat /\ IsFiniteSet(Unmarked \cap S)
      BY <1>6, CardSplit
<1>8. /\ Cardinality(Unmarked) = Cardinality(S) + Cardinality(Unmarked')
      /\ Cardinality(Unmarked') \in Nat /\ Cardinality(S) \in Nat /\ IsFiniteSet(S)
      BY <1>4, <1>5, <1>7
<1>9. Cardinality(grey') \in Nat
      BY MarkTypesNext DEF HeapInv
<1>10. S # {} => Cardinality(S) >= 1
      BY <1>8, FS_EmptySet
<1>11. /\ Turns = 2 * Cardinality(Unmarked) + Cardinality(grey) + 4
       /\ Turns' = 2 * Cardinality(Unmarked') + Cardinality(grey') + 4
      BY DEF Turns
<1>12. Turns' < Turns
  <2>1. 2 * Cardinality(Unmarked') + Cardinality(grey') + 4 < 2 * Cardinality(Unmarked) + Cardinality(grey) + 4
        BY <1>6, <1>8, <1>9, <1>10, MarkSum
  <2>2. QED
        BY <1>11, <2>1
<1>13. QED
      BY <1>12, PhaseLower

LEMMA MarkRootsLower ==
    ASSUME HeapInv, HeapInv', MarkRoots
    PROVE  StepsLeft' < StepsLeft
<1> DEFINE S == {a \in Counted : trial[a] > 0}
<1>1. /\ phase = "mark" /\ phase' = "mark" /\ grey = {} /\ S # {} /\ grey' = S /\ trial' = Flip(S)
      /\ UNCHANGED <<root, heap, rc, memVars, relVars, pend, traps>>
      BY DEF MarkRoots
<1>2. \A a \in Counted : trial[a] \in Int
      BY CountedAddr DEF HeapInv, ShapeInv, TypeOK
<1>3. S \subseteq Unmarked
      BY <1>2 DEF Unmarked
<1> HIDE DEF S
<1>4. Cardinality(grey) = 0 /\ Cardinality(grey') = Cardinality(S)
      BY <1>1, FS_EmptySet
<1>5. Cardinality(grey') \in Nat
      BY MarkTypesNext DEF HeapInv
<1>6. Cardinality(grey') <= Cardinality(grey) + Cardinality(S)
      BY <1>4, <1>5
<1>7. QED
      BY <1>1, <1>3, <1>6, MarkLower

LEMMA MarkStepLower ==
    ASSUME HeapInv, HeapInv', MarkStep
    PROVE  StepsLeft' < StepsLeft
<1>1. /\ phase = "mark" /\ phase' = "mark"
      /\ UNCHANGED <<root, heap, rc, memVars, relVars, pend, traps>>
      BY DEF MarkStep
<1>2. PICK a \in grey :
          /\ grey' = (grey \ {a})
                     \cup ({heap[a][k] : k \in DOMAIN heap[a]} \cap {b \in Counted : trial[b] >= 0})
          /\ trial' = Flip({heap[a][k] : k \in DOMAIN heap[a]} \cap {b \in Counted : trial[b] >= 0})
      BY DEF MarkStep
<1> DEFINE S == {heap[a][k] : k \in DOMAIN heap[a]} \cap {b \in Counted : trial[b] >= 0}
<1>3. S \subseteq Unmarked /\ grey' = (grey \ {a}) \cup S /\ trial' = Flip(S)
      BY <1>2 DEF Unmarked
<1> HIDE DEF S
<1>4. IsFiniteSet(Unmarked) /\ IsFiniteSet(grey) /\ Cardinality(grey) \in Nat
      BY StepTypes DEF HeapInv
<1>5. IsFiniteSet(S) /\ Cardinality(S) \in Nat
      BY <1>3, <1>4, FS_Subset, FS_CardinalityType
<1>6. IsFiniteSet(grey \ {a}) /\ Cardinality(grey \ {a}) = Cardinality(grey) - 1
      BY <1>2, <1>4, FS_RemoveElement
<1>7. Cardinality(grey') = Cardinality(grey \ {a}) + Cardinality(S) - Cardinality((grey \ {a}) \cap S)
      BY <1>3, <1>5, <1>6, FS_Union
<1>8. Cardinality((grey \ {a}) \cap S) \in Nat
  <2>1. IsFiniteSet((grey \ {a}) \cap S)
        BY <1>6, FS_Intersection
  <2>2. QED
        BY <2>1, FS_CardinalityType
<1>9. Cardinality(grey') <= Cardinality(grey) + Cardinality(S)
      BY <1>4, <1>5, <1>6, <1>7, <1>8
<1>10. S # {} \/ Cardinality(grey') < Cardinality(grey)
  <2>1. CASE S = {}
    <3>1. grey' = grey \ {a}
          BY <1>3, <2>1
    <3>2. QED
          BY <1>4, <1>6, <3>1
  <2>2. QED
        BY <2>1
<1>11. QED
      BY <1>1, <1>3, <1>9, <1>10, MarkLower

LEMMA MarkDoneLower ==
    ASSUME HeapInv, HeapInv', MarkDone
    PROVE  StepsLeft' < StepsLeft
<1>1. phase = "mark" /\ phase' = "sweep" /\ UNCHANGED <<heap, relVars, pend>>
      BY DEF MarkDone
<1>2. Turns = 2 * Cardinality(Unmarked) + Cardinality(grey) + 4 /\ Turns' = 3
      BY <1>1 DEF Turns
<1>3. Cardinality(Unmarked) \in Nat /\ Cardinality(grey) \in Nat
      BY StepTypes DEF HeapInv
<1>4. Turns' < Turns
      BY <1>2, <1>3
<1>5. QED
      BY <1>1, <1>4, PhaseLower

\* alloc remembers that it has called the collector, so that it does so once.
CollectedInv == phase \in {"scan", "mark", "sweep"} => collected

LEMMA SweepLower ==
    ASSUME HeapInv, HeapInv', CollectedInv, Sweep
    PROVE  StepsLeft' < StepsLeft
<1>1. /\ phase = "sweep" /\ phase' = "place" /\ collected' = collected /\ pend' = pend
      /\ UNCHANGED <<todo, work, store>>
      /\ heap' = [a \in Addr |-> IF a \in Dead THEN Nil ELSE heap[a]]
      BY DEF Sweep, relVars
<1>2. Turns = 3 /\ Turns' = 2
      BY <1>1 DEF Turns, CollectedInv
<1>3. Turns' < Turns
      BY <1>2
<1>4. Fields(heap') <= Fields(heap)
      BY <1>1, FieldsFewer
<1>5. /\ Fields(heap) \in Nat /\ Len(pend.obj) \in Nat /\ Len(work) \in Nat /\ Fields(heap') \in Nat
      BY StepTypes, FieldsType DEF HeapInv
<1>6. Load' = Fields(heap') + Len(pend.obj) + Len(work) /\ Load = Fields(heap) + Len(pend.obj) + Len(work)
      BY <1>1 DEF Load
<1>7. Load' <= Load
      BY <1>4, <1>5, <1>6
<1>8. Calls' = Calls
      BY <1>1 DEF Calls
<1>9. QED
      BY <1>3, <1>7, <1>8, StepsLower DEF HeapInv

LEMMA CollectedStep ==
    ASSUME HeapInv, CollectedInv, Next
    PROVE  CollectedInv'
<1>1. CASE ~Internal
      BY <1>1, InstructionPhase DEF CollectedInv
<1>2. CASE Release
  <2>1. phase' = phase /\ collected' = collected
        BY <1>2 DEF Release, ReleaseCall, ReleaseStep, StructWrite, gcVars
  <2>2. QED
        BY <2>1 DEF CollectedInv
<1>3. CASE Place
      BY <1>3 DEF Place, PlaceReuse, PlaceCollect, PlaceExhausted, PlaceAppend, Placed, CollectedInv
<1>4. CASE Collect
      BY <1>4 DEF Collect, Scan, MarkRoots, MarkStep, MarkDone, Sweep, CollectedInv
<1>5. CASE Recover
      BY <1>5 DEF Recover, CollectedInv
<1>6. QED
      BY <1>1, <1>2, <1>3, <1>4, <1>5 DEF Internal

LEMMA InternalLower ==
    ASSUME HeapInv, HeapInv', CollectedInv, Internal
    PROVE  StepsLeft' < StepsLeft
<1>1. CASE Release
      BY <1>1, ReleaseCallLower, ReleaseStepLower, StructWriteLower DEF Release
<1>2. CASE Place
      BY <1>2, PlaceReuseLower, PlaceCollectLower, PlaceExhaustedLower, PlaceAppendLower DEF Place
<1>3. CASE Collect
      BY <1>3, ScanLower, MarkRootsLower, MarkStepLower, MarkDoneLower, SweepLower DEF Collect
<1>4. CASE Recover
      BY <1>4, RecoverLower
<1>5. QED
      BY <1>1, <1>2, <1>3, <1>4 DEF Internal

\* Instructions begin only when the previous one is through.
LEMMA InstructionReady ==
    ASSUME Next, ~Internal
    PROVE  Ready
<1>1. ASSUME NEW t \in Operand, RefNull(t) \/ NewDefault(t) \/ CatchTrap(t) \/ Drop(t) \/ HostRelease(t)
      PROVE  Ready
      BY <1>1 DEF RefNull, NewDefault, CatchTrap, Drop, HostRelease
<1>2. ASSUME NEW s \in Slot, NEW t \in Operand, Dup(s, t) \/ SetSlot(s, t) \/ TeeSlot(s, t) \/ HostSet(s, t)
      PROVE  Ready
      BY <1>2 DEF Dup, SetSlot, TeeSlot, HostSet
<1>3. ASSUME NEW a \in Consts, NEW t \in Operand, ConstGet(a, t)
      PROVE  Ready
      BY <1>3 DEF ConstGet
<1>4. ASSUME NEW s \in Operand, NEW f \in 1 .. Width,
             GetField(s, f) \/ \E v \in Operand : ArraySet(s, f, v) \/ StructSet(s, f, v)
      PROVE  Ready
      BY <1>4 DEF GetField, ArraySet, StructSet
<1>5. ASSUME NEW t \in Operand, NEW ops \in Operands, New(t, ops) \/ Store(t, ops)
      PROVE  Ready
      BY <1>5 DEF New, Store
<1>6. ASSUME Reset
      PROVE  Ready
      BY <1>6 DEF Reset
<1>7. QED
      BY <1>1, <1>2, <1>3, <1>4, <1>5, <1>6 DEF Next

LEMMA CollectedInvariant == Spec /\ []NullPermanent => []CollectedInv
<1>1. Init => CollectedInv
      BY DEF Init, CollectedInv
<1>2. HeapInv /\ CollectedInv /\ [Next]_vars => CollectedInv'
  <2> SUFFICES ASSUME HeapInv, CollectedInv, [Next]_vars PROVE CollectedInv'
      OBVIOUS
  <2>1. CASE UNCHANGED vars
        BY <2>1 DEF vars, CollectedInv
  <2>2. QED
        BY <2>1, CollectedStep
<1>3. QED
      BY <1>1, <1>2, HeapInvariant, PTL DEF Spec

\* Every instruction ends, on every object graph: each turn of release's loop, each step
\* of alloc and each turn of mark's loops lowers the bound, in which a field counts once
\* until its object is reclaimed and an object twice until mark has visited it.
THEOREM HeapWorkRunsDown == Spec /\ []NullPermanent => WorkRunsDown
<1>1. HeapInv /\ HeapInv' /\ CollectedInv /\ [Next]_vars => [~Ready => StepsLeft' < StepsLeft]_vars
  <2> SUFFICES ASSUME HeapInv, HeapInv', CollectedInv, Next, ~Ready PROVE StepsLeft' < StepsLeft
      OBVIOUS
  <2>1. Internal
        BY InstructionReady
  <2>2. QED
        BY <2>1, InternalLower
<1>2. QED
      BY <1>1, HeapInvariant, CollectedInvariant, PTL DEF Spec, WorkRunsDown
=============================================================================
