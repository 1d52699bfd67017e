----------------------------- MODULE HeapProofs -----------------------------
(***************************************************************************)
(* No reference dangles, the free list is exact and the collector's checks *)
(* never fire, for every number of slots, addresses and fields, in every   *)
(* behaviour that keeps the null sentinel; and every behaviour keeps it    *)
(* until a second trap is caught, or the first where the host resets.      *)
(***************************************************************************)
EXTENDS HeapCounts

-----------------------------------------------------------------------------
(***************************************************************************)
(* The inductive invariant.                                                *)
(***************************************************************************)
\* The constants and the null sentinel are in place, every object lies below top,
\* and a pending STRUCT_SET names a field of a live object.
ShapeInv ==
    /\ TypeOK
    /\ \A a \in 0 .. Base - 1 : heap[a] = <<>>
    /\ \A a \in Addr : Alive(a) => a < top
    /\ store # NoStore => /\ store.addr \in Addr \ {0} /\ Alive(store.addr)
                          /\ store.field \in 1 .. Len(heap[store.addr])
                          /\ store.val \in Addr

\* Counts cover the owners, and are positive exactly on what is alive.
CoverInv ==
    /\ \A a \in Addr \ {0} : rc[a] >= Owners(a) /\ (Alive(a) <=> rc[a] > 0)
    /\ rc[0] > 0

\* Nothing is left to release while an allocation is under way.
QuietInv ==
    /\ phase # "run" => todo = <<>> /\ work = <<>> /\ store = NoStore
    /\ phase \in {"run", "exhausted"} => pend = NoPend

\* The slot an object will go to is empty, and so are the ones its operands left.
PendInv ==
    phase \in {"place", "scan", "mark", "sweep"} =>
        /\ \E t \in Operand : pend.dst = {t} /\ root[t] = NoRef
        /\ pend.ops = <<>> \/ Len(pend.ops) = Len(pend.obj)
        /\ Apart(pend.ops)
        /\ \A k \in DOMAIN pend.ops : root[pend.ops[k]] = NoRef

\* The free list holds what has been reclaimed below top, each address once.
FreeInv ==
    /\ {free[k] : k \in DOMAIN free} = {a \in 0 .. top - 1 : ~Alive(a)}
    /\ Apart(free)

\* What mark has visited has an owner outside the heap or a visited referrer.
Vouched(a) == rc[a] > InDegree(a) \/ \E e \in EdgesTo(a) : e[1] \in Counted /\ trial[e[1]] < 0

\* What mark has visited and is done with refers only to what it has visited.
TrialInv ==
    phase \in {"mark", "sweep"} =>
        /\ \A a \in Counted : trial[a] >= 0 => trial[a] = rc[a] - InDegree(a)
        /\ grey \subseteq {a \in Counted : trial[a] < 0}
        /\ \A a \in Counted \ grey : trial[a] < 0 =>
              \A k \in DOMAIN heap[a] : heap[a][k] \in Counted => trial[heap[a][k]] < 0
        /\ \A a \in Counted : trial[a] < 0 => Vouched(a)
        /\ phase = "sweep" => grey = {} /\ \A a \in Counted : trial[a] <= 0

HeapInv == ShapeInv /\ CoverInv /\ QuietInv /\ PendInv /\ FreeInv /\ TrialInv /\ CollectorNeverFaults

\* The owners of a, one term per place a reference can be in.
StoreEdge(a) == One(store # NoStore /\ heap[store.addr][store.field] = a)
Total(a) == Roots(root, a) + Cells(heap, a) - StoreEdge(a) + One(a \in Consts) + Count(pend.obj, a)
            + Count(todo, a) + Count(work, a) + One(store.addr = a) + One(store.val = a)

-----------------------------------------------------------------------------
(***************************************************************************)
(* Owners as a sum, and what having an owner means.                        *)
(***************************************************************************)
LEMMA AddrFacts ==
    /\ Limit \in Nat /\ Base \in Nat /\ 1 <= Base /\ Base <= Limit /\ Width \in Nat /\ 1 <= Width
    /\ 0 \in Addr /\ NoRef \notin Addr /\ NoRef \in Int /\ Addr \subseteq Int
    /\ \A a \in Addr : a \in Nat /\ a < Limit
    /\ Consts \subseteq Addr \ {0} /\ 0 .. Base - 1 \subseteq Addr
    /\ IsFiniteSet(Addr) /\ IsFiniteSet(Slot) /\ Operand \subseteq Slot
<1>1. Limit \in Nat /\ Base \in Nat /\ 1 <= Base /\ Base <= Limit /\ Width \in Nat /\ 1 <= Width
      BY HeapAssumption
<1>2. IsFiniteSet(Addr)
      BY <1>1, FS_Interval DEF Addr
<1>3. QED
      BY <1>1, <1>2, HeapAssumption DEF Addr, NoRef, Consts, Operand

\* The heap edges are the cells, without the one STRUCT_SET is about to overwrite.
LEMMA EdgesAreCells ==
    ASSUME ShapeInv, NEW a \in Addr
    PROVE  EdgesTo(a) = CellsOf(heap, a) \ (IF store = NoStore THEN {} ELSE {<<store.addr, store.field>>})
<1> USE DEF ShapeInv, TypeOK
<1>1. ASSUME NEW e \in CellsOf(heap, a)
      PROVE  e[1] \in Live /\ e[2] \in 1 .. Width /\ e[2] <= Len(heap[e[1]]) /\ e[1] \in Addr
             /\ e = <<e[1], e[2]>> /\ heap[e[1]][e[2]] = a
  <2>1. e[1] \in Addr /\ e[2] \in 1 .. Width /\ e[2] \in DOMAIN heap[e[1]] /\ heap[e[1]][e[2]] = a
        /\ e = <<e[1], e[2]>>
        BY DEF CellsOf
  <2>2. heap[e[1]] \in Object \cup {Nil}
        BY <2>1
  <2>3. DOMAIN heap[e[1]] = 1 .. Len(heap[e[1]]) /\ Len(heap[e[1]]) \in 0 .. Width
        BY <2>2, ObjectSeq
  <2>4. heap[e[1]] # Nil
    <3>1. SUFFICES ASSUME heap[e[1]] = Nil PROVE FALSE
          OBVIOUS
    <3>2. e[2] = 1 /\ heap[e[1]][1] = -1
          BY <3>1, <2>1 DEF Nil
    <3>3. QED
          BY <3>2, <2>1, AddrFacts DEF NoRef
  <2>5. e[1] < top /\ e[1] \in Nat
        BY <2>1, <2>4, AddrFacts DEF Alive
  <2>6. e[1] \in Live
        BY <2>4, <2>5, AddrFacts DEF Live, Alive
  <2>7. QED
        BY <2>1, <2>3, <2>6
<1>2. ASSUME NEW e \in EdgesTo(a)
      PROVE  e \in CellsOf(heap, a) /\ ~(e[1] = store.addr /\ e[2] = store.field) /\ e = <<e[1], e[2]>>
  <2>1. e \in Live \X (1 .. Width) /\ e[2] <= Len(heap[e[1]]) /\ heap[e[1]][e[2]] = a
        /\ ~(e[1] = store.addr /\ e[2] = store.field)
        BY DEF EdgesTo, Edges
  <2>2. e[1] \in Addr
        BY <2>1, AddrFacts DEF Live, Addr
  <2>3. heap[e[1]] \in Object \cup {Nil}
        BY <2>2
  <2>4. DOMAIN heap[e[1]] = 1 .. Len(heap[e[1]]) /\ Len(heap[e[1]]) \in 0 .. Width
        BY <2>3, ObjectSeq
  <2>5. QED
        BY <2>1, <2>2, <2>4 DEF CellsOf
<1>3. ASSUME NEW e \in CellsOf(heap, a), ~(e[1] = store.addr /\ e[2] = store.field)
      PROVE  e \in EdgesTo(a)
  <2>1. /\ e[1] \in Live /\ e[2] \in 1 .. Width /\ e[2] <= Len(heap[e[1]])
        /\ e = <<e[1], e[2]>> /\ heap[e[1]][e[2]] = a
        BY <1>1
  <2>2. e \in Live \X (1 .. Width)
        BY <2>1
  <2>3. QED
        BY <2>1, <2>2, <1>3 DEF EdgesTo, Edges
<1>4. CASE store = NoStore
  <2>1. store.addr \notin Addr
        BY <1>4, AddrFacts DEF NoStore
  <2>2. \A e : e \in EdgesTo(a) <=> e \in CellsOf(heap, a)
        BY <2>1, <1>1, <1>2, <1>3
  <2>3. QED
        BY <2>2, <1>4
<1>5. CASE store # NoStore
  <2>1. \A e : e \in EdgesTo(a) <=> e \in CellsOf(heap, a) \ {<<store.addr, store.field>>}
        BY <1>1, <1>2, <1>3
  <2>2. QED
        BY <2>1, <1>5
<1>6. QED
      BY <1>4, <1>5

LEMMA EdgeCount ==
    ASSUME ShapeInv, NEW a \in Addr
    PROVE  /\ Cardinality(EdgesTo(a)) = Cells(heap, a) - StoreEdge(a)
           /\ Cardinality(EdgesTo(a)) \in Nat /\ StoreEdge(a) \in Nat /\ IsFiniteSet(EdgesTo(a))
<1>1. IsFiniteSet(CellsOf(heap, a)) /\ Cells(heap, a) \in Nat
      BY CellsType
<1>2. EdgesTo(a) \subseteq CellsOf(heap, a)
      BY EdgesAreCells
<1>3. IsFiniteSet(EdgesTo(a)) /\ Cardinality(EdgesTo(a)) \in Nat
      BY <1>1, <1>2, FS_Subset, FS_CardinalityType
<1>4. CASE store = NoStore
  <2>1. StoreEdge(a) = 0 /\ EdgesTo(a) = CellsOf(heap, a)
        BY <1>4, EdgesAreCells DEF StoreEdge, One
  <2>2. QED
        BY <2>1, <1>1, <1>3 DEF Cells
<1>5. CASE store # NoStore
  <2> DEFINE d == <<store.addr, store.field>>
  <2>1. EdgesTo(a) = CellsOf(heap, a) \ {d}
        BY <1>5, EdgesAreCells
  <2>2. d \in CellsOf(heap, a) <=> heap[store.addr][store.field] = a
    <3>1. store.addr \in Addr /\ store.field \in 1 .. Len(heap[store.addr])
          BY <1>5 DEF ShapeInv
    <3>2. heap[store.addr] \in Object \cup {Nil}
          BY <3>1 DEF ShapeInv, TypeOK
    <3>3. DOMAIN heap[store.addr] = 1 .. Len(heap[store.addr]) /\ Len(heap[store.addr]) \in 0 .. Width
          BY <3>2, ObjectSeq
    <3>4. QED
          BY <3>1, <3>3, AddrFacts DEF CellsOf
  <2>3. Cardinality(CellsOf(heap, a) \ {d}) = IF d \in CellsOf(heap, a)
                                                THEN Cells(heap, a) - 1 ELSE Cells(heap, a)
        BY <1>1, FS_RemoveElement DEF Cells
  <2>4. QED
        BY <2>1, <2>2, <2>3, <1>1, <1>3, <1>5 DEF StoreEdge, One
<1>6. QED
      BY <1>4, <1>5

LEMMA PartTypes ==
    ASSUME ShapeInv, NEW a
    PROVE  /\ Roots(root, a) \in Nat /\ Cells(heap, a) \in Nat /\ StoreEdge(a) \in Nat
           /\ Count(pend.obj, a) \in Nat /\ Count(todo, a) \in Nat /\ Count(work, a) \in Nat
           /\ pend.obj \in Seq(Addr) /\ todo \in Seq(Addr) /\ work \in Seq(Addr)
<1>1. pend.obj \in Object
      BY DEF ShapeInv, TypeOK
<1>2. pend.obj \in Seq(Addr)
      BY <1>1, ObjectSeq
<1>3. StoreEdge(a) \in Nat
      BY DEF StoreEdge, One
<1>4. QED
      BY <1>2, <1>3, RootsType, CellsType, CountType DEF ShapeInv, TypeOK

LEMMA OwnersTotal ==
    ShapeInv => \A a \in Addr : Owners(a) = Total(a) /\ Owners(a) \in Nat
<1> SUFFICES ASSUME ShapeInv, NEW a \in Addr
             PROVE  Owners(a) = Total(a) /\ Owners(a) \in Nat
    OBVIOUS
<1>1. Cardinality(EdgesTo(a)) = Cells(heap, a) - StoreEdge(a) /\ Cardinality(EdgesTo(a)) \in Nat
      BY EdgeCount
<1>2. /\ Roots(root, a) \in Nat /\ Cells(heap, a) \in Nat /\ StoreEdge(a) \in Nat
      /\ Count(pend.obj, a) \in Nat /\ Count(todo, a) \in Nat /\ Count(work, a) \in Nat
      BY PartTypes
<1>3. Owners(a) = Roots(root, a) + Cardinality(EdgesTo(a)) + One(a \in Consts) + Count(pend.obj, a)
                  + Count(todo, a) + Count(work, a) + One(store.addr = a) + One(store.val = a)
      BY DEF Owners, Roots
<1>4. QED
      BY <1>1, <1>2, <1>3 DEF Total, One

\* Whatever has an owner is alive.
LEMMA Held ==
    ASSUME ShapeInv, CoverInv, NEW a \in Addr \ {0}, Total(a) > 0
    PROVE  Alive(a) /\ rc[a] \in Nat /\ rc[a] > 0 /\ a < top /\ rc[a] >= Total(a)
           /\ heap[a] \in Object /\ heap[a] \in Seq(Addr) /\ DOMAIN heap[a] = 1 .. Len(heap[a])
           /\ Len(heap[a]) \in 0 .. Width
<1>1. Owners(a) = Total(a) /\ Owners(a) \in Nat
      BY OwnersTotal
<1>2. rc[a] \in Nat /\ rc[a] >= Total(a)
      BY <1>1 DEF CoverInv, ShapeInv, TypeOK
<1>3. rc[a] > 0
      BY <1>1, <1>2
<1>4. Alive(a) /\ a < top
      BY <1>3 DEF CoverInv, ShapeInv
<1>5. heap[a] \in Object \cup {Nil} /\ heap[a] # Nil
      BY <1>4 DEF ShapeInv, TypeOK, Alive
<1>6. QED
      BY <1>2, <1>3, <1>4, <1>5, ObjectSeq

LEMMA RootHeld ==
    ASSUME ShapeInv, CoverInv, NEW s \in Slot, root[s] \notin {0, NoRef}
    PROVE  /\ root[s] \in Addr \ {0} /\ Alive(root[s]) /\ rc[root[s]] > 0 /\ root[s] < top
           /\ heap[root[s]] \in Object /\ heap[root[s]] \in Seq(Addr)
           /\ DOMAIN heap[root[s]] = 1 .. Len(heap[root[s]]) /\ Len(heap[root[s]]) \in 0 .. Width
<1>1. root[s] \in Addr \ {0}
      BY DEF ShapeInv, TypeOK
<1>2. Roots(root, root[s]) >= 1
      BY RootsHolds
<1>3. Total(root[s]) > 0
  <2>1. Owners(root[s]) = Total(root[s]) /\ Cardinality(EdgesTo(root[s])) = Cells(heap, root[s]) - StoreEdge(root[s])
        /\ Cardinality(EdgesTo(root[s])) \in Nat
        BY <1>1, OwnersTotal, EdgeCount
  <2>2. /\ Roots(root, root[s]) \in Nat /\ Cells(heap, root[s]) \in Nat /\ StoreEdge(root[s]) \in Nat
        /\ Count(pend.obj, root[s]) \in Nat /\ Count(todo, root[s]) \in Nat /\ Count(work, root[s]) \in Nat
        BY PartTypes
  <2>3. QED
        BY <1>2, <2>1, <2>2 DEF Total, One
<1>4. QED
      BY <1>1, <1>3, Held

\* An address whose release is still to come: its count covers that release, and
\* what else owns it.
LEMMA ReleaseHeld ==
    ASSUME ShapeInv, CoverInv, NEW a \in Addr, Count(todo, a) + Count(work, a) >= 1
    PROVE  /\ rc[a] \in Nat /\ rc[a] > 0 /\ a < top /\ Alive(a)
           /\ heap[a] \in Object /\ heap[a] \in Seq(Addr)
           /\ a # 0 => rc[a] >= Total(a)
           /\ rc[a] = 1 /\ a # 0 => a \notin Consts /\ store.addr # a
<1>1. CASE a = 0
  <2>1. heap[0] = <<>>
        BY AddrFacts DEF ShapeInv
  <2>2. rc[0] \in Nat /\ rc[0] > 0 /\ 0 < top /\ Len(heap[0]) = 0
        BY <2>1, AddrFacts DEF ShapeInv, TypeOK, CoverInv
  <2>3. heap[0] # Nil
        BY <2>1 DEF Nil
  <2>4. heap[0] \in Object \cup {Nil}
        BY AddrFacts DEF ShapeInv, TypeOK
  <2>5. heap[0] \in Object /\ heap[0] \in Seq(Addr)
        BY <2>3, <2>4, ObjectSeq
  <2>6. QED
        BY <1>1, <2>2, <2>3, <2>5 DEF Alive
<1>2. CASE a # 0
  <2>1. /\ Owners(a) = Total(a) /\ Cardinality(EdgesTo(a)) = Cells(heap, a) - StoreEdge(a)
        /\ Cardinality(EdgesTo(a)) \in Nat
        BY OwnersTotal, EdgeCount
  <2>2. /\ Roots(root, a) \in Nat /\ Cells(heap, a) \in Nat /\ StoreEdge(a) \in Nat
        /\ Count(pend.obj, a) \in Nat /\ Count(todo, a) \in Nat /\ Count(work, a) \in Nat
        BY PartTypes
  <2>3. Total(a) >= 1 + One(a \in Consts) + One(store.addr = a) /\ Total(a) \in Int
        BY <2>1, <2>2 DEF Total, One
  <2>4. Total(a) > 0
        BY <2>3 DEF One
  <2>5. rc[a] \in Nat /\ rc[a] > 0 /\ a < top /\ Alive(a) /\ rc[a] >= Total(a)
        /\ heap[a] \in Object /\ heap[a] \in Seq(Addr)
        BY <1>2, <2>4, Held
  <2>6. rc[a] = 1 => a \notin Consts /\ store.addr # a
        BY <2>3, <2>5 DEF One
  <2>7. QED
        BY <1>2, <2>5, <2>6
<1>3. QED
      BY <1>1, <1>2

\* The releases an instruction queues.
LEMMA BoxCount ==
    ASSUME NEW x \in Addr \cup {NoRef}
    PROVE  /\ BoxRelease(x) \in Seq(Addr)
           /\ \A a \in Addr : Count(BoxRelease(x), a) = One(x = a /\ a # 0)
<1>1. ASSUME x \in {0, NoRef}
      PROVE  BoxRelease(x) = <<>>
      BY <1>1 DEF BoxRelease
<1>2. ASSUME x \notin {0, NoRef}
      PROVE  BoxRelease(x) = <<x>> /\ x \in Addr
      BY <1>2 DEF BoxRelease
<1>3. CASE x \in {0, NoRef}
  <2>1. \A a \in Addr : Count(BoxRelease(x), a) = 0
        BY <1>1, <1>3, CountEmpty
  <2>2. BoxRelease(x) \in Seq(Addr)
    <3>1. BoxRelease(x) = <<>>
          BY <1>1, <1>3
    <3>2. <<>> \in Seq(Addr)
          OBVIOUS
    <3>3. QED
          BY <3>1, <3>2
  <2>3. \A a \in Addr : ~(x = a /\ a # 0)
        BY <1>3, AddrFacts
  <2>4. \A a \in Addr : One(x = a /\ a # 0) = 0
        BY <2>3 DEF One
  <2>5. QED
        BY <2>1, <2>2, <2>4
<1>4. CASE x \notin {0, NoRef}
  <2>1. \A a \in Addr : Count(BoxRelease(x), a) = One(x = a)
        BY <1>2, <1>4, CountSingle
  <2>2. BoxRelease(x) \in Seq(Addr)
    <3>1. BoxRelease(x) = <<x>> /\ x \in Addr
          BY <1>2, <1>4
    <3>2. <<x>> \in Seq(Addr)
          BY <3>1
    <3>3. QED
          BY <3>1, <3>2
  <2>3. \A a \in Addr : One(x = a) = One(x = a /\ a # 0)
        BY <1>4 DEF One
  <2>4. QED
        BY <2>1, <2>2, <2>3
<1>5. QED
      BY <1>3, <1>4

LEMMA RawCount ==
    ASSUME NEW x \in Addr \cup {NoRef}
    PROVE  /\ RawRelease(x) \in Seq(Addr)
           /\ \A a \in Addr : Count(RawRelease(x), a) = One(x = a)
<1>1. CASE x = NoRef
  <2>1. RawRelease(x) = <<>>
        BY <1>1 DEF RawRelease
  <2>2. \A a \in Addr : Count(RawRelease(x), a) = 0
        BY <2>1, CountEmpty
  <2>3. QED
        BY <1>1, <2>1, <2>2, AddrFacts DEF One
<1>2. CASE x # NoRef
  <2>1. RawRelease(x) = <<x>> /\ x \in Addr
        BY <1>2 DEF RawRelease
  <2>2. QED
        BY <2>1, CountSingle
<1>3. QED
      BY <1>1, <1>2

LEMMA RetainCount ==
    ASSUME ShapeInv, NEW x \in Addr
    PROVE  /\ Retained(x) \in [Addr -> Nat]
           /\ \A a \in Addr : Retained(x)[a] = rc[a] + One(a = x) /\ rc[a] \in Nat /\ Retained(x)[a] \in Nat
<1>1. rc \in [Addr -> Nat]
      BY DEF ShapeInv, TypeOK
<1>2. Retained(x) \in [Addr -> Nat]
      BY <1>1 DEF Retained
<1>3. \A a \in Addr : Retained(x)[a] = rc[a] + One(a = x)
      BY <1>1 DEF Retained, One
<1>4. QED
      BY <1>1, <1>2, <1>3

-----------------------------------------------------------------------------
(***************************************************************************)
(* Steps.  Every action keeps the shape and does not let the owners of an  *)
(* address grow faster than its count; the rest follows.                   *)
(***************************************************************************)
LEMMA OwnersTotalNext ==
    ASSUME ShapeInv'
    PROVE  \A a \in Addr : Owners(a)' = Total(a)' /\ Owners(a)' \in Nat
<1>1. (ShapeInv => \A a \in Addr : Owners(a) = Total(a) /\ Owners(a) \in Nat)'
      BY OwnersTotal, PTL
<1>2. QED
      BY <1>1

LEMMA CoverStep ==
    ASSUME ShapeInv, CoverInv, ShapeInv', rc'[0] > 0,
           \A a \in Addr \ {0} : Total(a)' + rc[a] <= Total(a) + rc'[a],
           \A a \in Addr \ {0} : Alive(a)' <=> rc'[a] > 0
    PROVE  CoverInv'
<1>1. ASSUME NEW a \in Addr \ {0}
      PROVE  rc'[a] >= Owners(a)'
  <2>1. Owners(a) = Total(a) /\ Owners(a) \in Nat /\ Owners(a)' = Total(a)' /\ Owners(a)' \in Nat
        BY OwnersTotal, OwnersTotalNext
  <2>2. rc[a] \in Nat /\ rc'[a] \in Nat /\ rc[a] >= Owners(a)
        BY DEF ShapeInv, TypeOK, CoverInv
  <2>3. Total(a)' + rc[a] <= Total(a) + rc'[a]
        OBVIOUS
  <2>4. QED
        BY <2>1, <2>2, <2>3
<1>2. QED
      BY <1>1 DEF CoverInv

\* An instruction that leaves the allocator alone.
LEMMA RunStep ==
    ASSUME HeapInv, ShapeInv', phase' = "run", pend' = NoPend, UNCHANGED <<free, top>>,
           \A a \in Addr \ {0} : Total(a)' + rc[a] <= Total(a) + rc'[a],
           \A a \in Addr : Alive(a)' <=> Alive(a),
           \A a \in Addr : rc'[a] > 0 <=> rc[a] > 0
    PROVE  HeapInv'
<1>1. CoverInv'
  <2>1. rc'[0] > 0
        BY AddrFacts DEF HeapInv, CoverInv
  <2>2. \A a \in Addr \ {0} : Alive(a)' <=> rc'[a] > 0
        BY DEF HeapInv, CoverInv
  <2>3. QED
        BY <2>1, <2>2, CoverStep DEF HeapInv
<1>2. QuietInv' /\ PendInv' /\ TrialInv' /\ CollectorNeverFaults'
      BY DEF QuietInv, PendInv, TrialInv, CollectorNeverFaults
<1>3. FreeInv'
  <2>1. 0 .. top - 1 \subseteq Addr
        BY AddrFacts DEF HeapInv, ShapeInv, TypeOK, Addr
  <2>2. {a \in 0 .. top - 1 : ~Alive(a)} = {a \in 0 .. top' - 1 : ~Alive(a)'}
        BY <2>1
  <2>3. QED
        BY <2>2 DEF HeapInv, FreeInv, Apart
<1>4. QED
      BY <1>1, <1>2, <1>3 DEF HeapInv

\* A move between slots and the releases of the instruction.
LEMMA MoveTotal ==
    ASSUME ShapeInv, Ready, UNCHANGED <<heap, work, store, pend>>, NEW a \in Addr,
           Count(todo', a) \in Nat, rc'[a] \in Nat
    PROVE  /\ Roots(root', a) + Count(todo', a) + rc[a] <= Roots(root, a) + rc'[a]
                => Total(a)' + rc[a] <= Total(a) + rc'[a]
           /\ Roots(root', a) + Count(todo', a) + rc[a] = Roots(root, a) + rc'[a]
                => Total(a)' + rc[a] = Total(a) + rc'[a]
<1>1. Count(todo, a) = 0
      BY CountEmpty DEF Ready
<1>2. /\ Roots(root, a) \in Nat /\ Cells(heap, a) \in Nat /\ StoreEdge(a) \in Nat
      /\ Count(pend.obj, a) \in Nat /\ Count(todo, a) \in Nat /\ Count(work, a) \in Nat
      BY PartTypes
<1>3. Roots(root', a) \in Nat
      BY RootsType
<1>4. StoreEdge(a)' = StoreEdge(a)
      BY DEF StoreEdge
<1>5. /\ Total(a)' = Roots(root', a) + Cells(heap, a) - StoreEdge(a) + One(a \in Consts) + Count(pend.obj, a)
              + Count(todo', a) + Count(work, a) + One(store.addr = a) + One(store.val = a)
      /\ Total(a) = Roots(root, a) + Cells(heap, a) - StoreEdge(a) + One(a \in Consts) + Count(pend.obj, a)
              + Count(todo, a) + Count(work, a) + One(store.addr = a) + One(store.val = a)
      BY <1>4 DEF Total
<1>6. rc[a] \in Nat
      BY DEF ShapeInv, TypeOK
<1>7. QED
      BY <1>1, <1>2, <1>3, <1>5, <1>6 DEF One

\* Counts, owners and their balance across a step: Covering says that no address
\* gains more owners than counts, Exact that apart from null none gains or loses.
Covering == \A a \in Addr : Total(a)' + rc[a] <= Total(a) + rc'[a]
Exact == \A a \in Addr \ {0} : Total(a)' + rc[a] = Total(a) + rc'[a]

\* The same, for a step that only moves references between slots and releases.
MoveCovering == \A a \in Addr : Roots(root', a) + Count(todo', a) + rc[a] <= Roots(root, a) + rc'[a]
MoveExact == \A a \in Addr \ {0} : Roots(root', a) + Count(todo', a) + rc[a] = Roots(root, a) + rc'[a]

LEMMA MoveStep ==
    ASSUME HeapInv, Ready, UNCHANGED <<heap, memVars, store, work, gcVars, traps>>,
           root' \in [Slot -> Addr \cup {NoRef}], rc' \in [Addr -> Nat], todo' \in Seq(Addr),
           MoveCovering, \A a \in Addr : rc'[a] > 0 <=> rc[a] > 0
    PROVE  HeapInv' /\ Covering /\ (MoveExact => Exact)
<1>1. ShapeInv'
      BY DEF HeapInv, ShapeInv, TypeOK, memVars, gcVars, Alive
<1>2. ASSUME NEW a \in Addr
      PROVE  /\ Total(a)' + rc[a] <= Total(a) + rc'[a]
             /\ MoveExact /\ a # 0 => Total(a)' + rc[a] = Total(a) + rc'[a]
  <2>1. Count(todo', a) \in Nat
        BY CountType
  <2>2. rc'[a] \in Nat
        OBVIOUS
  <2>3. Roots(root', a) + Count(todo', a) + rc[a] <= Roots(root, a) + rc'[a]
        BY DEF MoveCovering
  <2>4. MoveExact /\ a # 0 => Roots(root', a) + Count(todo', a) + rc[a] = Roots(root, a) + rc'[a]
        BY DEF MoveExact
  <2>5. UNCHANGED <<heap, work, store, pend>> /\ ShapeInv
        BY DEF HeapInv, gcVars
  <2>6. QED
        BY <2>1, <2>2, <2>3, <2>4, <2>5, MoveTotal
<1>3. Covering /\ (MoveExact => Exact)
      BY <1>2 DEF Covering, Exact
<1>4. phase' = "run" /\ pend' = NoPend /\ UNCHANGED <<free, top>> /\ \A a \in Addr : Alive(a)' <=> Alive(a)
      BY DEF HeapInv, QuietInv, Ready, gcVars, memVars, Alive
<1>5. HeapInv'
      BY <1>1, <1>3, <1>4, RunStep DEF Covering
<1>6. QED
      BY <1>3, <1>5

LEMMA ConstHeld ==
    ASSUME ShapeInv, CoverInv, NEW c \in Consts
    PROVE  rc[c] > 0 /\ Alive(c)
<1>1. c \in Addr \ {0} /\ heap[c] = <<>>
      BY AddrFacts DEF ShapeInv, Consts
<1>2. heap[c] # Nil
      BY <1>1 DEF Nil
<1>3. QED
      BY <1>1, <1>2 DEF CoverInv, Alive

LEMMA CellOwns ==
    ASSUME NEW b, Cells(heap, b) \in Nat, Cells(heap, b) >= 1, StoreEdge(b) = 0, Roots(root, b) \in Nat,
           Count(pend.obj, b) \in Nat, Count(todo, b) \in Nat, Count(work, b) \in Nat
    PROVE  Total(b) > 0
  BY DEF Total, One

\* A field of an object that a slot refers to names a live object, or null.
LEMMA FieldHeld ==
    ASSUME ShapeInv, CoverInv, Ready, NEW s \in Slot, root[s] \notin {0, NoRef},
           NEW f \in 1 .. Width, f <= Len(heap[root[s]])
    PROVE  heap[root[s]][f] \in Addr /\ rc[heap[root[s]][f]] > 0
<1> DEFINE c == root[s]
           b == heap[c][f]
<1>1. c \in Addr \ {0} /\ Alive(c) /\ heap[c] \in Seq(Addr) /\ DOMAIN heap[c] = 1 .. Len(heap[c]) /\ Len(heap[c]) \in 0 .. Width
      BY RootHeld
<1>2. f \in DOMAIN heap[c] /\ b \in Addr
      BY <1>1
<1>3. CASE b = 0
      BY <1>2, <1>3 DEF CoverInv
<1>4. CASE b # 0
  <2>1. <<c, f>> \in CellsOf(heap, b)
        BY <1>1, <1>2 DEF CellsOf
  <2>2. Cells(heap, b) >= 1
    <3>1. IsFiniteSet(CellsOf(heap, b)) /\ Cells(heap, b) \in Nat
          BY CellsType
    <3>2. Cells(heap, b) # 0
          BY <3>1, <2>1, FS_EmptySet DEF Cells
    <3>3. QED
          BY <3>1, <3>2
  <2>3. StoreEdge(b) = 0
        BY DEF StoreEdge, Ready, One
  <2>4. /\ Roots(root, b) \in Nat /\ Cells(heap, b) \in Nat
        /\ Count(pend.obj, b) \in Nat /\ Count(todo, b) \in Nat /\ Count(work, b) \in Nat
        BY PartTypes
  <2>5. Total(b) > 0
    <3> HIDE DEF b
    <3>1. QED
          BY <2>2, <2>3, <2>4, CellOwns, Zenon
  <2>6. QED
        BY <1>2, <1>4, <2>5, Held
<1>5. QED
      BY <1>3, <1>4

LEMMA SetCount ==
    ASSUME NEW x \in Addr \cup {NoRef}, NEW y
    PROVE  /\ (IF x # y THEN BoxRelease(x) ELSE <<>>) \in Seq(Addr)
           /\ \A a \in Addr : Count(IF x # y THEN BoxRelease(x) ELSE <<>>, a) = One(x = a /\ a # 0 /\ x # y)
<1>1. CASE x # y
  <2>1. \A a \in Addr : One(x = a /\ a # 0) = One(x = a /\ a # 0 /\ x # y)
        BY <1>1 DEF One
  <2>2. QED
        BY <1>1, <2>1, BoxCount
<1>2. CASE x = y
  <2>1. \A a \in Addr : One(x = a /\ a # 0 /\ x # y) = 0
        BY <1>2 DEF One
  <2>2. QED
        BY <1>2, <2>1, CountEmpty
<1>3. QED
      BY <1>1, <1>2

\* REF_NULL counts the null it pushes.
LEMMA RefNullStep ==
    ASSUME HeapInv, NEW t \in Operand, RefNull(t)
    PROVE  HeapInv' /\ Covering /\ Exact
<1>1. ShapeInv /\ CoverInv /\ Ready /\ root \in [Slot -> Addr \cup {NoRef}]
      BY DEF HeapInv, ShapeInv, TypeOK, RefNull
<1>2. t \in Slot /\ 0 \in Addr /\ rc[0] > 0
      BY <1>1, AddrFacts DEF CoverInv
<1>3. /\ root' \in [Slot -> Addr \cup {NoRef}]
      /\ root[t] = NoRef /\ root'[t] = 0 /\ \A x \in Slot \ {t} : root'[x] = root[x]
      BY <1>1, <1>2, AddrFacts DEF RefNull
<1>4. /\ rc' \in [Addr -> Nat]
      /\ \A a \in Addr : rc'[a] = rc[a] + One(a = 0) /\ rc[a] \in Nat /\ rc'[a] \in Nat
  <2>1. rc' = Retained(0)
        BY DEF RefNull
  <2>2. QED
        BY <1>1, <1>2, <2>1, RetainCount
<1>5. /\ todo' \in Seq(Addr)
      /\ \A a \in Addr : Count(todo', a) = 0
      BY <1>1, CountEmpty DEF RefNull, relVars, Ready
<1>6. ASSUME NEW a \in Addr
      PROVE  /\ Roots(root', a) + Count(todo', a) + rc[a] <= Roots(root, a) + rc'[a]
             /\ a # 0 => Roots(root', a) + Count(todo', a) + rc[a] = Roots(root, a) + rc'[a]
  <2>1. Roots(root', a) + One(root[t] = a) = Roots(root, a) + One(root'[t] = a)
        BY <1>1, <1>2, <1>3, RootsUpdate
  <2>2. Roots(root', a) \in Nat /\ Roots(root, a) \in Nat /\ rc[a] \in Nat /\ rc'[a] = rc[a] + One(a = 0) /\ NoRef # a
        BY <1>4, RootsType, AddrFacts
  <2>3. Count(todo', a) = 0
        BY <1>5
  <2>4. root[t] = NoRef /\ root'[t] = 0
        BY <1>3
  <2>5. QED
        BY <1>2, <2>1, <2>2, <2>3, <2>4 DEF One
<1>7. MoveCovering /\ MoveExact
      BY <1>6 DEF MoveCovering, MoveExact
<1>8. \A a \in Addr : rc'[a] > 0 <=> rc[a] > 0
      BY <1>2, <1>4, AddrFacts DEF One
<1>9. UNCHANGED <<heap, memVars, store, work, gcVars, traps>>
      BY DEF RefNull, relVars
<1>10. QED
      BY <1>1, <1>3, <1>4, <1>5, <1>7, <1>8, <1>9, MoveStep

\* DUP and the loads retain what they copy.
LEMMA DupStep ==
    ASSUME HeapInv, NEW s \in Slot, NEW t \in Operand, Dup(s, t)
    PROVE  HeapInv' /\ Covering /\ Exact
<1>1. ShapeInv /\ CoverInv /\ Ready /\ root \in [Slot -> Addr \cup {NoRef}]
      BY DEF HeapInv, ShapeInv, TypeOK, Dup
<1>2. t \in Slot /\ root[s] \in Addr /\ rc[root[s]] > 0
      BY <1>1, AddrFacts, RootHeld DEF CoverInv, Dup
<1>3. /\ root' \in [Slot -> Addr \cup {NoRef}]
      /\ root[t] = NoRef /\ root'[t] = root[s] /\ \A x \in Slot \ {t} : root'[x] = root[x]
      BY <1>1, <1>2, AddrFacts DEF Dup
<1>4. /\ rc' \in [Addr -> Nat]
      /\ \A a \in Addr : rc'[a] = rc[a] + One(a = root[s]) /\ rc[a] \in Nat /\ rc'[a] \in Nat
  <2>1. rc' = Retained(root[s])
        BY DEF Dup
  <2>2. QED
        BY <1>1, <1>2, <2>1, RetainCount
<1>5. /\ todo' \in Seq(Addr)
      /\ \A a \in Addr : Count(todo', a) = 0
      BY <1>1, CountEmpty DEF Dup, relVars, Ready
<1>6. ASSUME NEW a \in Addr
      PROVE  /\ Roots(root', a) + Count(todo', a) + rc[a] <= Roots(root, a) + rc'[a]
             /\ a # 0 => Roots(root', a) + Count(todo', a) + rc[a] = Roots(root, a) + rc'[a]
  <2>1. Roots(root', a) + One(root[t] = a) = Roots(root, a) + One(root'[t] = a)
        BY <1>1, <1>2, <1>3, RootsUpdate
  <2>2. Roots(root', a) \in Nat /\ Roots(root, a) \in Nat /\ rc[a] \in Nat /\ rc'[a] = rc[a] + One(a = root[s]) /\ NoRef # a
        BY <1>4, RootsType, AddrFacts
  <2>3. Count(todo', a) = 0
        BY <1>5
  <2>4. root[t] = NoRef /\ root'[t] = root[s]
        BY <1>3
  <2>5. QED
        BY <1>2, <2>1, <2>2, <2>3, <2>4 DEF One
<1>7. MoveCovering /\ MoveExact
      BY <1>6 DEF MoveCovering, MoveExact
<1>8. \A a \in Addr : rc'[a] > 0 <=> rc[a] > 0
      BY <1>2, <1>4, AddrFacts DEF One
<1>9. UNCHANGED <<heap, memVars, store, work, gcVars, traps>>
      BY DEF Dup, relVars
<1>10. QED
      BY <1>1, <1>3, <1>4, <1>5, <1>7, <1>8, <1>9, MoveStep

\* CONST_GET retains the constant.
LEMMA ConstGetStep ==
    ASSUME HeapInv, NEW c \in Consts, NEW t \in Operand, ConstGet(c, t)
    PROVE  HeapInv' /\ Covering /\ Exact
<1>1. ShapeInv /\ CoverInv /\ Ready /\ root \in [Slot -> Addr \cup {NoRef}]
      BY DEF HeapInv, ShapeInv, TypeOK, ConstGet
<1>2. t \in Slot /\ c \in Addr /\ rc[c] > 0
      BY <1>1, AddrFacts, ConstHeld
<1>3. /\ root' \in [Slot -> Addr \cup {NoRef}]
      /\ root[t] = NoRef /\ root'[t] = c /\ \A x \in Slot \ {t} : root'[x] = root[x]
      BY <1>1, <1>2, AddrFacts DEF ConstGet
<1>4. /\ rc' \in [Addr -> Nat]
      /\ \A a \in Addr : rc'[a] = rc[a] + One(a = c) /\ rc[a] \in Nat /\ rc'[a] \in Nat
  <2>1. rc' = Retained(c)
        BY DEF ConstGet
  <2>2. QED
        BY <1>1, <1>2, <2>1, RetainCount
<1>5. /\ todo' \in Seq(Addr)
      /\ \A a \in Addr : Count(todo', a) = 0
      BY <1>1, CountEmpty DEF ConstGet, relVars, Ready
<1>6. ASSUME NEW a \in Addr
      PROVE  /\ Roots(root', a) + Count(todo', a) + rc[a] <= Roots(root, a) + rc'[a]
             /\ a # 0 => Roots(root', a) + Count(todo', a) + rc[a] = Roots(root, a) + rc'[a]
  <2>1. Roots(root', a) + One(root[t] = a) = Roots(root, a) + One(root'[t] = a)
        BY <1>1, <1>2, <1>3, RootsUpdate
  <2>2. Roots(root', a) \in Nat /\ Roots(root, a) \in Nat /\ rc[a] \in Nat /\ rc'[a] = rc[a] + One(a = c) /\ NoRef # a
        BY <1>4, RootsType, AddrFacts
  <2>3. Count(todo', a) = 0
        BY <1>5
  <2>4. root[t] = NoRef /\ root'[t] = c
        BY <1>3
  <2>5. QED
        BY <1>2, <2>1, <2>2, <2>3, <2>4 DEF One
<1>7. MoveCovering /\ MoveExact
      BY <1>6 DEF MoveCovering, MoveExact
<1>8. \A a \in Addr : rc'[a] > 0 <=> rc[a] > 0
      BY <1>2, <1>4, AddrFacts DEF One
<1>9. UNCHANGED <<heap, memVars, store, work, gcVars, traps>>
      BY DEF ConstGet, relVars
<1>10. QED
      BY <1>1, <1>3, <1>4, <1>5, <1>7, <1>8, <1>9, MoveStep

\* DROP queues one release, or none for a null.
LEMMA DropStep ==
    ASSUME HeapInv, NEW s \in Operand, Drop(s)
    PROVE  HeapInv' /\ Covering /\ Exact
<1>1. ShapeInv /\ CoverInv /\ Ready /\ root \in [Slot -> Addr \cup {NoRef}]
      BY DEF HeapInv, ShapeInv, TypeOK, Drop
<1>2. s \in Slot /\ root[s] \in Addr
      BY <1>1, AddrFacts DEF Drop
<1>3. /\ root' \in [Slot -> Addr \cup {NoRef}]
      /\ root'[s] = NoRef /\ \A x \in Slot \ {s} : root'[x] = root[x]
      BY <1>1, <1>2, AddrFacts DEF Drop
<1>4. rc' \in [Addr -> Nat] /\ \A a \in Addr : rc'[a] = rc[a] /\ rc[a] \in Nat /\ rc'[a] \in Nat
      BY <1>1 DEF Drop, ShapeInv, TypeOK
<1>5. /\ todo' \in Seq(Addr)
      /\ \A a \in Addr : Count(todo', a) = One(root[s] = a /\ a # 0)
      BY <1>2, BoxCount DEF Drop
<1>6. ASSUME NEW a \in Addr
      PROVE  /\ Roots(root', a) + Count(todo', a) + rc[a] <= Roots(root, a) + rc'[a]
             /\ a # 0 => Roots(root', a) + Count(todo', a) + rc[a] = Roots(root, a) + rc'[a]
  <2>1. Roots(root', a) + One(root[s] = a) = Roots(root, a) + One(root'[s] = a)
        BY <1>1, <1>2, <1>3, RootsUpdate
  <2>2. Roots(root', a) \in Nat /\ Roots(root, a) \in Nat /\ rc[a] \in Nat /\ rc'[a] = rc[a] /\ NoRef # a
        BY <1>4, RootsType, AddrFacts
  <2>3. Count(todo', a) = One(root[s] = a /\ a # 0)
        BY <1>5
  <2>4. root'[s] = NoRef
        BY <1>3
  <2>5. QED
        BY <1>2, <2>1, <2>2, <2>3, <2>4 DEF One
<1>7. MoveCovering /\ MoveExact
      BY <1>6 DEF MoveCovering, MoveExact
<1>8. \A a \in Addr : rc'[a] > 0 <=> rc[a] > 0
      BY <1>4
<1>9. UNCHANGED <<heap, memVars, store, work, gcVars, traps>>
      BY DEF Drop, relVars
<1>10. QED
      BY <1>1, <1>3, <1>4, <1>5, <1>7, <1>8, <1>9, MoveStep

\* Pop and Release queue one release.
LEMMA HostReleaseStep ==
    ASSUME HeapInv, NEW s \in Operand, HostRelease(s)
    PROVE  HeapInv' /\ Covering /\ Exact
<1>1. ShapeInv /\ CoverInv /\ Ready /\ root \in [Slot -> Addr \cup {NoRef}]
      BY DEF HeapInv, ShapeInv, TypeOK, HostRelease
<1>2. s \in Slot /\ root[s] \in Addr
      BY <1>1, AddrFacts DEF HostRelease
<1>3. /\ root' \in [Slot -> Addr \cup {NoRef}]
      /\ root'[s] = NoRef /\ \A x \in Slot \ {s} : root'[x] = root[x]
      BY <1>1, <1>2, AddrFacts DEF HostRelease
<1>4. rc' \in [Addr -> Nat] /\ \A a \in Addr : rc'[a] = rc[a] /\ rc[a] \in Nat /\ rc'[a] \in Nat
      BY <1>1 DEF HostRelease, ShapeInv, TypeOK
<1>5. /\ todo' \in Seq(Addr)
      /\ \A a \in Addr : Count(todo', a) = One(root[s] = a)
      BY <1>2, RawCount DEF HostRelease
<1>6. ASSUME NEW a \in Addr
      PROVE  /\ Roots(root', a) + Count(todo', a) + rc[a] <= Roots(root, a) + rc'[a]
             /\ a # 0 => Roots(root', a) + Count(todo', a) + rc[a] = Roots(root, a) + rc'[a]
  <2>1. Roots(root', a) + One(root[s] = a) = Roots(root, a) + One(root'[s] = a)
        BY <1>1, <1>2, <1>3, RootsUpdate
  <2>2. Roots(root', a) \in Nat /\ Roots(root, a) \in Nat /\ rc[a] \in Nat /\ rc'[a] = rc[a] /\ NoRef # a
        BY <1>4, RootsType, AddrFacts
  <2>3. Count(todo', a) = One(root[s] = a)
        BY <1>5
  <2>4. root'[s] = NoRef
        BY <1>3
  <2>5. QED
        BY <1>2, <2>1, <2>2, <2>3, <2>4 DEF One
<1>7. MoveCovering /\ MoveExact
      BY <1>6 DEF MoveCovering, MoveExact
<1>8. \A a \in Addr : rc'[a] > 0 <=> rc[a] > 0
      BY <1>4
<1>9. UNCHANGED <<heap, memVars, store, work, gcVars, traps>>
      BY DEF HostRelease, relVars
<1>10. QED
      BY <1>1, <1>3, <1>4, <1>5, <1>7, <1>8, <1>9, MoveStep

\* LOCAL_TEE retains the operand and releases what the slot held.
LEMMA TeeSlotStep ==
    ASSUME HeapInv, NEW s \in Slot, NEW v \in Operand, TeeSlot(s, v)
    PROVE  HeapInv' /\ Covering /\ Exact
<1>1. ShapeInv /\ CoverInv /\ Ready /\ root \in [Slot -> Addr \cup {NoRef}]
      BY DEF HeapInv, ShapeInv, TypeOK, TeeSlot
<1>2. root[v] \in Addr /\ rc[root[v]] > 0 /\ root[s] \in Addr \cup {NoRef}
      BY <1>1, AddrFacts, RootHeld DEF CoverInv, TeeSlot
<1>3. /\ root' \in [Slot -> Addr \cup {NoRef}]
      /\ root'[s] = root[v] /\ \A x \in Slot \ {s} : root'[x] = root[x]
      BY <1>1, <1>2, AddrFacts DEF TeeSlot
<1>4. /\ rc' \in [Addr -> Nat]
      /\ \A a \in Addr : rc'[a] = rc[a] + One(a = root[v]) /\ rc[a] \in Nat /\ rc'[a] \in Nat
  <2>1. rc' = Retained(root[v])
        BY DEF TeeSlot
  <2>2. QED
        BY <1>1, <1>2, <2>1, RetainCount
<1>5. /\ todo' \in Seq(Addr)
      /\ \A a \in Addr : Count(todo', a) = One(root[s] = a /\ a # 0)
      BY <1>2, BoxCount DEF TeeSlot
<1>6. ASSUME NEW a \in Addr
      PROVE  /\ Roots(root', a) + Count(todo', a) + rc[a] <= Roots(root, a) + rc'[a]
             /\ a # 0 => Roots(root', a) + Count(todo', a) + rc[a] = Roots(root, a) + rc'[a]
  <2>1. Roots(root', a) + One(root[s] = a) = Roots(root, a) + One(root'[s] = a)
        BY <1>1, <1>2, <1>3, RootsUpdate
  <2>2. Roots(root', a) \in Nat /\ Roots(root, a) \in Nat /\ rc[a] \in Nat /\ rc'[a] = rc[a] + One(a = root[v]) /\ NoRef # a
        BY <1>4, RootsType, AddrFacts
  <2>3. Count(todo', a) = One(root[s] = a /\ a # 0)
        BY <1>5
  <2>4. root'[s] = root[v]
        BY <1>3
  <2>5. QED
        BY <1>2, <2>1, <2>2, <2>3, <2>4 DEF One
<1>7. MoveCovering /\ MoveExact
      BY <1>6 DEF MoveCovering, MoveExact
<1>8. \A a \in Addr : rc'[a] > 0 <=> rc[a] > 0
      BY <1>2, <1>4, AddrFacts DEF One
<1>9. UNCHANGED <<heap, memVars, store, work, gcVars, traps>>
      BY DEF TeeSlot, relVars
<1>10. QED
      BY <1>1, <1>3, <1>4, <1>5, <1>7, <1>8, <1>9, MoveStep

\* SetGlobal moves the handle's reference into the slot and releases what the slot held.
LEMMA HostSetStep ==
    ASSUME HeapInv, NEW s \in Slot, NEW v \in Operand, HostSet(s, v)
    PROVE  HeapInv' /\ Covering /\ Exact
<1>1. ShapeInv /\ CoverInv /\ Ready /\ root \in [Slot -> Addr \cup {NoRef}]
      BY DEF HeapInv, ShapeInv, TypeOK, HostSet
<1>2. s # v /\ v \in Slot /\ root[v] \in Addr /\ root[s] \in Addr \cup {NoRef}
      BY <1>1, AddrFacts DEF HostSet
<1>3. /\ root' \in [Slot -> Addr \cup {NoRef}]
      /\ root'[s] = root[v] /\ root'[v] = NoRef /\ \A x \in Slot \ {s, v} : root'[x] = root[x]
      BY <1>1, <1>2, AddrFacts DEF HostSet
<1>4. rc' \in [Addr -> Nat] /\ \A a \in Addr : rc'[a] = rc[a] /\ rc[a] \in Nat /\ rc'[a] \in Nat
      BY <1>1 DEF HostSet, ShapeInv, TypeOK
<1>5. /\ todo' \in Seq(Addr)
      /\ \A a \in Addr : Count(todo', a) = One(root[s] = a)
      BY <1>2, RawCount DEF HostSet
<1>6. ASSUME NEW a \in Addr
      PROVE  /\ Roots(root', a) + Count(todo', a) + rc[a] <= Roots(root, a) + rc'[a]
             /\ a # 0 => Roots(root', a) + Count(todo', a) + rc[a] = Roots(root, a) + rc'[a]
  <2>1. Roots(root', a) + One(root[s] = a) + One(root[v] = a) = Roots(root, a) + One(root'[s] = a) + One(root'[v] = a)
        BY <1>1, <1>2, <1>3, RootsUpdateTwo
  <2>2. Roots(root', a) \in Nat /\ Roots(root, a) \in Nat /\ rc[a] \in Nat /\ rc'[a] = rc[a] /\ NoRef # a
        BY <1>4, RootsType, AddrFacts
  <2>3. Count(todo', a) = One(root[s] = a)
        BY <1>5
  <2>4. root'[s] = root[v] /\ root'[v] = NoRef
        BY <1>3
  <2>5. QED
        BY <1>2, <2>1, <2>2, <2>3, <2>4 DEF One
<1>7. MoveCovering /\ MoveExact
      BY <1>6 DEF MoveCovering, MoveExact
<1>8. \A a \in Addr : rc'[a] > 0 <=> rc[a] > 0
      BY <1>4
<1>9. UNCHANGED <<heap, memVars, store, work, gcVars, traps>>
      BY DEF HostSet, relVars
<1>10. QED
      BY <1>1, <1>3, <1>4, <1>5, <1>7, <1>8, <1>9, MoveStep

\* LOCAL_SET moves the operand into the slot; only a store of the reference the slot
\* already holds leaves a count without an owner.
LEMMA SetSlotStep ==
    ASSUME HeapInv, NEW s \in Slot, NEW v \in Operand, SetSlot(s, v)
    PROVE  /\ HeapInv' /\ Covering
           /\ \A a \in Addr \ {0} : root[s] # root[v] \/ root[s] # a => Total(a)' + rc[a] = Total(a) + rc'[a]
<1>1. ShapeInv /\ CoverInv /\ Ready /\ root \in [Slot -> Addr \cup {NoRef}]
      BY DEF HeapInv, ShapeInv, TypeOK, SetSlot
<1>2. s # v /\ v \in Slot /\ root[v] \in Addr /\ root[s] \in Addr \cup {NoRef}
      BY <1>1, AddrFacts DEF SetSlot
<1>3. /\ root' \in [Slot -> Addr \cup {NoRef}]
      /\ root'[s] = root[v] /\ root'[v] = NoRef /\ \A x \in Slot \ {s, v} : root'[x] = root[x]
      BY <1>1, <1>2, AddrFacts DEF SetSlot
<1>4. rc' \in [Addr -> Nat] /\ \A a \in Addr : rc'[a] = rc[a] /\ rc[a] \in Nat /\ rc'[a] \in Nat
      BY <1>1 DEF SetSlot, ShapeInv, TypeOK
<1>5. /\ todo' \in Seq(Addr)
      /\ \A a \in Addr : Count(todo', a) = One(root[s] = a /\ a # 0 /\ root[s] # root[v])
      BY <1>2, SetCount DEF SetSlot
<1>6. ASSUME NEW a \in Addr
      PROVE  /\ Roots(root', a) + Count(todo', a) + rc[a] <= Roots(root, a) + rc'[a]
             /\ a # 0 /\ (root[s] # root[v] \/ root[s] # a)
                  => Roots(root', a) + Count(todo', a) + rc[a] = Roots(root, a) + rc'[a]
  <2>1. Roots(root', a) + One(root[s] = a) + One(root[v] = a) = Roots(root, a) + One(root'[s] = a) + One(root'[v] = a)
        BY <1>1, <1>2, <1>3, RootsUpdateTwo
  <2>2. Roots(root', a) \in Nat /\ Roots(root, a) \in Nat /\ rc[a] \in Nat /\ rc'[a] = rc[a] /\ NoRef # a
        BY <1>4, RootsType, AddrFacts
  <2>3. Count(todo', a) = One(root[s] = a /\ a # 0 /\ root[s] # root[v])
        BY <1>5
  <2>4. root'[s] = root[v] /\ root'[v] = NoRef
        BY <1>3
  <2>5. QED
        BY <1>2, <2>1, <2>2, <2>3, <2>4 DEF One
<1>7. MoveCovering
      BY <1>6 DEF MoveCovering
<1>8. \A a \in Addr : rc'[a] > 0 <=> rc[a] > 0
      BY <1>4
<1>9. UNCHANGED <<heap, memVars, store, work, gcVars, traps>>
      BY DEF SetSlot, relVars
<1>10. HeapInv' /\ Covering
      BY <1>1, <1>3, <1>4, <1>5, <1>7, <1>8, <1>9, MoveStep
<1>11. ASSUME NEW a \in Addr \ {0}, root[s] # root[v] \/ root[s] # a
       PROVE  Total(a)' + rc[a] = Total(a) + rc'[a]
  <2>1. Roots(root', a) + Count(todo', a) + rc[a] = Roots(root, a) + rc'[a]
        BY <1>6, <1>11
  <2>2. Count(todo', a) \in Nat /\ rc'[a] \in Nat
        BY <1>4, <1>5, CountType
  <2>3. UNCHANGED <<heap, work, store, pend>>
        BY <1>9 DEF gcVars
  <2>4. QED
        BY <1>1, <2>1, <2>2, <2>3, MoveTotal
<1>12. QED
      BY <1>10, <1>11

\* ARRAY_GET retains the element before it releases the container.
LEMMA GetFieldStep ==
    ASSUME HeapInv, NEW s \in Operand, NEW f \in 1 .. Width, GetField(s, f)
    PROVE  HeapInv' /\ Covering /\ Exact
<1>1. ShapeInv /\ CoverInv /\ Ready /\ root \in [Slot -> Addr \cup {NoRef}]
      BY DEF HeapInv, ShapeInv, TypeOK, GetField
<1>2. s \in Slot /\ root[s] \in Addr /\ heap[root[s]][f] \in Addr /\ rc[heap[root[s]][f]] > 0
      BY <1>1, AddrFacts, FieldHeld DEF GetField
<1>3. /\ root' \in [Slot -> Addr \cup {NoRef}]
      /\ root'[s] = heap[root[s]][f] /\ \A x \in Slot \ {s} : root'[x] = root[x]
      BY <1>1, <1>2, AddrFacts DEF GetField
<1>4. /\ rc' \in [Addr -> Nat]
      /\ \A a \in Addr : rc'[a] = rc[a] + One(a = heap[root[s]][f]) /\ rc[a] \in Nat /\ rc'[a] \in Nat
  <2>1. rc' = Retained(heap[root[s]][f])
        BY DEF GetField
  <2>2. QED
        BY <1>1, <1>2, <2>1, RetainCount
<1>5. /\ todo' \in Seq(Addr)
      /\ \A a \in Addr : Count(todo', a) = One(root[s] = a)
      BY <1>2, RawCount DEF GetField
<1>6. ASSUME NEW a \in Addr
      PROVE  /\ Roots(root', a) + Count(todo', a) + rc[a] <= Roots(root, a) + rc'[a]
             /\ a # 0 => Roots(root', a) + Count(todo', a) + rc[a] = Roots(root, a) + rc'[a]
  <2>1. Roots(root', a) + One(root[s] = a) = Roots(root, a) + One(root'[s] = a)
        BY <1>1, <1>2, <1>3, RootsUpdate
  <2>2. Roots(root', a) \in Nat /\ Roots(root, a) \in Nat /\ rc[a] \in Nat /\ rc'[a] = rc[a] + One(a = heap[root[s]][f]) /\ NoRef # a
        BY <1>4, RootsType, AddrFacts
  <2>3. Count(todo', a) = One(root[s] = a)
        BY <1>5
  <2>4. root'[s] = heap[root[s]][f]
        BY <1>3
  <2>5. QED
        BY <1>2, <2>1, <2>2, <2>3, <2>4 DEF One
<1>7. MoveCovering /\ MoveExact
      BY <1>6 DEF MoveCovering, MoveExact
<1>8. \A a \in Addr : rc'[a] > 0 <=> rc[a] > 0
      BY <1>2, <1>4, AddrFacts DEF One
<1>9. UNCHANGED <<heap, memVars, store, work, gcVars, traps>>
      BY DEF GetField, relVars
<1>10. QED
      BY <1>1, <1>3, <1>4, <1>5, <1>7, <1>8, <1>9, MoveStep

-----------------------------------------------------------------------------
(***************************************************************************)
(* Instructions that write to the heap.                                    *)
(***************************************************************************)
\* g is the heap with field f of object c overwritten.
FieldWritten(g, c, f) ==
    /\ Alive(c) /\ f \in 1 .. Len(heap[c])
    /\ g \in [Addr -> Object \cup {Nil}] /\ \A b \in Addr \ {c} : g[b] = heap[b]
    /\ g[c] \in [1 .. Len(heap[c]) -> Addr] /\ \A j \in 1 .. Len(heap[c]) : j # f => g[c][j] = heap[c][j]

LEMMA FieldWrite ==
    ASSUME ShapeInv, NEW c \in Addr, NEW f, NEW g, FieldWritten(g, c, f)
    PROVE  /\ Len(g[c]) = Len(heap[c]) /\ c >= Base
           /\ \A b \in Addr : g[b] # Nil <=> Alive(b)
           /\ \A a \in Addr : Cells(g, a) + One(heap[c][f] = a) = Cells(heap, a) + One(g[c][f] = a)
<1>0. /\ Alive(c) /\ f \in 1 .. Len(heap[c])
      /\ g \in [Addr -> Object \cup {Nil}] /\ \A b \in Addr \ {c} : g[b] = heap[b]
      /\ g[c] \in [1 .. Len(heap[c]) -> Addr] /\ \A j \in 1 .. Len(heap[c]) : j # f => g[c][j] = heap[c][j]
      BY DEF FieldWritten
<1>1. heap \in [Addr -> Object \cup {Nil}] /\ heap[c] # Nil
      BY <1>0 DEF ShapeInv, TypeOK, Alive
<1>2. heap[c] \in Object /\ heap[c] \in Seq(Addr) /\ Len(heap[c]) \in 0 .. Width
  <2>1. heap[c] \in Object \cup {Nil}
        BY <1>1
  <2>2. QED
        BY <2>1, <1>1, ObjectSeq
<1>3. Len(heap[c]) \in Nat
      BY <1>2, AddrFacts
<1>4. g[c] \in Object
      BY <1>0, <1>2 DEF Object
<1>5. g[c] \in Seq(Addr) /\ Len(g[c]) = Len(heap[c])
      BY <1>0, <1>3
<1>7. c >= Base
  <2>1. heap[c] # <<>>
        BY <1>0, <1>2
  <2>2. c \notin 0 .. Base - 1
        BY <2>1 DEF ShapeInv
  <2>3. QED
        BY <2>2, AddrFacts
<1>8. \A b \in Addr : g[b] # Nil <=> Alive(b)
  <2>1. g[c] \in Object \cup {Nil}
        BY <1>4
  <2>2. Nil \notin Object
        BY <2>1, ObjectSeq
  <2>3. QED
        BY <1>0, <1>1, <1>4, <2>2 DEF Alive
<1>9. \A a \in Addr : Cells(g, a) + One(heap[c][f] = a) = Cells(heap, a) + One(g[c][f] = a)
  <2>1. /\ heap[c] \in Seq(Addr) /\ g[c] \in Seq(Addr) /\ Len(g[c]) = Len(heap[c]) /\ f \in 1 .. Len(heap[c])
        /\ \A j \in 1 .. Len(heap[c]) : j # f => g[c][j] = heap[c][j]
        BY <1>0, <1>2, <1>5
  <2>2. Rewritten(heap, g, c, f)
        BY <1>0, <2>1, <1>1 DEF Rewritten, Replaced
  <2>3. QED
        BY <2>2, CellsWrite
<1>10. QED
      BY <1>5, <1>7, <1>8, <1>9

\* ARRAY_SET writes, then releases the old element and the container.
LEMMA ArraySetStep ==
    ASSUME HeapInv, NEW s \in Operand, NEW f \in 1 .. Width, NEW v \in Operand, ArraySet(s, f, v)
    PROVE  HeapInv' /\ Covering /\ Exact
<1> DEFINE c == root[s]
           old == heap[c][f]
<1>1. /\ ShapeInv /\ CoverInv /\ Ready /\ root \in [Slot -> Addr \cup {NoRef}] /\ s \in Slot /\ v \in Slot /\ s # v
      /\ c \notin {0, NoRef} /\ root[v] \in Addr /\ rc \in [Addr -> Nat]
      BY AddrFacts DEF HeapInv, ShapeInv, TypeOK, ArraySet
<1>2. c \in Addr \ {0} /\ Alive(c) /\ f \in 1 .. Len(heap[c]) /\ old \in Addr
  <2>1. c \in Addr \ {0} /\ Alive(c) /\ Len(heap[c]) \in 0 .. Width
        BY <1>1, RootHeld
  <2>2. f \in 1 .. Len(heap[c])
        BY <2>1 DEF ArraySet
  <2>3. old \in Addr
        BY <1>1, FieldHeld DEF ArraySet
  <2>4. QED
        BY <2>1, <2>2, <2>3
<1>3. /\ heap' \in [Addr -> Object \cup {Nil}]
      /\ \A b \in Addr \ {c} : heap'[b] = heap[b]
      /\ c >= Base /\ \A b \in Addr : Alive(b)' <=> Alive(b)
      /\ \A a \in Addr : Cells(heap', a) + One(old = a) = Cells(heap, a) + One(root[v] = a)
  <2>1. heap' = [heap EXCEPT ![c][f] = root[v]] /\ heap \in [Addr -> Object \cup {Nil}]
        BY <1>1 DEF ArraySet, ShapeInv, TypeOK
  <2>2. heap[c] \in Seq(Addr) /\ Len(heap[c]) \in Nat
        BY <1>1, RootHeld
  <2>3. heap[c] \in [1 .. Len(heap[c]) -> Addr]
        BY <2>2
  <2>4. DOMAIN heap' = Addr /\ (\A b \in Addr \ {c} : heap'[b] = heap[b]) /\ heap' = [b \in Addr |-> heap'[b]]
        BY <1>2, <2>1
  <2>5. /\ heap'[c] \in [1 .. Len(heap[c]) -> Addr] /\ heap'[c][f] = root[v]
        /\ \A j \in 1 .. Len(heap[c]) : j # f => heap'[c][j] = heap[c][j]
        BY <1>1, <1>2, <2>1, <2>3
  <2>0. heap' \in [Addr -> Object \cup {Nil}]
    <3>1. heap'[c] \in Object
          BY <2>5, <1>1, RootHeld DEF Object
    <3>2. \A b \in Addr : heap'[b] \in Object \cup {Nil}
          BY <2>1, <2>4, <3>1
    <3>3. QED
          BY <2>4, <3>2
  <2>6. /\ c >= Base /\ \A b \in Addr : heap'[b] # Nil <=> Alive(b)
        /\ \A a \in Addr : Cells(heap', a) + One(heap[c][f] = a) = Cells(heap, a) + One(heap'[c][f] = a)
    <3> HIDE DEF c
    <3>1. FieldWritten(heap', c, f)
          BY <1>2, <2>0, <2>4, <2>5 DEF FieldWritten
    <3>2. QED
          BY <1>1, <1>2, <3>1, FieldWrite
  <2>7. QED
        BY <2>0, <2>4, <2>5, <2>6 DEF Alive
<1>4. /\ root' \in [Slot -> Addr \cup {NoRef}] /\ root'[s] = NoRef /\ root'[v] = NoRef
      /\ \A x \in Slot \ {s, v} : root'[x] = root[x]
      BY <1>1, AddrFacts DEF ArraySet
<1>5. /\ todo' \in Seq(Addr)
      /\ \A a \in Addr : Count(todo', a) = One(old = a /\ a # 0) + One(c = a)
  <2>1. todo' = BoxRelease(old) \o RawRelease(c)
        BY DEF ArraySet
  <2>2. BoxRelease(old) \in Seq(Addr) /\ RawRelease(c) \in Seq(Addr)
        BY <1>2, BoxCount, RawCount
  <2>3. \A a \in Addr : Count(BoxRelease(old), a) = One(old = a /\ a # 0) /\ Count(RawRelease(c), a) = One(c = a)
        BY <1>2, BoxCount, RawCount
  <2>4. \A a \in Addr : Count(BoxRelease(old) \o RawRelease(c), a) = Count(BoxRelease(old), a) + Count(RawRelease(c), a)
        BY <2>2, CountConcat
  <2>5. todo' \in Seq(Addr)
        BY <2>1, <2>2
  <2>6. QED
    <3> HIDE DEF old, c
    <3>1. QED
          BY <2>1, <2>3, <2>4, <2>5
<1>6. ShapeInv'
  <2>1. \A a \in 0 .. Base - 1 : heap'[a] = <<>>
        BY <1>1, <1>3, AddrFacts DEF ShapeInv
  <2>2. store' = NoStore
        BY DEF ArraySet, Ready
  <2>3. TypeOK'
        BY <1>1, <1>3, <1>4, <1>5 DEF ShapeInv, TypeOK, ArraySet, memVars, gcVars
  <2>4. \A a \in Addr : Alive(a)' => a < top'
        BY <1>1, <1>3 DEF ShapeInv, ArraySet, memVars
  <2>5. QED
        BY <2>1, <2>2, <2>3, <2>4 DEF ShapeInv
<1>7. ASSUME NEW a \in Addr
      PROVE  /\ Total(a)' + rc[a] <= Total(a) + rc'[a]
             /\ a # 0 => Total(a)' + rc[a] = Total(a) + rc'[a]
  <2>1. Roots(root', a) + One(root[s] = a) + One(root[v] = a) = Roots(root, a) + One(root'[s] = a) + One(root'[v] = a)
        BY <1>1, <1>4, RootsUpdateTwo
  <2>2. Cells(heap', a) + One(old = a) = Cells(heap, a) + One(root[v] = a)
        BY <1>3
  <2>3. Count(todo', a) = One(old = a /\ a # 0) + One(c = a) /\ Count(todo, a) = 0
        BY <1>1, <1>5, CountEmpty DEF Ready
  <2>4. /\ Roots(root', a) \in Nat /\ Roots(root, a) \in Nat /\ Cells(heap', a) \in Nat /\ Cells(heap, a) \in Nat
        /\ Count(pend.obj, a) \in Nat /\ Count(work, a) \in Nat /\ rc[a] \in Nat /\ rc'[a] = rc[a] /\ NoRef # a
        BY <1>1, PartTypes, RootsType, CellsType, AddrFacts DEF ArraySet
  <2>5. StoreEdge(a) = 0 /\ StoreEdge(a)' = 0
        BY <1>1 DEF StoreEdge, One, Ready, ArraySet
  <2>6. /\ Total(a)' = Roots(root', a) + Cells(heap', a) - StoreEdge(a)' + One(a \in Consts) + Count(pend.obj, a)
              + Count(todo', a) + Count(work, a) + One(store.addr = a) + One(store.val = a)
        /\ Total(a) = Roots(root, a) + Cells(heap, a) - StoreEdge(a) + One(a \in Consts) + Count(pend.obj, a)
              + Count(todo, a) + Count(work, a) + One(store.addr = a) + One(store.val = a)
        BY DEF Total, ArraySet, gcVars
  <2>7. root'[s] = NoRef /\ root'[v] = NoRef /\ root[s] = c
        BY <1>4
  <2>8. QED
    <3> HIDE DEF old, c
    <3>1. QED
          BY <2>1, <2>2, <2>3, <2>4, <2>5, <2>6, <2>7 DEF One
<1>8. Covering /\ Exact
      BY <1>7 DEF Covering, Exact
<1>9. phase' = "run" /\ pend' = NoPend /\ UNCHANGED <<free, top>> /\ \A a \in Addr : rc'[a] > 0 <=> rc[a] > 0
      BY DEF HeapInv, QuietInv, Ready, gcVars, memVars, ArraySet
<1>10. QED
      BY <1>3, <1>6, <1>8, <1>9, RunStep DEF Covering

\* STRUCT_SET takes the operands and queues the release of the old value, whose
\* field is no owner any more.
LEMMA StructSetStep ==
    ASSUME HeapInv, NEW s \in Operand, NEW f \in 1 .. Width, NEW v \in Operand, StructSet(s, f, v)
    PROVE  HeapInv' /\ Covering /\ Exact
<1> DEFINE c == root[s]
           old == heap[c][f]
<1>1. /\ ShapeInv /\ CoverInv /\ Ready /\ root \in [Slot -> Addr \cup {NoRef}] /\ s \in Slot /\ v \in Slot /\ s # v
      /\ c \notin {0, NoRef} /\ root[v] \in Addr /\ rc \in [Addr -> Nat]
      BY AddrFacts DEF HeapInv, ShapeInv, TypeOK, StructSet
<1>2. c \in Addr \ {0} /\ Alive(c) /\ f \in 1 .. Len(heap[c]) /\ old \in Addr
  <2>1. c \in Addr \ {0} /\ Alive(c) /\ Len(heap[c]) \in 0 .. Width
        BY <1>1, RootHeld
  <2>2. f \in 1 .. Len(heap[c])
        BY <2>1 DEF StructSet
  <2>3. old \in Addr
        BY <1>1, FieldHeld DEF StructSet
  <2>4. QED
        BY <2>1, <2>2, <2>3
<1>3. store' = [addr |-> c, field |-> f, val |-> root[v]] /\ store'.addr = c /\ store'.field = f /\ store'.val = root[v]
      BY DEF StructSet
<1>4. /\ root' \in [Slot -> Addr \cup {NoRef}] /\ root'[s] = NoRef /\ root'[v] = NoRef
      /\ \A x \in Slot \ {s, v} : root'[x] = root[x]
      BY <1>1, AddrFacts DEF StructSet
<1>5. todo' \in Seq(Addr) /\ \A a \in Addr : Count(todo', a) = One(old = a /\ a # 0)
      BY <1>2, BoxCount DEF StructSet
<1>6. ShapeInv'
  <2>1. store' \in [addr : Addr \cup {NoRef}, field : 0 .. Width, val : Addr \cup {NoRef}]
    <3>1. c \in Addr /\ f \in 0 .. Width /\ root[v] \in Addr
          BY <1>1, <1>2, AddrFacts
    <3>2. QED
          BY <1>3, <3>1
  <2>2. TypeOK'
        BY <1>1, <1>4, <1>5, <2>1 DEF ShapeInv, TypeOK, StructSet, memVars, gcVars
  <2>3. QED
        BY <1>1, <1>2, <1>3, <2>2 DEF ShapeInv, StructSet, memVars, Alive
<1>7. ASSUME NEW a \in Addr
      PROVE  /\ Total(a)' + rc[a] <= Total(a) + rc'[a]
             /\ a # 0 => Total(a)' + rc[a] = Total(a) + rc'[a]
  <2>1. Roots(root', a) + One(root[s] = a) + One(root[v] = a) = Roots(root, a) + One(root'[s] = a) + One(root'[v] = a)
        BY <1>1, <1>4, RootsUpdateTwo
  <2>2. Count(todo', a) = One(old = a /\ a # 0) /\ Count(todo, a) = 0
        BY <1>1, <1>5, CountEmpty DEF Ready
  <2>3. /\ Roots(root', a) \in Nat /\ Roots(root, a) \in Nat /\ Cells(heap, a) \in Nat
        /\ Count(pend.obj, a) \in Nat /\ Count(work, a) \in Nat /\ rc[a] \in Nat /\ rc'[a] = rc[a] /\ NoRef # a
        BY <1>1, PartTypes, RootsType, AddrFacts DEF StructSet
  <2>4. StoreEdge(a) = 0
        BY <1>1 DEF StoreEdge, One, Ready
  <2>5. StoreEdge(a)' = One(old = a)
    <3>1. store' # NoStore
          BY <1>2, <1>3, AddrFacts DEF NoStore
    <3>2. heap' = heap
          BY DEF StructSet
    <3>3. QED
          BY <1>3, <3>1, <3>2 DEF StoreEdge
  <2>6. /\ Total(a)' = Roots(root', a) + Cells(heap, a) - StoreEdge(a)' + One(a \in Consts) + Count(pend.obj, a)
              + Count(todo', a) + Count(work, a) + One(c = a) + One(root[v] = a)
        /\ Total(a) = Roots(root, a) + Cells(heap, a) - StoreEdge(a) + One(a \in Consts) + Count(pend.obj, a)
              + Count(todo, a) + Count(work, a) + One(NoRef = a) + One(NoRef = a)
        BY <1>1, <1>3 DEF Total, StructSet, gcVars, Ready, NoStore
  <2>7. root'[s] = NoRef /\ root'[v] = NoRef /\ root[s] = c
        BY <1>4
  <2>8. QED
    <3> HIDE DEF old, c
    <3>1. QED
          BY <2>1, <2>2, <2>3, <2>4, <2>5, <2>6, <2>7 DEF One
<1>8. Covering /\ Exact
      BY <1>7 DEF Covering, Exact
<1>9. phase' = "run" /\ pend' = NoPend /\ UNCHANGED <<free, top>> /\ \A a \in Addr : rc'[a] > 0 <=> rc[a] > 0
      BY DEF HeapInv, QuietInv, Ready, gcVars, memVars, StructSet
<1>10. \A a \in Addr : Alive(a)' <=> Alive(a)
      BY DEF StructSet, Alive
<1>11. QED
      BY <1>6, <1>8, <1>9, <1>10, RunStep DEF Covering

\* The write STRUCT_SET makes after that release, and the release of the container.
LEMMA StructWriteStep ==
    ASSUME HeapInv, StructWrite
    PROVE  HeapInv' /\ Covering /\ Exact
<1> DEFINE c == store.addr
           f == store.field
           old == heap[c][f]
<1>1. /\ ShapeInv /\ CoverInv /\ phase = "run" /\ store # NoStore /\ rc \in [Addr -> Nat]
      /\ c \in Addr \ {0} /\ Alive(c) /\ f \in 1 .. Len(heap[c]) /\ store.val \in Addr
      /\ todo = <<>> /\ work = <<>>
      BY DEF HeapInv, ShapeInv, TypeOK, StructWrite, QuietInv
<1>2. heap \in [Addr -> Object \cup {Nil}] /\ heap[c] \in Object \cup {Nil} /\ heap[c] # Nil
      BY <1>1 DEF ShapeInv, TypeOK, Alive
<1>3. heap[c] \in Seq(Addr) /\ heap[c] \in Object /\ Len(heap[c]) \in 0 .. Width /\ Len(heap[c]) \in Nat
      BY <1>2, ObjectSeq, AddrFacts
<1>4. /\ heap' \in [Addr -> Object \cup {Nil}]
      /\ \A b \in Addr \ {c} : heap'[b] = heap[b]
      /\ c >= Base /\ \A b \in Addr : Alive(b)' <=> Alive(b)
      /\ \A a \in Addr : Cells(heap', a) + One(old = a) = Cells(heap, a) + One(store.val = a)
  <2>1. heap' = [heap EXCEPT ![c][f] = store.val]
        BY DEF StructWrite
  <2>2. heap[c] \in [1 .. Len(heap[c]) -> Addr]
        BY <1>3
  <2>3. DOMAIN heap' = Addr /\ (\A b \in Addr \ {c} : heap'[b] = heap[b]) /\ heap' = [b \in Addr |-> heap'[b]]
        BY <1>1, <1>2, <2>1
  <2>4. /\ heap'[c] \in [1 .. Len(heap[c]) -> Addr] /\ heap'[c][f] = store.val
        /\ \A j \in 1 .. Len(heap[c]) : j # f => heap'[c][j] = heap[c][j]
        BY <1>1, <1>2, <2>1, <2>2
  <2>5. heap' \in [Addr -> Object \cup {Nil}]
    <3>1. heap'[c] \in Object
          BY <2>4, <1>3 DEF Object
    <3>2. \A b \in Addr : heap'[b] \in Object \cup {Nil}
          BY <1>2, <2>3, <3>1
    <3>3. QED
          BY <2>3, <3>2
  <2>6. /\ c >= Base /\ \A b \in Addr : heap'[b] # Nil <=> Alive(b)
        /\ \A a \in Addr : Cells(heap', a) + One(heap[c][f] = a) = Cells(heap, a) + One(heap'[c][f] = a)
    <3> HIDE DEF c, f
    <3>1. FieldWritten(heap', c, f)
          BY <1>1, <2>3, <2>4, <2>5 DEF FieldWritten
    <3>2. QED
          BY <1>1, <3>1, FieldWrite
  <2>7. QED
        BY <2>3, <2>4, <2>5, <2>6 DEF Alive
<1>5. /\ todo' \in Seq(Addr) /\ \A a \in Addr : Count(todo', a) = One(c = a)
      BY <1>1, RawCount DEF StructWrite
<1>6. ShapeInv'
  <2>1. \A a \in 0 .. Base - 1 : heap'[a] = <<>>
        BY <1>1, <1>4, AddrFacts DEF ShapeInv
  <2>2. store' = NoStore
        BY DEF StructWrite
  <2>3. store' \in [addr : Addr \cup {NoRef}, field : 0 .. Width, val : Addr \cup {NoRef}]
        BY <2>2, AddrFacts DEF NoStore
  <2>4. TypeOK'
        BY <1>1, <1>4, <1>5, <2>3 DEF ShapeInv, TypeOK, StructWrite, memVars, gcVars
  <2>5. \A a \in Addr : Alive(a)' => a < top'
        BY <1>1, <1>4 DEF ShapeInv, StructWrite, memVars
  <2>6. QED
        BY <2>1, <2>2, <2>4, <2>5 DEF ShapeInv
<1>7. ASSUME NEW a \in Addr
      PROVE  Total(a)' + rc[a] = Total(a) + rc'[a] /\ Total(a)' + rc[a] <= Total(a) + rc'[a]
  <2>1. Cells(heap', a) + One(old = a) = Cells(heap, a) + One(store.val = a)
        BY <1>4
  <2>2. Count(todo', a) = One(c = a) /\ Count(todo, a) = 0
        BY <1>1, <1>5, CountEmpty
  <2>3. /\ Roots(root, a) \in Nat /\ Cells(heap', a) \in Nat /\ Cells(heap, a) \in Nat
        /\ Count(pend.obj, a) \in Nat /\ Count(work, a) \in Nat /\ rc[a] \in Nat /\ rc'[a] = rc[a] /\ NoRef # a
        BY <1>1, PartTypes, CellsType, AddrFacts DEF StructWrite
  <2>4. StoreEdge(a) = One(old = a) /\ StoreEdge(a)' = 0
    <3>1. StoreEdge(a) = One(old = a)
          BY <1>1 DEF StoreEdge
    <3>2. store' = NoStore
          BY DEF StructWrite
    <3>3. StoreEdge(a)' = 0
          BY <3>2 DEF StoreEdge, One
    <3>4. QED
          BY <3>1, <3>3
  <2>5. /\ Total(a)' = Roots(root, a) + Cells(heap', a) - StoreEdge(a)' + One(a \in Consts) + Count(pend.obj, a)
              + Count(todo', a) + Count(work, a) + One(NoRef = a) + One(NoRef = a)
        /\ Total(a) = Roots(root, a) + Cells(heap, a) - StoreEdge(a) + One(a \in Consts) + Count(pend.obj, a)
              + Count(todo, a) + Count(work, a) + One(c = a) + One(store.val = a)
        BY DEF Total, StructWrite, gcVars, NoStore
  <2>6. QED
    <3> HIDE DEF old, c
    <3>1. QED
          BY <2>1, <2>2, <2>3, <2>4, <2>5 DEF One
<1>8. Covering /\ Exact
      BY <1>7 DEF Covering, Exact
<1>9. phase' = "run" /\ pend' = NoPend /\ UNCHANGED <<free, top>> /\ \A a \in Addr : rc'[a] > 0 <=> rc[a] > 0
      BY <1>1 DEF HeapInv, QuietInv, gcVars, memVars, StructWrite
<1>10. QED
      BY <1>4, <1>6, <1>8, <1>9, RunStep DEF Covering

\* Operands leave their slots and become the references of an object.
LEMMA OperandsTaken ==
    ASSUME ShapeInv, NEW ops \in Operands, NEW q,
           q = [t \in Slot |-> IF \E k \in DOMAIN ops : ops[k] = t THEN NoRef ELSE root[t]]
    PROVE  /\ ops \in Seq(Operand) /\ Apart(ops) /\ DOMAIN ops = 1 .. Len(ops)
           /\ Taken(ops) \in Object /\ Taken(ops) \in Seq(Addr) /\ Len(Taken(ops)) = Len(ops)
           /\ q \in [Slot -> Addr \cup {NoRef}] /\ \A k \in DOMAIN ops : q[ops[k]] = NoRef
           /\ \A s \in Slot : (\A k \in DOMAIN ops : ops[k] # s) => q[s] = root[s]
           /\ \A a \in Addr : Roots(root, a) = Roots(q, a) + Count(Taken(ops), a)
<1>1. PICK n \in 0 .. Width : ops \in [1 .. n -> Operand]
      BY DEF Operands
<1>2. n \in Nat /\ ops \in Seq(Operand) /\ Len(ops) = n /\ DOMAIN ops = 1 .. n /\ ops \in Seq(Slot)
  <2>1. n \in Nat
        BY AddrFacts
  <2>2. ops \in [1 .. n -> Slot]
        BY <1>1, AddrFacts
  <2>3. QED
        BY <1>1, <2>1, <2>2
<1>3. Apart(ops) /\ \A k \in 1 .. n : root[ops[k]] # NoRef /\ ops[k] \in Slot
      BY <1>1, <1>2, AddrFacts DEF Operands, Apart
<1>4. root \in [Slot -> Addr \cup {NoRef}]
      BY DEF ShapeInv, TypeOK
<1>5. Taken(ops) \in [1 .. n -> Addr] /\ \A k \in 1 .. n : Taken(ops)[k] = root[ops[k]]
      BY <1>2, <1>3, <1>4 DEF Taken
<1>6. Taken(ops) \in Object
      BY <1>5 DEF Object
<1>7. Taken(ops) \in Seq(Addr) /\ Len(Taken(ops)) = n
  <2> HIDE DEF Taken
  <2>1. QED
        BY <1>2, <1>5
<1>8. /\ q \in [Slot -> Addr \cup {NoRef}] /\ \A k \in DOMAIN ops : q[ops[k]] = NoRef
      /\ \A s \in Slot : (\A k \in DOMAIN ops : ops[k] # s) => q[s] = root[s]
      BY <1>2, <1>3, <1>4
<1>9. \A k \in DOMAIN ops : Taken(ops)[k] = root[ops[k]] /\ q[ops[k]] = NoRef
      BY <1>2, <1>5, <1>8
<1>10. \A a \in Addr : Roots(root, a) = Roots(q, a) + Count(Taken(ops), a)
  <2> DEFINE T == Taken(ops)
  <2>1. T \in Seq(Addr) /\ Len(T) = Len(ops) /\ \A k \in DOMAIN ops : T[k] = root[ops[k]] /\ q[ops[k]] = NoRef
        BY <1>2, <1>7, <1>9
  <2>2. Emptied(root, q, ops, T)
    <3> HIDE DEF T
    <3>1. QED
          BY <1>2, <1>3, <1>8, <2>1 DEF Emptied
  <2>3. QED
        BY <2>2, RootsTaken
<1>11. QED
      BY <1>2, <1>3, <1>6, <1>7, <1>8, <1>10

\* Store: the operands move into the object a handle names, whose references are
\* released.
LEMMA StoreStep ==
    ASSUME HeapInv, NEW s \in Operand, NEW ops \in Operands, Store(s, ops)
    PROVE  HeapInv' /\ Covering /\ Exact
<1> DEFINE c == root[s]
           new == Taken(ops)
<1>1. /\ ShapeInv /\ CoverInv /\ Ready /\ s \in Slot /\ rc \in [Addr -> Nat]
      /\ heap \in [Addr -> Object \cup {Nil}] /\ root[s] \in Addr \cup {NoRef} /\ c >= Base
      BY AddrFacts DEF HeapInv, ShapeInv, TypeOK, Store
<1>2. c \notin {0, NoRef}
      BY <1>1, AddrFacts DEF NoRef
<1>3. c \in Addr \ {0} /\ Alive(c) /\ heap[c] \in Seq(Addr)
      BY <1>1, <1>2, RootHeld
<1>4. /\ new \in Object /\ new \in Seq(Addr)
      /\ root' \in [Slot -> Addr \cup {NoRef}]
      /\ \A a \in Addr : Roots(root, a) = Roots(root', a) + Count(new, a)
  <2>1. root' = [t \in Slot |-> IF \E k \in DOMAIN ops : ops[k] = t THEN NoRef ELSE root[t]]
        BY DEF Store
  <2> DEFINE q == root'
  <2>2. q = [t \in Slot |-> IF \E k \in DOMAIN ops : ops[k] = t THEN NoRef ELSE root[t]]
        BY <2>1
  <2> HIDE DEF q, new
  <2>3. QED
        BY <1>1, <2>2, OperandsTaken DEF q, new
<1>5. /\ heap' \in [Addr -> Object \cup {Nil}] /\ heap'[c] = new
      /\ \A b \in Addr \ {c} : heap'[b] = heap[b]
  <2> HIDE DEF new
  <2>1. QED
        BY <1>1, <1>3, <1>4 DEF Store, new
<1>6. todo' = heap[c] /\ todo' \in Seq(Addr)
      BY <1>3 DEF Store
<1>7. \A b \in Addr : Alive(b)' <=> Alive(b)
  <2>1. new \in Object \cup {Nil}
        BY <1>4
  <2>2. Nil \notin Object
        BY <2>1, ObjectSeq
  <2>3. new # Nil
        BY <1>4, <2>2
  <2> HIDE DEF new
  <2>4. QED
        BY <1>3, <1>5, <2>3 DEF Alive
<1>8. ShapeInv'
  <2>1. \A a \in 0 .. Base - 1 : heap'[a] = <<>>
        BY <1>1, <1>5, AddrFacts DEF ShapeInv
  <2>2. store' = NoStore
        BY DEF Store, Ready
  <2>3. TypeOK'
        BY <1>1, <1>4, <1>5, <1>6 DEF ShapeInv, TypeOK, Store, memVars, gcVars
  <2>4. \A a \in Addr : Alive(a)' => a < top'
        BY <1>1, <1>7 DEF ShapeInv, Store, memVars
  <2>5. QED
        BY <2>1, <2>2, <2>3, <2>4 DEF ShapeInv
<1>9. ASSUME NEW a \in Addr
      PROVE  Total(a)' + rc[a] = Total(a) + rc'[a] /\ Total(a)' + rc[a] <= Total(a) + rc'[a]
  <2>1. Roots(root, a) = Roots(root', a) + Count(new, a)
        BY <1>4
  <2>2. Cells(heap', a) + Count(heap[c], a) = Cells(heap, a) + Count(new, a)
    <3>1. Cells(heap', a) + Count(heap[c], a) = Cells(heap, a) + Count(heap'[c], a)
      <4>1. Replaced(heap, heap', c)
            BY <1>1, <1>3, <1>5 DEF Replaced
      <4>2. QED
            BY <4>1, CellsUpdate
    <3>2. QED
          BY <1>5, <3>1
  <2>3. Count(todo', a) = Count(heap[c], a) /\ Count(todo, a) = 0
        BY <1>1, <1>6, CountEmpty DEF Ready
  <2>4. /\ Roots(root', a) \in Nat /\ Roots(root, a) \in Nat /\ Cells(heap', a) \in Nat /\ Cells(heap, a) \in Nat
        /\ Count(pend.obj, a) \in Nat /\ Count(work, a) \in Nat /\ rc[a] \in Nat /\ rc'[a] = rc[a]
        BY <1>1, PartTypes, RootsType, CellsType DEF Store
  <2>5. Count(new, a) \in Nat /\ Count(heap[c], a) \in Nat
        BY <1>3, <1>4, CountType
  <2>6. StoreEdge(a) = 0 /\ StoreEdge(a)' = 0
        BY <1>1 DEF StoreEdge, One, Ready, Store
  <2>7. /\ Total(a)' = Roots(root', a) + Cells(heap', a) - StoreEdge(a)' + One(a \in Consts) + Count(pend.obj, a)
              + Count(todo', a) + Count(work, a) + One(store.addr = a) + One(store.val = a)
        /\ Total(a) = Roots(root, a) + Cells(heap, a) - StoreEdge(a) + One(a \in Consts) + Count(pend.obj, a)
              + Count(todo, a) + Count(work, a) + One(store.addr = a) + One(store.val = a)
        BY DEF Total, Store, gcVars
  <2>8. QED
    <3> HIDE DEF new, c
    <3>1. QED
          BY <2>1, <2>2, <2>3, <2>4, <2>5, <2>6, <2>7 DEF One
<1>10. Covering /\ Exact
      BY <1>9 DEF Covering, Exact
<1>11. phase' = "run" /\ pend' = NoPend /\ UNCHANGED <<free, top>> /\ \A a \in Addr : rc'[a] > 0 <=> rc[a] > 0
      BY DEF HeapInv, QuietInv, Ready, gcVars, memVars, Store
<1>12. QED
      BY <1>7, <1>8, <1>10, <1>11, RunStep DEF Covering

-----------------------------------------------------------------------------
(***************************************************************************)
(* Allocation.                                                             *)
(***************************************************************************)
\* What a call of alloc needs from the instruction that makes it.
AllocReady(obj, ops, t) ==
    /\ obj \in Object /\ ops \in Seq(Operand) /\ t \in Operand
    /\ root' \in [Slot -> Addr \cup {NoRef}] /\ root'[t] = NoRef
    /\ ops = <<>> \/ Len(ops) = Len(obj)
    /\ Apart(ops) /\ \A k \in DOMAIN ops : root'[ops[k]] = NoRef

LEMMA AllocTotal ==
    ASSUME ShapeInv, QuietInv, Ready, NEW obj, NEW ops, NEW t, Alloc(obj, ops, t), NEW a \in Addr,
           Count(obj, a) \in Nat, rc'[a] \in Nat
    PROVE  /\ Roots(root', a) + Count(obj, a) + rc[a] <= Roots(root, a) + rc'[a]
                => Total(a)' + rc[a] <= Total(a) + rc'[a]
           /\ Roots(root', a) + Count(obj, a) + rc[a] = Roots(root, a) + rc'[a]
                => Total(a)' + rc[a] = Total(a) + rc'[a]
           /\ rc'[a] = rc[a] => Total(a)' + Roots(root, a) = Total(a) + Roots(root', a) + Count(obj, a)
<1>1. Count(pend.obj, a) = 0 /\ pend'.obj = obj
      BY CountEmpty DEF Ready, QuietInv, NoPend, Alloc
<1>2. /\ Roots(root, a) \in Nat /\ Cells(heap, a) \in Nat /\ StoreEdge(a) \in Nat
      /\ Count(todo, a) \in Nat /\ Count(work, a) \in Nat
      BY PartTypes
<1>3. Roots(root', a) \in Nat
      BY RootsType
<1>4. StoreEdge(a)' = StoreEdge(a)
      BY DEF StoreEdge, Alloc, relVars
<1>5. /\ Total(a)' = Roots(root', a) + Cells(heap, a) - StoreEdge(a) + One(a \in Consts) + Count(obj, a)
              + Count(todo, a) + Count(work, a) + One(store.addr = a) + One(store.val = a)
      /\ Total(a) = Roots(root, a) + Cells(heap, a) - StoreEdge(a) + One(a \in Consts) + Count(pend.obj, a)
              + Count(todo, a) + Count(work, a) + One(store.addr = a) + One(store.val = a)
      BY <1>1, <1>4 DEF Total, Alloc, relVars
<1>6. rc[a] \in Nat
      BY DEF ShapeInv, TypeOK
<1>7. QED
      BY <1>1, <1>2, <1>3, <1>5, <1>6 DEF One

LEMMA AllocStep ==
    ASSUME HeapInv, Ready, NEW obj, NEW ops, NEW t, Alloc(obj, ops, t), AllocReady(obj, ops, t),
           rc' \in [Addr -> Nat], traps' \in 0 .. MaxTraps,
           \A a \in Addr : rc'[a] > 0 <=> rc[a] > 0,
           \A a \in Addr \ {0} : Roots(root', a) + Count(obj, a) + rc[a] = Roots(root, a) + rc'[a]
    PROVE  HeapInv' /\ Exact
<1>1. obj \in Seq(Addr)
  <2>1. obj \in Object \cup {Nil} /\ obj \in Object
        BY DEF AllocReady
  <2>2. QED
        BY <2>1, ObjectSeq
<1>2. pend' \in [obj : Object, ops : Seq(Operand), dst : SUBSET Operand]
      BY DEF Alloc, AllocReady
<1>3. ShapeInv'
  <2>1. TypeOK'
        BY <1>2 DEF HeapInv, ShapeInv, TypeOK, Alloc, AllocReady, memVars, relVars
  <2>2. QED
        BY <2>1 DEF HeapInv, ShapeInv, Alloc, memVars, relVars, Alive
<1>4. Exact
  <2>1. ASSUME NEW a \in Addr \ {0}
        PROVE  Total(a)' + rc[a] = Total(a) + rc'[a]
    <3>1. Count(obj, a) \in Nat /\ rc'[a] \in Nat
          BY <1>1, CountType
    <3>2. Roots(root', a) + Count(obj, a) + rc[a] = Roots(root, a) + rc'[a]
          OBVIOUS
    <3>3. QED
          BY <3>1, <3>2, AllocTotal DEF HeapInv
  <2>2. QED
        BY <2>1 DEF Exact
<1>5. CoverInv'
  <2>1. \A a \in Addr \ {0} : Total(a)' + rc[a] <= Total(a) + rc'[a]
    <3>1. ASSUME NEW a \in Addr \ {0}
          PROVE  Total(a)' + rc[a] <= Total(a) + rc'[a]
      <4>1. Owners(a) = Total(a) /\ Owners(a) \in Nat /\ rc'[a] \in Nat
            BY OwnersTotal DEF HeapInv
      <4>2. Total(a)' + rc[a] = Total(a) + rc'[a]
            BY <1>4 DEF Exact
      <4>3. Total(a) + rc'[a] \in Int
            BY <4>1
      <4>4. QED
            BY <4>2, <4>3
    <3>2. QED
          BY <3>1
  <2>2. rc'[0] > 0 /\ \A a \in Addr \ {0} : Alive(a)' <=> rc'[a] > 0
        BY AddrFacts DEF HeapInv, CoverInv, Alloc, Alive
  <2>3. QED
        BY <1>3, <2>1, <2>2, CoverStep DEF HeapInv
<1>6. phase' \in {"scan", "place"}
      BY DEF Alloc
<1>7. QuietInv' /\ TrialInv' /\ CollectorNeverFaults'
      BY <1>6 DEF QuietInv, TrialInv, CollectorNeverFaults, Alloc, Ready, relVars
<1>8. PendInv'
  <2>1. pend'.obj = obj /\ pend'.ops = ops /\ pend'.dst = {t}
        BY DEF Alloc
  <2>2. QED
        BY <2>1 DEF PendInv, AllocReady
<1>9. FreeInv'
      BY DEF HeapInv, FreeInv, Alloc, memVars, Apart, Alive
<1>10. QED
      BY <1>3, <1>4, <1>5, <1>7, <1>8, <1>9 DEF HeapInv

\* STRUCT_NEW and its like: the operands move into the object.
LEMMA NewStep ==
    ASSUME HeapInv, NEW t \in Operand, NEW ops \in Operands, New(t, ops)
    PROVE  HeapInv' /\ Covering /\ Exact
<1> DEFINE obj == Taken(ops)
<1>1. ShapeInv /\ QuietInv /\ Ready /\ rc \in [Addr -> Nat] /\ rc' = rc /\ traps' \in 0 .. MaxTraps /\ t \in Slot
      BY AddrFacts DEF HeapInv, ShapeInv, TypeOK, New
<1>2. root' = [u \in Slot |-> IF \E k \in DOMAIN ops : ops[k] = u THEN NoRef ELSE root[u]]
      BY DEF New
<1>3. /\ ops \in Seq(Operand) /\ Apart(ops) /\ DOMAIN ops = 1 .. Len(ops)
      /\ obj \in Object /\ obj \in Seq(Addr) /\ Len(obj) = Len(ops)
      /\ root' \in [Slot -> Addr \cup {NoRef}] /\ \A k \in DOMAIN ops : root'[ops[k]] = NoRef
      /\ \A a \in Addr : Roots(root, a) = Roots(root', a) + Count(obj, a)
  <2> DEFINE q == root'
  <2>1. q = [u \in Slot |-> IF \E k \in DOMAIN ops : ops[k] = u THEN NoRef ELSE root[u]]
        BY <1>2
  <2> HIDE DEF q, obj
  <2>2. ops \in Seq(Operand) /\ Apart(ops) /\ DOMAIN ops = 1 .. Len(ops)
        BY <1>1, <2>1, OperandsTaken
  <2>3. Taken(ops) \in Object /\ Taken(ops) \in Seq(Addr) /\ Len(Taken(ops)) = Len(ops)
        BY <1>1, <2>1, OperandsTaken
  <2>4. q \in [Slot -> Addr \cup {NoRef}] /\ \A k \in DOMAIN ops : q[ops[k]] = NoRef
    <3>1. root \in [Slot -> Addr \cup {NoRef}]
          BY <1>1 DEF ShapeInv, TypeOK
    <3>2. \A k \in DOMAIN ops : ops[k] \in Slot
          BY <2>2, AddrFacts
    <3>3. QED
          BY <2>1, <3>1, <3>2
  <2>5. \A a \in Addr : Roots(root, a) = Roots(q, a) + Count(Taken(ops), a)
        BY <1>1, <2>1, OperandsTaken
  <2>6. QED
        BY <2>2, <2>3, <2>4, <2>5 DEF q, obj
<1>4. root'[t] = NoRef
      BY <1>1, <1>2 DEF New
<1>5. AllocReady(obj, ops, t) /\ Alloc(obj, ops, t)
  <2>1. Alloc(obj, ops, t)
        BY DEF New
  <2> HIDE DEF obj
  <2>2. QED
        BY <1>3, <1>4, <2>1 DEF AllocReady
<1>6. ASSUME NEW a \in Addr
      PROVE  Roots(root', a) + Count(obj, a) + rc[a] = Roots(root, a) + rc'[a] /\ Roots(root, a) + rc'[a] \in Int
             /\ Count(obj, a) \in Nat /\ rc'[a] \in Nat
  <2>1. Roots(root', a) \in Nat /\ Count(obj, a) \in Nat /\ Roots(root, a) \in Nat /\ rc[a] \in Nat /\ rc'[a] = rc[a]
        BY <1>1, <1>3, RootsType, CountType
  <2>2. Roots(root, a) = Roots(root', a) + Count(obj, a)
        BY <1>3
  <2> HIDE DEF obj
  <2>3. QED
        BY <2>1, <2>2
<1>7. HeapInv' /\ Exact
  <2> HIDE DEF obj
  <2>1. QED
        BY <1>1, <1>5, <1>6, AllocStep
<1>8. Covering
  <2> HIDE DEF obj
  <2>1. ASSUME NEW a \in Addr
        PROVE  Total(a)' + rc[a] <= Total(a) + rc'[a]
    <3>1. Roots(root', a) + Count(obj, a) + rc[a] <= Roots(root, a) + rc'[a]
          BY <1>6
    <3>2. QED
          BY <1>1, <1>5, <1>6, <3>1, AllocTotal
  <2>2. QED
        BY <2>1 DEF Covering
<1>9. QED
      BY <1>7, <1>8

\* A sequence of n nulls holds null n times and nothing else.
LEMMA NullsCount ==
    ASSUME NEW n \in 0 .. Width
    PROVE  /\ [k \in 1 .. n |-> 0] \in Object /\ [k \in 1 .. n |-> 0] \in Seq(Addr)
           /\ Count([k \in 1 .. n |-> 0], 0) = n
           /\ \A a \in Addr \ {0} : Count([k \in 1 .. n |-> 0], a) = 0
<1> DEFINE z == [k \in 1 .. n |-> 0]
<1>1. n \in Nat /\ z \in [1 .. n -> Addr]
      BY AddrFacts
<1>2. z \in Object
      BY <1>1 DEF Object
<1>3. {k \in DOMAIN z : z[k] = 0} = 1 .. n /\ \A a \in Addr \ {0} : {k \in DOMAIN z : z[k] = a} = {}
      OBVIOUS
<1>4. Cardinality(1 .. n) = n
  <2>1. 1 \in Int /\ n \in Int
        BY <1>1
  <2>2. Cardinality(1 .. n) = IF 1 > n THEN 0 ELSE n - 1 + 1
        BY <2>1, FS_Interval
  <2>3. QED
        BY <2>2, <1>1
<1>5. Count(z, 0) = n
      BY <1>3, <1>4 DEF Count
<1>6. \A a \in Addr \ {0} : Count(z, a) = 0
      BY <1>3, FS_EmptySet DEF Count
<1>7. z \in Seq(Addr)
  <2> HIDE DEF z
  <2>1. QED
        BY <1>1
<1>8. QED
      BY <1>2, <1>5, <1>6, <1>7

\* ARRAY_NEW_DEFAULT counts one null per element.
LEMMA NewDefaultStep ==
    ASSUME HeapInv, NEW t \in Operand, NewDefault(t)
    PROVE  HeapInv' /\ Covering /\ Exact
<1> DEFINE obj == [k \in 1 .. Width |-> 0]
<1>1. /\ ShapeInv /\ QuietInv /\ Ready /\ rc \in [Addr -> Nat] /\ traps' \in 0 .. MaxTraps /\ t \in Slot
      /\ root' = root /\ root \in [Slot -> Addr \cup {NoRef}] /\ root[t] = NoRef
      BY AddrFacts DEF HeapInv, ShapeInv, TypeOK, NewDefault
<1>2. obj \in Object /\ obj \in Seq(Addr) /\ Count(obj, 0) = Width /\ \A a \in Addr \ {0} : Count(obj, a) = 0
  <2>1. Width \in 0 .. Width
        BY AddrFacts
  <2>2. QED
        BY <2>1, NullsCount
<1>3. rc' \in [Addr -> Nat] /\ rc'[0] = rc[0] + Width /\ \A a \in Addr \ {0} : rc'[a] = rc[a]
      BY <1>1, AddrFacts DEF NewDefault
<1>4. AllocReady(obj, <<>>, t) /\ Alloc(obj, <<>>, t)
  <2>1. Alloc(obj, <<>>, t)
        BY DEF NewDefault
  <2>2. <<>> \in Seq(Operand) /\ Apart(<<>>) /\ \A k \in DOMAIN <<>> : FALSE
        BY DEF Apart
  <2> HIDE DEF obj
  <2>3. QED
        BY <1>1, <1>2, <2>1, <2>2 DEF AllocReady
<1> HIDE DEF obj
<1>5. ASSUME NEW a \in Addr
      PROVE  /\ Roots(root', a) + Count(obj, a) + rc[a] = Roots(root, a) + rc'[a]
             /\ Roots(root', a) + Count(obj, a) + rc[a] <= Roots(root, a) + rc'[a]
             /\ Count(obj, a) \in Nat /\ rc'[a] \in Nat
  <2>1. Roots(root', a) = Roots(root, a) /\ Roots(root, a) \in Nat /\ rc[a] \in Nat /\ rc'[a] \in Nat /\ Width \in Nat
        BY <1>1, <1>3, RootsType, AddrFacts
  <2>2. Count(obj, a) = (IF a = 0 THEN Width ELSE 0) /\ rc'[a] = (IF a = 0 THEN rc[a] + Width ELSE rc[a])
        BY <1>2, <1>3
  <2>3. QED
        BY <2>1, <2>2
<1>6. \A a \in Addr : rc'[a] > 0 <=> rc[a] > 0
  <2>1. rc'[0] > 0 /\ rc[0] > 0
    <3>1. rc[0] > 0 /\ rc[0] \in Nat /\ Width \in Nat
          BY <1>1, AddrFacts DEF HeapInv, CoverInv
    <3>2. QED
          BY <1>3, <3>1
  <2>2. QED
        BY <1>3, <2>1
<1>7. HeapInv' /\ Exact
      BY <1>1, <1>3, <1>4, <1>5, <1>6, AllocStep
<1>8. Covering
  <2>1. ASSUME NEW a \in Addr
        PROVE  Total(a)' + rc[a] <= Total(a) + rc'[a]
        BY <1>1, <1>4, <1>5, AllocTotal
  <2>2. QED
        BY <2>1 DEF Covering
<1>9. QED
      BY <1>7, <1>8

\* A trap that is caught gives the null sentinel an owner that nobody counts.
LEMMA CatchTrapStep ==
    ASSUME HeapInv, NEW t \in Operand, CatchTrap(t)
    PROVE  HeapInv' /\ Exact /\ Total(0)' = Total(0) + 1
<1> DEFINE obj == <<0>>
<1>1. /\ ShapeInv /\ QuietInv /\ Ready /\ rc \in [Addr -> Nat] /\ rc' = rc /\ t \in Slot
      /\ root' = root /\ root \in [Slot -> Addr \cup {NoRef}] /\ root[t] = NoRef
      BY AddrFacts DEF HeapInv, ShapeInv, TypeOK, CatchTrap
<1>2. traps' \in 0 .. MaxTraps
      BY HeapAssumption DEF HeapInv, ShapeInv, TypeOK, CatchTrap
<1>3. obj \in Object /\ Len(obj) = 1 /\ \A a \in Addr : Count(obj, a) = One(0 = a)
  <2>1. 1 \in 0 .. Width /\ obj \in [1 .. 1 -> Addr]
        BY AddrFacts
  <2>2. obj \in Object
        BY <2>1 DEF Object
  <2>3. QED
        BY <2>2, CountSingle
<1>4. AllocReady(obj, <<>>, t) /\ Alloc(obj, <<>>, t)
  <2>1. Alloc(obj, <<>>, t)
        BY DEF CatchTrap
  <2>2. <<>> \in Seq(Operand) /\ Apart(<<>>) /\ \A k \in DOMAIN <<>> : FALSE
        BY DEF Apart
  <2> HIDE DEF obj
  <2>3. QED
        BY <1>1, <1>3, <2>1, <2>2 DEF AllocReady
<1> HIDE DEF obj
<1>5. ASSUME NEW a \in Addr
      PROVE  /\ Roots(root', a) = Roots(root, a) /\ Roots(root, a) \in Nat /\ rc[a] \in Nat /\ rc'[a] = rc[a]
             /\ Count(obj, a) = One(0 = a) /\ Count(obj, a) \in Nat /\ Total(a) \in Int
  <2>1. Roots(root', a) = Roots(root, a) /\ Roots(root, a) \in Nat /\ rc[a] \in Nat /\ rc'[a] = rc[a]
        BY <1>1, RootsType
  <2>2. Count(obj, a) = One(0 = a)
        BY <1>3
  <2>3. One(0 = a) \in Nat
        BY DEF One
  <2>4. Total(a) \in Int
    <3>1. Total(a) = Owners(a) /\ Owners(a) \in Nat
          BY <1>1, OwnersTotal
    <3>2. QED
          BY <3>1
  <2>5. QED
        BY <2>1, <2>2, <2>3, <2>4
<1>6. \A a \in Addr \ {0} : Roots(root', a) + Count(obj, a) + rc[a] = Roots(root, a) + rc'[a]
      BY <1>5 DEF One
<1>7. HeapInv' /\ Exact
      BY <1>1, <1>2, <1>4, <1>6, AllocStep
<1>8. Total(0)' + Roots(root, 0) = Total(0) + Roots(root', 0) + Count(obj, 0)
  <2>1. 0 \in Addr /\ rc'[0] \in Nat /\ Count(obj, 0) \in Nat /\ rc'[0] = rc[0]
        BY <1>1, <1>5, AddrFacts
  <2>2. QED
        BY <1>1, <1>4, <2>1, AllocTotal
<1>9. Total(0)' = Total(0) + 1
  <2>1. 0 \in Addr
        BY AddrFacts
  <2>2. Roots(root', 0) = Roots(root, 0) /\ Roots(root, 0) \in Nat /\ Count(obj, 0) = 1 /\ Total(0) \in Int
        BY <1>5, <2>1 DEF One
  <2>3. Total(0)' \in Int
    <3>1. Total(0)' = Owners(0)' /\ Owners(0)' \in Nat
          BY <1>7, <2>1, OwnersTotalNext DEF HeapInv
    <3>2. QED
          BY <3>1
  <2>4. QED
        BY <1>8, <2>2, <2>3
<1>10. QED
      BY <1>7, <1>9

-----------------------------------------------------------------------------
(***************************************************************************)
(* The collector, up to sweep: no slot, object or count changes.           *)
(***************************************************************************)
LEMMA IdleStep ==
    ASSUME HeapInv, UNCHANGED <<root, heap, rc, memVars, relVars, pend, traps>>,
           collected' \in BOOLEAN, trial' \in [Addr -> Int], grey' \subseteq Addr,
           phase' \in {"run", "place", "scan", "mark", "sweep", "exhausted"},
           QuietInv', PendInv', TrialInv'
    PROVE  HeapInv' /\ Covering /\ Exact
<1>1. ShapeInv'
      BY DEF HeapInv, ShapeInv, TypeOK, memVars, relVars, Alive
<1>2. \A a \in Addr : Owners(a)' = Owners(a) /\ Total(a)' = Total(a)
  <2>1. Edges' = Edges
        BY DEF Edges, Live, Alive, memVars, relVars
  <2>2. \A a \in Addr : Owners(a)' = Owners(a)
        BY <2>1 DEF Owners, EdgesTo, memVars, relVars
  <2>3. \A a \in Addr : Total(a)' = Total(a)
        BY DEF Total, StoreEdge, relVars
  <2>4. QED
        BY <2>2, <2>3
<1>3. CoverInv'
      BY <1>2 DEF HeapInv, CoverInv, Alive
<1>4. FreeInv' /\ CollectorNeverFaults'
      BY DEF HeapInv, FreeInv, CollectorNeverFaults, memVars, Alive, Apart
<1>5. Covering /\ Exact
  <2>1. \A a \in Addr : Total(a) = Owners(a) /\ Owners(a) \in Nat /\ rc[a] \in Nat
        BY OwnersTotal DEF HeapInv, ShapeInv, TypeOK
  <2>2. \A a \in Addr : Total(a) + rc[a] \in Int
        BY <2>1
  <2>3. QED
        BY <1>2, <2>2 DEF Covering, Exact
<1>6. QED
      BY <1>1, <1>3, <1>4, <1>5 DEF HeapInv

LEMMA PlaceCollectStep ==
    ASSUME HeapInv, PlaceCollect
    PROVE  HeapInv' /\ Covering /\ Exact
<1>1. UNCHANGED <<root, heap, rc, memVars, relVars, pend, traps>> /\ phase' = "scan" /\ collected' \in BOOLEAN
      BY DEF PlaceCollect
<1>2. trial' \in [Addr -> Int] /\ grey' \subseteq Addr
      BY DEF PlaceCollect, HeapInv, ShapeInv, TypeOK
<1>3. QuietInv' /\ PendInv' /\ TrialInv'
      BY DEF PlaceCollect, HeapInv, QuietInv, PendInv, TrialInv, relVars
<1>4. QED
      BY <1>1, <1>2, <1>3, IdleStep

LEMMA RecoverStep ==
    ASSUME HeapInv, Recover
    PROVE  HeapInv' /\ Covering /\ Exact
<1>1. UNCHANGED <<root, heap, rc, memVars, relVars, pend, traps>> /\ phase' = "run"
      BY DEF Recover
<1>2. trial' \in [Addr -> Int] /\ grey' \subseteq Addr /\ collected' \in BOOLEAN
      BY DEF Recover, HeapInv, ShapeInv, TypeOK
<1>3. QuietInv' /\ PendInv' /\ TrialInv'
      BY DEF Recover, HeapInv, QuietInv, PendInv, TrialInv
<1>4. QED
      BY <1>1, <1>2, <1>3, IdleStep

\* The heap edges to an address are among its owners.
LEMMA EdgesAreOwners ==
    ASSUME ShapeInv, NEW a \in Addr
    PROVE  /\ Cardinality(EdgesTo(a)) \in Nat /\ IsFiniteSet(EdgesTo(a))
           /\ Total(a) \in Nat /\ Owners(a) = Total(a)
           /\ Cardinality(EdgesTo(a)) <= Total(a)
           /\ a \in Consts => Cardinality(EdgesTo(a)) < Total(a)
<1>1. /\ IsFiniteSet(EdgesTo(a)) /\ Cardinality(EdgesTo(a)) \in Nat
      /\ Cardinality(EdgesTo(a)) = Cells(heap, a) - StoreEdge(a)
      BY EdgeCount
<1>2. Owners(a) = Total(a) /\ Owners(a) \in Nat
      BY OwnersTotal
<1>3. /\ Roots(root, a) \in Nat /\ Cells(heap, a) \in Nat /\ StoreEdge(a) \in Nat
      /\ Count(pend.obj, a) \in Nat /\ Count(todo, a) \in Nat /\ Count(work, a) \in Nat
      BY PartTypes
<1>4. Cardinality(EdgesTo(a)) <= Total(a) /\ (a \in Consts => Cardinality(EdgesTo(a)) < Total(a))
      BY <1>1, <1>3 DEF Total, One
<1>5. QED
      BY <1>1, <1>2, <1>4

LEMMA CountedAddr ==
    ASSUME ShapeInv
    PROVE  /\ Counted \subseteq Addr \ {0} /\ IsFiniteSet(Counted)
           /\ top \in Nat /\ top <= Limit /\ 0 .. top - 1 \subseteq Addr
           /\ \A a \in Counted : rc[a] \in Nat /\ rc[a] > 0 /\ a < top
<1>1. top \in Nat /\ top <= Limit /\ 1 <= top /\ rc \in [Addr -> Nat]
      BY AddrFacts DEF ShapeInv, TypeOK
<1>2. Counted \subseteq Addr \ {0} /\ 0 .. top - 1 \subseteq Addr
      BY <1>1, AddrFacts DEF Counted, Addr
<1>3. IsFiniteSet(Counted)
      BY <1>2, AddrFacts, FS_Subset
<1>4. QED
      BY <1>1, <1>2, <1>3 DEF Counted

\* An edge leads to a live object that is counted, or to null.
LEMMA EdgeHeld ==
    ASSUME ShapeInv, CoverInv, NEW e \in Edges
    PROVE  /\ e[1] \in Addr /\ e[1] \in Live /\ e[2] \in DOMAIN heap[e[1]]
           /\ heap[e[1]][e[2]] \in Addr
           /\ heap[e[1]][e[2]] # 0 => heap[e[1]][e[2]] \in Counted
<1> DEFINE b == heap[e[1]][e[2]]
<1>1. e[1] \in Live /\ e[2] \in 1 .. Width /\ e[2] <= Len(heap[e[1]])
      BY DEF Edges
<1>2. e[1] \in Addr /\ Alive(e[1])
      BY <1>1, AddrFacts DEF Live, ShapeInv, TypeOK, Addr
<1>3. heap[e[1]] \in Object \cup {Nil} /\ heap[e[1]] # Nil
      BY <1>2 DEF Alive, ShapeInv, TypeOK
<1>4. heap[e[1]] \in Seq(Addr) /\ DOMAIN heap[e[1]] = 1 .. Len(heap[e[1]]) /\ Len(heap[e[1]]) \in 0 .. Width
      BY <1>3, ObjectSeq
<1>5. e[2] \in DOMAIN heap[e[1]] /\ b \in Addr
      BY <1>1, <1>4
<1>6. ASSUME b # 0
      PROVE  b \in Counted
  <2>1. e \in EdgesTo(b)
        BY DEF EdgesTo
  <2>2. /\ IsFiniteSet(EdgesTo(b)) /\ Cardinality(EdgesTo(b)) \in Nat
        /\ Cardinality(EdgesTo(b)) <= Total(b) /\ Total(b) \in Nat
        BY <1>5, EdgesAreOwners
  <2>3. Cardinality(EdgesTo(b)) # 0
        BY <2>1, <2>2, FS_EmptySet
  <2>4. Total(b) > 0
    <3> HIDE DEF b
    <3>1. QED
          BY <2>2, <2>3
  <2>5. rc[b] > 0 /\ b < top
        BY <1>5, <1>6, <2>4, Held
  <2>6. b \in Nat /\ top \in Nat
    <3>1. top \in Nat
          BY CountedAddr
    <3> HIDE DEF b
    <3>2. QED
          BY <1>5, <3>1, AddrFacts
  <2> HIDE DEF b
  <2>7. b >= 1
        BY <1>6, <2>6
  <2>8. QED
        BY <2>5, <2>6, <2>7 DEF Counted
<1>7. QED
      BY <1>1, <1>2, <1>5, <1>6

\* The edges to an address are among its owners.
LEMMA InDegreeBound ==
    ASSUME ShapeInv, CoverInv, NEW a \in Addr \ {0}
    PROVE  /\ InDegree(a) \in Nat /\ Cardinality(EdgesTo(a)) \in Nat /\ Total(a) \in Nat /\ rc[a] \in Nat
           /\ InDegree(a) <= Cardinality(EdgesTo(a))
           /\ InDegree(a) = Cardinality(EdgesTo(a)) => \A e \in EdgesTo(a) : e[1] \in Counted
           /\ Cardinality(EdgesTo(a)) <= Total(a) /\ Total(a) <= rc[a]
<1> DEFINE D == {e \in Edges : e[1] \in Counted /\ heap[e[1]][e[2]] = a}
<1>1. /\ IsFiniteSet(EdgesTo(a)) /\ Cardinality(EdgesTo(a)) \in Nat
      /\ Cardinality(EdgesTo(a)) = Cells(heap, a) - StoreEdge(a)
      BY EdgeCount
<1>2. D \in SUBSET EdgesTo(a)
      BY DEF EdgesTo
<1>3. /\ IsFiniteSet(D) /\ Cardinality(D) <= Cardinality(EdgesTo(a)) /\ Cardinality(D) \in Nat
      /\ Cardinality(EdgesTo(a)) = Cardinality(D) => EdgesTo(a) = D
      BY <1>1, <1>2, FS_Subset, FS_CardinalityType
<1>4. Owners(a) = Total(a) /\ Owners(a) \in Nat /\ rc[a] \in Nat /\ rc[a] >= Owners(a)
      BY OwnersTotal DEF CoverInv, ShapeInv, TypeOK
<1>5. /\ Roots(root, a) \in Nat /\ Cells(heap, a) \in Nat /\ StoreEdge(a) \in Nat
      /\ Count(pend.obj, a) \in Nat /\ Count(todo, a) \in Nat /\ Count(work, a) \in Nat
      BY PartTypes
<1>6. Cardinality(EdgesTo(a)) <= Total(a)
      BY <1>1, <1>5 DEF Total, One
<1>7. InDegree(a) = Cardinality(D)
      BY DEF InDegree
<1>8. InDegree(a) = Cardinality(EdgesTo(a)) => \A e \in EdgesTo(a) : e[1] \in Counted
      BY <1>3, <1>7
<1>9. QED
      BY <1>1, <1>3, <1>4, <1>6, <1>7, <1>8

\* scan finds no dead child and no negative rest.
LEMMA ScanStep ==
    ASSUME HeapInv, Scan
    PROVE  HeapInv' /\ Covering /\ Exact
<1>1. ShapeInv /\ CoverInv /\ rc \in [Addr -> Nat] /\ Counted \subseteq Addr \ {0}
      BY CountedAddr DEF HeapInv, ShapeInv, TypeOK
<1>2. \A a \in Counted : InDegree(a) \in Nat /\ rc[a] \in Nat /\ InDegree(a) <= rc[a]
  <2>1. TAKE a \in Counted
  <2>2. /\ InDegree(a) \in Nat /\ Cardinality(EdgesTo(a)) \in Nat /\ Total(a) \in Nat /\ rc[a] \in Nat
        /\ InDegree(a) <= Cardinality(EdgesTo(a)) /\ Cardinality(EdgesTo(a)) <= Total(a) /\ Total(a) <= rc[a]
        BY <1>1, InDegreeBound
  <2>3. QED
        BY <2>2
<1>3. phase' = "mark"
  <2>1. \A e \in Edges : heap[e[1]][e[2]] \in Counted \cup {0}
        BY <1>1, EdgeHeld
  <2>2. \A a \in Counted : ~(rc[a] < InDegree(a))
        BY <1>2
  <2>3. QED
        BY <2>1, <2>2 DEF Scan
<1>4. trial' = [a \in Addr |-> IF a \in Counted THEN rc[a] - InDegree(a) ELSE rc[a]]
      BY DEF Scan
<1>5. trial' \in [Addr -> Int] /\ \A a \in Counted : trial'[a] = rc[a] - InDegree(a) /\ trial'[a] >= 0
  <2>1. \A a \in Addr : trial'[a] \in Int
        BY <1>1, <1>2, <1>4
  <2>2. \A a \in Counted : trial'[a] = rc[a] - InDegree(a)
        BY <1>1, <1>4
  <2>3. \A a \in Counted : rc[a] - InDegree(a) >= 0
        BY <1>2
  <2>4. QED
        BY <1>4, <2>1, <2>2, <2>3
<1>6. UNCHANGED <<root, heap, rc, memVars, relVars, pend, traps, collected>> /\ grey' = {}
      BY DEF Scan
<1>7. Counted' = Counted /\ \A a \in Addr : InDegree(a)' = InDegree(a)
      BY <1>6 DEF Counted, InDegree, Edges, Live, Alive, memVars, relVars
<1>8. TrialInv'
  <2>1. \A a \in Counted : trial'[a] \in Int
        BY <1>1, <1>5
  <2>2. \A a \in Counted' : trial'[a] >= 0 => trial'[a] = rc'[a] - InDegree(a)'
        BY <1>1, <1>5, <1>6, <1>7
  <2>3. \A a \in Counted' : ~(trial'[a] < 0)
        BY <1>5, <1>7, <2>1
  <2>4. QED
        BY <1>3, <1>6, <2>2, <2>3 DEF TrialInv
<1>9. QuietInv' /\ PendInv'
      BY <1>3, <1>6 DEF HeapInv, QuietInv, PendInv, Scan, relVars
<1>10. collected' \in BOOLEAN
      BY <1>6 DEF HeapInv, ShapeInv, TypeOK
<1>11. QED
      BY <1>3, <1>5, <1>6, <1>8, <1>9, <1>10, IdleStep

\* Only scan, mark and sweep write the collector's table; the counts stay.
LEMMA CollectorFrame ==
    ASSUME UNCHANGED <<root, heap, rc, memVars, relVars, pend, traps>>
    PROVE  /\ Counted' = Counted /\ Edges' = Edges
           /\ \A a \in Addr : InDegree(a)' = InDegree(a) /\ EdgesTo(a)' = EdgesTo(a)
BY DEF Counted, InDegree, EdgesTo, Edges, Live, Alive, memVars, relVars

\* Marking a set of unmarked objects.
LEMMA FlipFacts ==
    ASSUME trial \in [Addr -> Int], NEW S, S \subseteq Addr, \A a \in S : trial[a] >= 0
    PROVE  /\ Flip(S) \in [Addr -> Int]
           /\ \A a \in S : Flip(S)[a] < 0
           /\ \A a \in Addr \ S : Flip(S)[a] = trial[a]
<1>1. ASSUME NEW a \in Addr
      PROVE  - trial[a] - 1 \in Int /\ (trial[a] >= 0 => - trial[a] - 1 < 0)
  <2>1. trial[a] \in Int
        OBVIOUS
  <2>2. QED
        BY <2>1
<1>2. QED
      BY <1>1 DEF Flip

\* A turn of mark's loops: the set it marks becomes grey, and what it takes off the
\* worklist has no unmarked child left.
LEMMA MarkTurn ==
    ASSUME HeapInv, phase = "mark",
           UNCHANGED <<root, heap, rc, memVars, relVars, pend, traps, collected, phase>>,
           NEW S, S \subseteq {b \in Counted : trial[b] >= 0}, trial' = Flip(S),
           S \subseteq grey', \A x \in grey' : x \in S \/ x \in grey,
           \A x \in grey : x \notin grey' =>
              \A k \in DOMAIN heap[x] : heap[x][k] \in Counted => heap[x][k] \in S \/ trial[heap[x][k]] < 0,
           \A x \in S : Vouched(x)
    PROVE  HeapInv' /\ Covering /\ Exact
<1>1. /\ Counted \subseteq Addr \ {0} /\ Counted' = Counted
      /\ \A a \in Addr : InDegree(a)' = InDegree(a) /\ EdgesTo(a)' = EdgesTo(a)
      /\ trial \in [Addr -> Int]
      BY CountedAddr, CollectorFrame DEF HeapInv, ShapeInv, TypeOK
<1>2. /\ \A a \in Counted : trial[a] >= 0 => trial[a] = rc[a] - InDegree(a)
      /\ grey \subseteq {a \in Counted : trial[a] < 0}
      /\ \A a \in Counted \ grey : trial[a] < 0 =>
            \A k \in DOMAIN heap[a] : heap[a][k] \in Counted => trial[heap[a][k]] < 0
      BY DEF HeapInv, TrialInv
<1>3. S \subseteq Counted /\ \A a \in S : trial[a] >= 0
      OBVIOUS
<1>4. /\ trial' \in [Addr -> Int] /\ \A a \in S : trial'[a] < 0
      /\ \A a \in Counted : a \notin S => trial'[a] = trial[a]
  <2>1. S \subseteq Addr
        BY <1>1, <1>3
  <2>2. QED
        BY <1>1, <1>3, <2>1, FlipFacts
<1>5. \A a \in Counted : ~(trial'[a] < 0 /\ trial'[a] >= 0) /\ ~(trial[a] < 0 /\ trial[a] >= 0)
                         /\ (trial[a] < 0 \/ trial[a] >= 0)
  <2>1. \A a \in Counted : trial'[a] \in Int /\ trial[a] \in Int
        BY <1>1, <1>4
  <2>2. QED
        BY <2>1
<1>6. \A a \in Counted : trial[a] < 0 => trial'[a] < 0
      BY <1>3, <1>4, <1>5
<1>7. TrialInv'
  <2>1. \A a \in Counted' : trial'[a] >= 0 => trial'[a] = rc'[a] - InDegree(a)'
    <3>1. TAKE a \in Counted'
    <3>2. HAVE trial'[a] >= 0
    <3>3. a \in Counted /\ a \in Addr /\ a \notin S
          BY <1>1, <1>4, <1>5, <3>2
    <3>4. trial'[a] = trial[a] /\ InDegree(a)' = InDegree(a) /\ rc'[a] = rc[a]
          BY <1>1, <1>4, <3>3
    <3>5. QED
          BY <1>2, <3>2, <3>3, <3>4
  <2>2. grey' \subseteq {a \in Counted' : trial'[a] < 0}
        BY <1>1, <1>2, <1>3, <1>4, <1>6
  <2>3. ASSUME NEW a \in Counted \ grey', trial'[a] < 0, NEW k \in DOMAIN heap[a], heap[a][k] \in Counted
        PROVE  trial'[heap[a][k]] < 0
    <3>1. a \notin S /\ trial[a] < 0
          BY <1>4, <2>3
    <3>2. CASE a \notin grey
          BY <1>2, <1>6, <2>3, <3>1, <3>2
    <3>3. CASE a \in grey
          BY <1>4, <1>6, <2>3, <3>3
    <3>4. QED
          BY <3>2, <3>3
  <2>4. \A a \in Counted' \ grey' : trial'[a] < 0 =>
            \A k \in DOMAIN heap'[a] : heap'[a][k] \in Counted' => trial'[heap'[a][k]] < 0
        BY <1>1, <2>3
  <2>5. \A a \in Counted' : trial'[a] < 0 => Vouched(a)'
    <3>1. TAKE a \in Counted'
    <3>2. HAVE trial'[a] < 0
    <3>3. a \in Counted /\ a \in Addr
          BY <1>1
    <3>4. Vouched(a)
      <4>1. CASE a \in S
            BY <4>1
      <4>2. CASE a \notin S
            BY <1>4, <3>2, <3>3, <4>2 DEF HeapInv, TrialInv
      <4>3. QED
            BY <4>1, <4>2
    <3>5. QED
          BY <1>1, <1>6, <3>3, <3>4 DEF Vouched
  <2>6. phase' # "sweep"
        OBVIOUS
  <2>7. QED
        BY <2>1, <2>2, <2>4, <2>5, <2>6 DEF TrialInv
<1>8. QuietInv' /\ PendInv'
      BY DEF HeapInv, QuietInv, PendInv, relVars
<1>9. collected' \in BOOLEAN /\ grey' \subseteq Addr
      BY <1>1, <1>2, <1>3 DEF HeapInv, ShapeInv, TypeOK
<1>10. QED
      BY <1>4, <1>7, <1>8, <1>9, IdleStep

LEMMA MarkRootsStep ==
    ASSUME HeapInv, MarkRoots
    PROVE  HeapInv' /\ Covering /\ Exact
<1>1. /\ phase = "mark" /\ grey = {} /\ grey' = {a \in Counted : trial[a] > 0} /\ trial' = Flip(grey')
      /\ UNCHANGED <<root, heap, rc, memVars, relVars, pend, traps, collected, phase>>
      BY DEF MarkRoots
<1>2. \A a \in Counted : trial[a] > 0 => trial[a] >= 0
  <2>1. \A a \in Counted : trial[a] \in Int
        BY CountedAddr DEF HeapInv, ShapeInv, TypeOK
  <2>2. QED
        BY <2>1
<1>3. \A x \in grey' : Vouched(x)
  <2>1. TAKE x \in grey'
  <2>2. x \in Counted /\ trial[x] > 0 /\ trial[x] = rc[x] - InDegree(x)
        BY <1>1, <1>2 DEF HeapInv, TrialInv
  <2>3. InDegree(x) \in Nat /\ rc[x] \in Nat
        BY <2>2, CountedAddr, InDegreeBound DEF HeapInv
  <2>4. rc[x] > InDegree(x)
        BY <2>2, <2>3
  <2>5. QED
        BY <2>4 DEF Vouched
<1>4. QED
      BY <1>1, <1>2, <1>3, MarkTurn

LEMMA MarkStepStep ==
    ASSUME HeapInv, MarkStep
    PROVE  HeapInv' /\ Covering /\ Exact
<1>1. /\ phase = "mark"
      /\ UNCHANGED <<root, heap, rc, memVars, relVars, pend, traps, collected, phase>>
      BY DEF MarkStep
<1>2. PICK a \in grey :
          /\ grey' = (grey \ {a})
                     \cup ({heap[a][k] : k \in DOMAIN heap[a]} \cap {b \in Counted : trial[b] >= 0})
          /\ trial' = Flip({heap[a][k] : k \in DOMAIN heap[a]} \cap {b \in Counted : trial[b] >= 0})
      BY DEF MarkStep
<1> DEFINE S == {heap[a][k] : k \in DOMAIN heap[a]} \cap {b \in Counted : trial[b] >= 0}
<1>3. \A b \in Counted : trial[b] < 0 \/ trial[b] >= 0
  <2>1. \A b \in Counted : trial[b] \in Int
        BY CountedAddr DEF HeapInv, ShapeInv, TypeOK
  <2>2. QED
        BY <2>1
<1>4. \A x \in grey : x \notin grey' =>
         \A k \in DOMAIN heap[x] : heap[x][k] \in Counted => heap[x][k] \in S \/ trial[heap[x][k]] < 0
      BY <1>2, <1>3
<1>5. S \subseteq {b \in Counted : trial[b] >= 0} /\ trial' = Flip(S) /\ S \subseteq grey'
      /\ \A x \in grey' : x \in S \/ x \in grey
      BY <1>2
<1>6. \A x \in S : Vouched(x)
  <2>1. TAKE x \in S
  <2>2. PICK k \in DOMAIN heap[a] : heap[a][k] = x
        OBVIOUS
  <2>3. a \in Counted /\ trial[a] < 0 /\ x \in Addr
        BY <1>1, CountedAddr DEF HeapInv, TrialInv
  <2>4. a \in Addr /\ a \in 0 .. top - 1 /\ Alive(a)
    <3>1. a \in Addr \ {0} /\ rc[a] > 0 /\ a < top /\ top \in Nat
          BY <2>3, CountedAddr DEF HeapInv
    <3>2. a \in Nat
          BY <3>1, AddrFacts
    <3>3. QED
          BY <3>1, <3>2 DEF HeapInv, CoverInv
  <2>5. heap[a] \in Object \cup {Nil}
        BY <2>4 DEF HeapInv, ShapeInv, TypeOK
  <2>6. k \in 1 .. Width /\ k <= Len(heap[a])
        BY <2>2, <2>5, ObjectSeq
  <2>7. <<a, k>> \in EdgesTo(x)
    <3>1. store = NoStore
          BY <1>1 DEF HeapInv, QuietInv
    <3>2. store.addr # a
          BY <2>4, <3>1, AddrFacts DEF NoStore
    <3>3. <<a, k>> \in Live \X (1 .. Width) /\ <<a, k>>[1] = a /\ <<a, k>>[2] = k
          BY <2>4, <2>6 DEF Live
    <3>4. QED
          BY <2>2, <2>6, <3>2, <3>3 DEF EdgesTo, Edges
  <2>8. QED
        BY <2>3, <2>7 DEF Vouched
<1> HIDE DEF S
<1>7. QED
      BY <1>1, <1>4, <1>5, <1>6, MarkTurn

LEMMA MarkDoneStep ==
    ASSUME HeapInv, MarkDone
    PROVE  HeapInv' /\ Covering /\ Exact
<1>1. /\ phase = "mark" /\ grey = {} /\ phase' = "sweep" /\ \A a \in Counted : trial[a] <= 0
      /\ UNCHANGED <<root, heap, rc, memVars, relVars, pend, traps, collected, trial, grey>>
      BY DEF MarkDone
<1>2. Counted' = Counted /\ \A a \in Addr : InDegree(a)' = InDegree(a) /\ EdgesTo(a)' = EdgesTo(a)
      BY <1>1, CollectorFrame
<1>3. Counted \subseteq Addr
      BY CountedAddr DEF HeapInv
<1>4. TrialInv'
      BY <1>1, <1>2, <1>3 DEF HeapInv, TrialInv, Vouched
<1>5. QuietInv' /\ PendInv'
      BY <1>1 DEF HeapInv, QuietInv, PendInv, relVars
<1>6. trial' \in [Addr -> Int] /\ grey' \subseteq Addr /\ collected' \in BOOLEAN
      BY <1>1 DEF HeapInv, ShapeInv, TypeOK
<1>7. QED
      BY <1>1, <1>4, <1>5, <1>6, IdleStep

-----------------------------------------------------------------------------
(***************************************************************************)
(* Placing the object.                                                     *)
(***************************************************************************)
\* An address that holds no object has no count and no owner.
LEMMA VacantFacts ==
    ASSUME ShapeInv, CoverInv, NEW a \in Addr, ~Alive(a)
    PROVE  heap[a] = Nil /\ a # 0 /\ a >= Base /\ rc[a] = 0
<1>1. heap[a] = Nil
      BY DEF Alive
<1>2. \A b \in 0 .. Base - 1 : heap[b] # Nil
  <2>1. TAKE b \in 0 .. Base - 1
  <2>2. heap[b] = <<>>
        BY DEF ShapeInv
  <2>3. QED
        BY <2>2 DEF Nil
<1>3. a \in Nat /\ Base \in Nat /\ 1 <= Base
      BY AddrFacts
<1>4. a >= Base
      BY <1>1, <1>2, <1>3
<1>5. a # 0
      BY <1>3, <1>4
<1>6. rc[a] \in Nat /\ ~(rc[a] > 0)
      BY <1>5 DEF ShapeInv, TypeOK, CoverInv
<1>7. QED
      BY <1>1, <1>4, <1>5, <1>6

LEMMA PlacedTotal ==
    ASSUME HeapInv, phase = "place", NEW a \in Addr, ~Alive(a), Placed(a), UNCHANGED relVars,
           NEW x \in Addr
    PROVE  Total(x)' = Total(x) + One(a = x)
<1>1. heap[a] = Nil /\ heap' = [heap EXCEPT ![a] = pend.obj] /\ pend.obj \in Object /\ heap \in [Addr -> Object \cup {Nil}]
      BY VacantFacts DEF HeapInv, ShapeInv, TypeOK, Placed
<1>2. store = NoStore /\ store' = NoStore /\ todo' = todo /\ work' = work /\ pend' = NoPend
      BY DEF HeapInv, QuietInv, Placed, relVars
<1>3. Cells(heap', x) = Cells(heap, x) + Count(pend.obj, x)
  <2>1. Replaced(heap, heap', a)
        BY <1>1 DEF Replaced
  <2>2. Cells(heap', x) + Count(heap[a], x) = Cells(heap, x) + Count(heap'[a], x)
        BY <2>1, CellsUpdate
  <2>3. Count(heap[a], x) = 0 /\ heap'[a] = pend.obj
        BY <1>1, ObjectSeq
  <2>4. Cells(heap', x) \in Nat
        BY CellsType
  <2>5. QED
        BY <2>2, <2>3, <2>4
<1>4. Roots(root', x) = Roots(root, x) + One(a = x)
  <2>1. PICK t \in Operand : pend.dst = {t} /\ root[t] = NoRef
        BY DEF HeapInv, PendInv
  <2>2. t \in Slot /\ root'[t] = a /\ \A s \in Slot \ {t} : root'[s] = root[s]
        BY <2>1, AddrFacts DEF Placed
  <2>3. Roots(root', x) + One(root[t] = x) = Roots(root, x) + One(root'[t] = x)
        BY <2>2, RootsUpdate
  <2>4. Roots(root', x) \in Nat /\ Roots(root, x) \in Nat /\ NoRef # x
        BY RootsType, AddrFacts
  <2>5. QED
        BY <2>1, <2>2, <2>3, <2>4 DEF One
<1>5. Count(NoPend.obj, x) = 0 /\ StoreEdge(x)' = 0 /\ StoreEdge(x) = 0
      BY <1>2, CountEmpty DEF NoPend, StoreEdge, One
<1>6. /\ Roots(root, x) \in Nat /\ Cells(heap, x) \in Nat
      /\ Count(pend.obj, x) \in Nat /\ Count(todo, x) \in Nat /\ Count(work, x) \in Nat
      BY PartTypes DEF HeapInv
<1>7. /\ Total(x)' = Roots(root', x) + Cells(heap', x) - StoreEdge(x)' + One(x \in Consts) + Count(NoPend.obj, x)
              + Count(todo, x) + Count(work, x) + One(store.addr = x) + One(store.val = x)
      /\ Total(x) = Roots(root, x) + Cells(heap, x) - StoreEdge(x) + One(x \in Consts) + Count(pend.obj, x)
              + Count(todo, x) + Count(work, x) + One(store.addr = x) + One(store.val = x)
      BY <1>2 DEF Total
<1>8. QED
      BY <1>3, <1>4, <1>5, <1>6, <1>7 DEF One

\* The object is written at a vacant address; its count is the slot's.
LEMMA PlacedStep ==
    ASSUME HeapInv, phase = "place", NEW a \in Addr, ~Alive(a), Placed(a),
           UNCHANGED <<target, relVars, trial, grey, traps>>,
           top' \in Base .. Limit, top <= top', a < top', cap' \in top' .. 2 * Limit,
           free' \in Seq(Addr), FreeInv'
    PROVE  HeapInv' /\ Covering /\ Exact
<1>1. heap[a] = Nil /\ a # 0 /\ a >= Base /\ rc[a] = 0
      BY VacantFacts DEF HeapInv
<1>2. /\ heap' = [heap EXCEPT ![a] = pend.obj] /\ pend.obj \in Object /\ heap \in [Addr -> Object \cup {Nil}]
      /\ rc' = [rc EXCEPT ![a] = 1] /\ rc \in [Addr -> Nat]
      /\ root' = [s \in Slot |-> IF s \in pend.dst THEN a ELSE root[s]] /\ root \in [Slot -> Addr \cup {NoRef}]
      BY DEF HeapInv, ShapeInv, TypeOK, Placed
<1>3. pend.obj # Nil
  <2>1. Nil \in Object \cup {Nil}
        OBVIOUS
  <2>2. Nil \notin Object
        BY <2>1, ObjectSeq
  <2>3. QED
        BY <1>2, <2>2
<1>4. \A x \in Addr : /\ x # a => heap'[x] = heap[x] /\ rc'[x] = rc[x]
                      /\ heap'[a] = pend.obj /\ rc'[a] = 1
      BY <1>2
<1>5. store = NoStore /\ store' = store /\ todo' = todo /\ work' = work
      BY DEF HeapInv, QuietInv, relVars
<1>6. TypeOK'
  <2>1. heap' \in [Addr -> Object \cup {Nil}]
        BY <1>2
  <2>2. rc' \in [Addr -> Nat]
        BY <1>2
  <2>3. root' \in [Slot -> Addr \cup {NoRef}]
        BY <1>2
  <2>4. pend' \in [obj : Object, ops : Seq(Operand), dst : SUBSET Operand]
    <3>1. <<>> \in Object
      <4>1. 0 \in 0 .. Width /\ <<>> \in [1 .. 0 -> Addr]
            BY AddrFacts
      <4>2. QED
            BY <4>1 DEF Object
    <3>2. <<>> \in Seq(Operand)
          OBVIOUS
    <3>3. QED
          BY <3>1, <3>2 DEF Placed, NoPend
  <2>5. QED
        BY <1>5, <2>1, <2>2, <2>3, <2>4 DEF HeapInv, ShapeInv, TypeOK, Placed
<1>7. ShapeInv'
  <2>1. \A b \in 0 .. Base - 1 : heap'[b] = <<>>
    <3>1. \A b \in 0 .. Base - 1 : b \in Addr /\ b # a
          BY <1>1, AddrFacts
    <3>2. QED
          BY <1>4, <3>1 DEF HeapInv, ShapeInv
  <2>2. \A x \in Addr : Alive(x)' => x < top'
    <3>1. \A x \in Addr : x < top => x < top'
      <4>1. \A x \in Addr : x \in Int /\ top \in Int /\ top' \in Int
            BY AddrFacts DEF HeapInv, ShapeInv, TypeOK
      <4>2. QED
            BY <4>1
    <3>2. QED
          BY <1>4, <3>1 DEF HeapInv, ShapeInv, Alive
  <2>3. QED
        BY <1>5, <1>6, <2>1, <2>2 DEF ShapeInv
<1>8. \A x \in Addr : Total(x)' + rc[x] = Total(x) + rc'[x] /\ Total(x)' + rc[x] <= Total(x) + rc'[x]
  <2>1. TAKE x \in Addr
  <2>2. Total(x)' = Total(x) + One(a = x)
        BY PlacedTotal
  <2>3. Total(x) \in Nat /\ rc[x] \in Nat
        BY <1>2, EdgesAreOwners DEF HeapInv
  <2>4. rc'[x] = rc[x] + One(a = x)
        BY <1>1, <1>4, <2>3 DEF One
  <2>5. One(a = x) \in Nat
        BY DEF One
  <2>6. QED
        BY <2>2, <2>3, <2>4, <2>5
<1>9. CoverInv'
  <2>1. rc'[0] > 0
        BY <1>1, <1>4, AddrFacts DEF HeapInv, CoverInv
  <2>2. \A x \in Addr \ {0} : Alive(x)' <=> rc'[x] > 0
        BY <1>3, <1>4 DEF HeapInv, CoverInv, Alive
  <2>3. QED
        BY <1>7, <1>8, <2>1, <2>2, CoverStep DEF HeapInv
<1>10. QuietInv' /\ PendInv' /\ TrialInv' /\ CollectorNeverFaults'
      BY DEF QuietInv, PendInv, TrialInv, CollectorNeverFaults, Placed
<1>11. QED
      BY <1>7, <1>8, <1>9, <1>10 DEF HeapInv, Covering, Exact

\* reuse: the address on top of the free list.
LEMMA PlaceReuseStep ==
    ASSUME HeapInv, PlaceReuse
    PROVE  HeapInv' /\ Covering /\ Exact
<1> DEFINE a == Last(free)
<1>1. /\ phase = "place" /\ free # <<>> /\ Placed(a) /\ free' = Front(free)
      /\ UNCHANGED <<top, cap, target, relVars, trial, grey, traps>>
      BY DEF PlaceReuse
<1>2. /\ Apart(free) /\ {free[k] : k \in DOMAIN free} = {b \in 0 .. top - 1 : ~Alive(b)}
      /\ free \in Seq(Addr)
      BY DEF HeapInv, FreeInv, ShapeInv, TypeOK
<1>3. /\ Apart(Front(free)) /\ Front(free) \in Seq(Addr) /\ a \in Addr
      /\ \E k \in DOMAIN free : free[k] = a
      /\ {Front(free)[k] : k \in DOMAIN Front(free)} = {free[k] : k \in DOMAIN free} \ {a}
      BY <1>1, <1>2, ApartFront
<1> HIDE DEF a
<1>4. a \in 0 .. top - 1 /\ ~Alive(a)
      BY <1>2, <1>3
<1>5. top \in Base .. Limit /\ cap \in top .. 2 * Limit /\ top \in Int
      BY AddrFacts DEF HeapInv, ShapeInv, TypeOK
<1>6. heap' = [heap EXCEPT ![a] = pend.obj] /\ pend.obj \in Object /\ heap \in [Addr -> Object \cup {Nil}]
      BY <1>1 DEF HeapInv, ShapeInv, TypeOK, Placed
<1>7. pend.obj # Nil
  <2>1. Nil \in Object \cup {Nil}
        OBVIOUS
  <2>2. QED
        BY <1>6, <2>1, ObjectSeq
<1>8. FreeInv'
  <2>1. \A b \in 0 .. top - 1 : b \in Addr
        BY CountedAddr DEF HeapInv
  <2>2. \A b \in 0 .. top - 1 : ~Alive(b)' <=> ~Alive(b) /\ b # a
        BY <1>3, <1>6, <1>7, <2>1 DEF Alive
  <2>3. {b \in 0 .. top - 1 : ~Alive(b)'} = {b \in 0 .. top - 1 : ~Alive(b)} \ {a}
        BY <2>2
  <2>4. {free'[k] : k \in DOMAIN free'} = {b \in 0 .. top' - 1 : ~Alive(b)'}
        BY <1>1, <1>2, <1>3, <2>3
  <2>5. QED
        BY <1>1, <1>3, <2>4 DEF FreeInv, Apart
<1>9. QED
      BY <1>1, <1>3, <1>4, <1>5, <1>8, PlacedStep

\* The heap slice grows by one.
LEMMA PlaceAppendStep ==
    ASSUME HeapInv, PlaceAppend
    PROVE  HeapInv' /\ Covering /\ Exact
<1>1. /\ phase = "place" /\ free = <<>> /\ Placed(top) /\ top' = top + 1 /\ ~(top >= Limit)
      /\ cap' = (IF top = cap THEN 2 * cap ELSE cap)
      /\ UNCHANGED <<free, target, relVars, trial, grey, traps>>
      BY DEF PlaceAppend, Limited, Full
<1>2. /\ top \in Nat /\ cap \in Nat /\ Base \in Nat /\ 1 <= Base /\ Base <= top /\ top < Limit /\ Limit \in Nat
      /\ top <= cap /\ cap <= 2 * Limit
      BY <1>1, AddrFacts DEF HeapInv, ShapeInv, TypeOK
<1>3. top \in Addr /\ top' \in Base .. Limit /\ top <= top' /\ top < top' /\ cap' \in top' .. 2 * Limit
      BY <1>1, <1>2 DEF Addr
<1>4. ~Alive(top)
      BY <1>2, <1>3 DEF HeapInv, ShapeInv
<1>5. heap' = [heap EXCEPT ![top] = pend.obj] /\ pend.obj \in Object /\ heap \in [Addr -> Object \cup {Nil}]
      BY <1>1 DEF HeapInv, ShapeInv, TypeOK, Placed
<1>6. pend.obj # Nil
  <2>1. Nil \in Object \cup {Nil}
        OBVIOUS
  <2>2. QED
        BY <1>5, <2>1, ObjectSeq
<1>7. FreeInv'
  <2>1. \A b \in 0 .. top - 1 : b \in Addr /\ b # top
        BY <1>2, CountedAddr DEF HeapInv
  <2>2. \A b \in 0 .. top - 1 : Alive(b)
        BY <1>1 DEF HeapInv, FreeInv
  <2>3. \A b \in 0 .. top' - 1 : b = top \/ b \in 0 .. top - 1
        BY <1>1, <1>2
  <2>4. \A b \in 0 .. top' - 1 : Alive(b)'
        BY <1>3, <1>5, <1>6, <2>1, <2>2, <2>3 DEF Alive
  <2>5. free' = <<>> /\ Apart(<<>>) /\ {<<>>[k] : k \in DOMAIN <<>>} = {}
        BY <1>1 DEF Apart
  <2>6. QED
        BY <2>4, <2>5 DEF FreeInv, Apart
<1>8. free' \in Seq(Addr)
      BY <1>1
<1>9. QED
      BY <1>1, <1>3, <1>4, <1>7, <1>8, PlacedStep

LEMMA GivenBackTotal ==
    ASSUME ShapeInv, UNCHANGED <<heap, relVars, rc>>, pend' = NoPend, NEW a \in Addr,
           Roots(root', a) <= Roots(root, a) + Count(pend.obj, a)
    PROVE  Total(a)' + rc[a] <= Total(a) + rc'[a]
<1>1. Count(NoPend.obj, a) = 0 /\ StoreEdge(a)' = StoreEdge(a)
      BY CountEmpty DEF NoPend, StoreEdge, relVars
<1>2. /\ Roots(root, a) \in Nat /\ Cells(heap, a) \in Nat /\ StoreEdge(a) \in Nat /\ Roots(root', a) \in Nat
      /\ Count(pend.obj, a) \in Nat /\ Count(todo, a) \in Nat /\ Count(work, a) \in Nat
      BY PartTypes, RootsType
<1>3. /\ Total(a)' = Roots(root', a) + Cells(heap, a) - StoreEdge(a) + One(a \in Consts) + Count(NoPend.obj, a)
              + Count(todo, a) + Count(work, a) + One(store.addr = a) + One(store.val = a)
      /\ Total(a) = Roots(root, a) + Cells(heap, a) - StoreEdge(a) + One(a \in Consts) + Count(pend.obj, a)
              + Count(todo, a) + Count(work, a) + One(store.addr = a) + One(store.val = a)
      BY <1>1 DEF Total, relVars
<1>4. rc[a] \in Nat /\ rc'[a] = rc[a]
      BY DEF ShapeInv, TypeOK
<1>5. QED
      BY <1>1, <1>2, <1>3, <1>4 DEF One

\* An allocation that fails: some of the operands are back in their slots, the others
\* are nobody's.  Owners only go down, so counts still cover them.
LEMMA PlaceExhaustedStep ==
    ASSUME HeapInv, PlaceExhausted
    PROVE  HeapInv' /\ Covering
<1>1. /\ phase = "place" /\ pend' = NoPend /\ collected' = FALSE /\ phase' = "exhausted"
      /\ UNCHANGED <<heap, rc, memVars, relVars, trial, grey, traps>>
      BY DEF PlaceExhausted
<1>2. PICK n \in {0, 1, Len(pend.ops)} :
          root' = [s \in Slot |->
                      IF \E k \in DOMAIN pend.ops : k <= n /\ pend.ops[k] = s
                        THEN pend.obj[CHOOSE k \in DOMAIN pend.ops : pend.ops[k] = s]
                        ELSE root[s]]
      BY DEF PlaceExhausted
<1> DEFINE ops == pend.ops
           obj == pend.obj
<1>3. /\ ops \in Seq(Operand) /\ ops \in Seq(Slot) /\ obj \in Object /\ obj \in Seq(Addr)
      /\ DOMAIN ops = 1 .. Len(ops) /\ DOMAIN obj = 1 .. Len(obj) /\ Len(ops) \in Nat /\ Len(obj) \in Nat
  <2>1. ops \in Seq(Operand) /\ obj \in Object
        BY DEF HeapInv, ShapeInv, TypeOK
  <2> HIDE DEF ops, obj
  <2>2. ops \in Seq(Slot)
        BY <2>1, AddrFacts
  <2>3. obj # Nil
    <3>1. Nil \in Object \cup {Nil}
          OBVIOUS
    <3>2. QED
          BY <2>1, <3>1, ObjectSeq
  <2>4. obj \in Seq(Addr)
        BY <2>1, <2>3, ObjectSeq
  <2>5. QED
        BY <2>1, <2>2, <2>4
<1>4. Len(ops) <= Len(obj) /\ Apart(ops)
  <2>1. ops = <<>> \/ Len(ops) = Len(obj)
        BY <1>1 DEF HeapInv, PendInv
  <2>2. Apart(ops)
        BY <1>1 DEF HeapInv, PendInv
  <2>3. ops = <<>> => Len(ops) = 0
        OBVIOUS
  <2>4. Len(ops) \in Nat /\ Len(obj) \in Nat
        BY <1>3
  <2>5. Len(ops) = 0 \/ Len(ops) = Len(obj)
        BY <2>1, <2>3
  <2> HIDE DEF ops, obj
  <2>6. Len(ops) <= Len(obj)
        BY <2>4, <2>5
  <2>7. QED
        BY <2>2, <2>6
<1>5. \A s \in Slot : root'[s] = root[s] \/ \E k \in DOMAIN ops : ops[k] = s /\ root'[s] = obj[k]
  <2>1. TAKE s \in Slot
  <2>2. CASE \E k \in DOMAIN ops : k <= n /\ ops[k] = s
    <3> DEFINE c == CHOOSE k \in DOMAIN ops : ops[k] = s
    <3>1. c \in DOMAIN ops /\ ops[c] = s
          BY <2>2
    <3>2. root'[s] = obj[c]
          BY <1>2, <2>2
    <3>3. QED
          BY <3>1, <3>2
  <2>3. CASE ~ \E k \in DOMAIN ops : k <= n /\ ops[k] = s
        BY <1>2, <2>3
  <2>4. QED
        BY <2>2, <2>3
<1>6. root' \in [Slot -> Addr \cup {NoRef}]
  <2>1. \A s \in Slot : root'[s] \in Addr \cup {NoRef}
    <3>1. TAKE s \in Slot
    <3>2. \A k \in DOMAIN ops : obj[k] \in Addr
      <4> HIDE DEF ops, obj
      <4>1. QED
            BY <1>3, <1>4
    <3>3. root[s] \in Addr \cup {NoRef}
          BY DEF HeapInv, ShapeInv, TypeOK
    <3>4. QED
          BY <1>5, <3>2, <3>3
  <2>2. QED
        BY <1>2, <2>1
<1>7. ShapeInv'
  <2>1. pend' \in [obj : Object, ops : Seq(Operand), dst : SUBSET Operand]
    <3>1. <<>> \in Object
      <4>1. 0 \in 0 .. Width /\ <<>> \in [1 .. 0 -> Addr]
            BY AddrFacts
      <4>2. QED
            BY <4>1 DEF Object
    <3>2. <<>> \in Seq(Operand)
          OBVIOUS
    <3>3. QED
          BY <1>1, <3>1, <3>2 DEF NoPend
  <2>2. TypeOK'
        BY <1>1, <1>6, <2>1 DEF HeapInv, ShapeInv, TypeOK, memVars, relVars
  <2>3. QED
        BY <1>1, <2>2 DEF HeapInv, ShapeInv, memVars, relVars, Alive
<1>8. Covering
  <2>1. ASSUME NEW a \in Addr
        PROVE  Total(a)' + rc[a] <= Total(a) + rc'[a]
    <3>1. Roots(root', a) <= Roots(root, a) + Count(pend.obj, a)
      <4> HIDE DEF ops, obj
      <4>1. Roots(root', a) <= Roots(root, a) + Count(obj, a)
            BY <1>3, <1>4, <1>5, RootsGivenBack
      <4>2. QED
            BY <4>1 DEF obj
    <3>2. QED
          BY <1>1, <3>1, GivenBackTotal DEF HeapInv
  <2>2. QED
        BY <2>1 DEF Covering
<1>9. CoverInv'
  <2>1. rc'[0] > 0 /\ \A a \in Addr \ {0} : Alive(a)' <=> rc'[a] > 0
        BY <1>1 DEF HeapInv, CoverInv, Alive
  <2>2. QED
        BY <1>7, <1>8, <2>1, CoverStep DEF HeapInv, Covering
<1>10. QuietInv' /\ PendInv' /\ TrialInv' /\ CollectorNeverFaults'
      BY <1>1 DEF HeapInv, QuietInv, PendInv, TrialInv, CollectorNeverFaults, relVars
<1>11. FreeInv'
      BY <1>1 DEF HeapInv, FreeInv, memVars, Alive, Apart
<1>12. QED
      BY <1>7, <1>8, <1>9, <1>10, <1>11 DEF HeapInv

-----------------------------------------------------------------------------
(***************************************************************************)
(* release.                                                                *)
(***************************************************************************)
\* What the queue and the worklist hold, in the sum of the owners.
LEMMA ReleaseTotal ==
    ASSUME ShapeInv, UNCHANGED <<root, heap, pend, store>>, NEW a \in Addr,
           Count(todo', a) \in Nat, Count(work', a) \in Nat, NEW n \in Nat,
           Count(todo', a) + Count(work', a) + n = Count(todo, a) + Count(work, a),
           rc'[a] \in Nat, rc[a] = rc'[a] + n
    PROVE  Total(a)' + rc[a] = Total(a) + rc'[a] /\ Total(a)' + rc[a] <= Total(a) + rc'[a]
<1>1. /\ Roots(root, a) \in Nat /\ Cells(heap, a) \in Nat /\ StoreEdge(a) \in Nat
      /\ Count(pend.obj, a) \in Nat /\ Count(todo, a) \in Nat /\ Count(work, a) \in Nat
      BY PartTypes
<1>2. StoreEdge(a)' = StoreEdge(a)
      BY DEF StoreEdge
<1>3. /\ Total(a)' = Roots(root, a) + Cells(heap, a) - StoreEdge(a) + One(a \in Consts) + Count(pend.obj, a)
              + Count(todo', a) + Count(work', a) + One(store.addr = a) + One(store.val = a)
      /\ Total(a) = Roots(root, a) + Cells(heap, a) - StoreEdge(a) + One(a \in Consts) + Count(pend.obj, a)
              + Count(todo, a) + Count(work, a) + One(store.addr = a) + One(store.val = a)
      BY <1>2 DEF Total
<1>4. QED
      BY <1>1, <1>3 DEF One

\* The fast path takes one off the count; otherwise the address goes to the worklist.
LEMMA ReleaseCallStep ==
    ASSUME HeapInv, ReleaseCall
    PROVE  HeapInv' /\ Covering /\ Exact
<1> DEFINE h == Head(todo)
<1>1. /\ todo # <<>> /\ work = <<>> /\ todo' = Tail(todo)
      /\ UNCHANGED <<root, heap, memVars, store, gcVars, traps>>
      /\ \/ rc[h] > 1 /\ rc' = [rc EXCEPT ![h] = @ - 1] /\ work' = work
         \/ ~(rc[h] > 1) /\ work' = <<h>> /\ rc' = rc
      BY DEF ReleaseCall
<1>2. ShapeInv /\ todo \in Seq(Addr) /\ rc \in [Addr -> Nat] /\ work \in Seq(Addr)
      BY DEF HeapInv, ShapeInv, TypeOK
<1>3. h \in Addr /\ todo' \in Seq(Addr) /\ \A a \in Addr : Count(todo, a) = One(h = a) + Count(todo', a)
      BY <1>1, <1>2, CountHead
<1> HIDE DEF h
<1>4. work' \in Seq(Addr) /\ rc' \in [Addr -> Nat] /\ \A a \in Addr : rc'[a] > 0 <=> rc[a] > 0
  <2>1. CASE rc[h] > 1 /\ rc' = [rc EXCEPT ![h] = @ - 1] /\ work' = work
    <3>1. rc[h] \in Nat /\ rc[h] - 1 \in Nat /\ rc[h] - 1 > 0
          BY <1>2, <1>3, <2>1
    <3>2. QED
          BY <1>2, <1>3, <2>1, <3>1
  <2>2. CASE ~(rc[h] > 1) /\ work' = <<h>> /\ rc' = rc
        BY <1>2, <1>3, <2>2
  <2>3. QED
        BY <1>1, <2>1, <2>2
<1>5. ASSUME NEW a \in Addr
      PROVE  Total(a)' + rc[a] = Total(a) + rc'[a] /\ Total(a)' + rc[a] <= Total(a) + rc'[a]
  <2>1. /\ Count(todo', a) \in Nat /\ Count(work', a) \in Nat /\ rc[a] \in Nat /\ rc'[a] \in Nat
        /\ Count(todo, a) = One(h = a) + Count(todo', a) /\ Count(work, a) = 0
        BY <1>1, <1>2, <1>3, <1>4, CountType, CountEmpty
  <2>2. CASE rc[h] > 1 /\ rc' = [rc EXCEPT ![h] = @ - 1] /\ work' = work
    <3>1. rc[a] = rc'[a] + One(h = a) /\ One(h = a) \in Nat
          BY <1>2, <1>3, <2>1, <2>2 DEF One
    <3>2. Count(work', a) = 0
          BY <2>1, <2>2
    <3>3. Count(todo', a) + Count(work', a) + One(h = a) = Count(todo, a) + Count(work, a)
          BY <2>1, <3>1, <3>2
    <3>4. UNCHANGED <<root, heap, pend, store>>
          BY <1>1 DEF gcVars
    <3>5. QED
          BY <1>2, <2>1, <3>1, <3>3, <3>4, ReleaseTotal
  <2>3. CASE ~(rc[h] > 1) /\ work' = <<h>> /\ rc' = rc
    <3>1. Count(work', a) = One(h = a) /\ 0 \in Nat /\ rc[a] = rc'[a] + 0
          BY <2>1, <2>3, CountSingle
    <3>2. Count(todo', a) + Count(work', a) + 0 = Count(todo, a) + Count(work, a)
          BY <2>1, <3>1 DEF One
    <3>3. UNCHANGED <<root, heap, pend, store>>
          BY <1>1 DEF gcVars
    <3>4. QED
          BY <1>2, <2>1, <3>1, <3>2, <3>3, ReleaseTotal
  <2>4. QED
        BY <1>1, <2>2, <2>3
<1>6. ShapeInv'
      BY <1>1, <1>3, <1>4 DEF HeapInv, ShapeInv, TypeOK, memVars, gcVars, Alive
<1>7. phase = "run" /\ phase' = "run" /\ pend' = NoPend /\ UNCHANGED <<free, top>> /\ \A a \in Addr : Alive(a)' <=> Alive(a)
      BY <1>1 DEF HeapInv, QuietInv, gcVars, memVars, Alive
<1>8. QED
      BY <1>4, <1>5, <1>6, <1>7, RunStep DEF Covering, Exact

\* The address on top of the worklist is alive, and what it owes is still counted.
LEMMA WorkTop ==
    ASSUME HeapInv, work # <<>>
    PROVE  /\ Last(work) \in Addr /\ Front(work) \in Seq(Addr)
           /\ rc[Last(work)] \in Nat /\ rc[Last(work)] > 0 /\ Last(work) < top /\ Alive(Last(work))
           /\ heap[Last(work)] \in Object /\ heap[Last(work)] \in Seq(Addr)
           /\ rc[Last(work)] = 1 /\ Last(work) # 0 => Last(work) \notin Consts /\ store.addr # Last(work)
           /\ \A a \in Addr : Count(work, a) = Count(Front(work), a) + One(Last(work) = a)
           /\ phase = "run"
<1> DEFINE w == Last(work)
<1>1. ShapeInv /\ CoverInv /\ work \in Seq(Addr) /\ todo \in Seq(Addr)
      BY DEF HeapInv, ShapeInv, TypeOK
<1>2. w \in Addr /\ Front(work) \in Seq(Addr) /\ \A a \in Addr : Count(work, a) = Count(Front(work), a) + One(w = a)
      BY <1>1, CountLast
<1>3. Count(Front(work), w) \in Nat /\ Count(todo, w) \in Nat
      BY <1>1, <1>2, CountType
<1> HIDE DEF w
<1>4. Count(todo, w) + Count(work, w) >= 1
      BY <1>2, <1>3 DEF One
<1>5. /\ rc[w] \in Nat /\ rc[w] > 0 /\ w < top /\ Alive(w) /\ heap[w] \in Object /\ heap[w] \in Seq(Addr)
      /\ rc[w] = 1 /\ w # 0 => w \notin Consts /\ store.addr # w
      BY <1>1, <1>2, <1>4, ReleaseHeld
<1>6. phase = "run"
      BY DEF HeapInv, QuietInv
<1>7. QED
      BY <1>2, <1>5, <1>6 DEF w

\* A reference among several is released.
LEMMA ReleaseKeepStep ==
    ASSUME HeapInv, ReleaseStep, rc[Last(work)] # 1
    PROVE  HeapInv' /\ Covering /\ Exact
<1> DEFINE w == Last(work)
<1>1. /\ work # <<>> /\ rc' = [rc EXCEPT ![w] = @ - 1] /\ work' = Front(work)
      /\ UNCHANGED <<root, heap, memVars, todo, store, gcVars, traps>>
      BY DEF ReleaseStep, memVars
<1>2. /\ w \in Addr /\ Front(work) \in Seq(Addr) /\ rc[w] \in Nat /\ rc[w] > 0 /\ rc[w] # 1 /\ phase = "run"
      /\ \A a \in Addr : Count(work, a) = Count(Front(work), a) + One(w = a)
      BY <1>1, WorkTop
<1>3. ShapeInv /\ rc \in [Addr -> Nat] /\ todo \in Seq(Addr)
      BY DEF HeapInv, ShapeInv, TypeOK
<1> HIDE DEF w
<1>4. rc' \in [Addr -> Nat] /\ \A a \in Addr : rc'[a] > 0 <=> rc[a] > 0
  <2>1. rc[w] - 1 \in Nat /\ rc[w] - 1 > 0
        BY <1>2
  <2>2. QED
        BY <1>1, <1>2, <1>3, <2>1
<1>5. ASSUME NEW a \in Addr
      PROVE  Total(a)' + rc[a] = Total(a) + rc'[a] /\ Total(a)' + rc[a] <= Total(a) + rc'[a]
  <2>1. /\ Count(todo', a) \in Nat /\ Count(work', a) \in Nat /\ rc[a] \in Nat /\ rc'[a] \in Nat
        /\ todo' = todo /\ Count(work, a) = Count(work', a) + One(w = a)
        BY <1>1, <1>2, <1>3, <1>4, CountType
  <2>2. rc[a] = rc'[a] + One(w = a) /\ One(w = a) \in Nat
    <3>1. rc'[a] = IF a = w THEN rc[a] - 1 ELSE rc[a]
          BY <1>1, <1>2, <1>3
    <3>2. QED
          BY <2>1, <3>1 DEF One
  <2>3. Count(todo', a) + Count(work', a) + One(w = a) = Count(todo, a) + Count(work, a)
        BY <2>1, <2>2
  <2>4. UNCHANGED <<root, heap, pend, store>>
        BY <1>1 DEF gcVars
  <2>5. QED
        BY <1>3, <2>1, <2>2, <2>3, <2>4, ReleaseTotal
<1>6. ShapeInv'
      BY <1>1, <1>2, <1>4 DEF HeapInv, ShapeInv, TypeOK, memVars, gcVars, Alive
<1>7. phase' = "run" /\ pend' = NoPend /\ UNCHANGED <<free, top>> /\ \A a \in Addr : Alive(a)' <=> Alive(a)
      BY <1>1, <1>2 DEF HeapInv, QuietInv, gcVars, memVars, Alive
<1>8. QED
      BY <1>4, <1>5, <1>6, <1>7, RunStep DEF Covering, Exact

\* The last reference to w is released: its own references take the place of the
\* fields that held them.
LEMMA ReclaimTotal ==
    ASSUME ShapeInv, NEW w \in Addr, Replaced(heap, heap', w), heap'[w] = Nil, store.addr # w,
           UNCHANGED <<root, todo, store, pend>>, NEW a \in Addr, Count(heap[w], a) \in Nat, NEW f \in Nat,
           Count(work, a) = f + One(w = a), Count(work', a) = f + Count(heap[w], a)
    PROVE  Total(a) = Total(a)' + One(w = a) /\ Total(a)' \in Int
<1>1. /\ Roots(root, a) \in Nat /\ Cells(heap, a) \in Nat /\ StoreEdge(a) \in Nat /\ Cells(heap', a) \in Nat
      /\ Count(pend.obj, a) \in Nat /\ Count(todo, a) \in Nat
      BY PartTypes, CellsType
<1>2. StoreEdge(a)' = StoreEdge(a)
  <2>1. CASE store = NoStore
        BY <2>1 DEF StoreEdge
  <2>2. CASE store # NoStore
    <3>1. store.addr \in Addr
          BY <2>2 DEF ShapeInv
    <3>2. heap'[store.addr] = heap[store.addr]
          BY <3>1 DEF Replaced
    <3>3. QED
          BY <3>2 DEF StoreEdge
  <2>3. QED
        BY <2>1, <2>2
<1>3. Cells(heap', a) + Count(heap[w], a) = Cells(heap, a)
  <2>1. Cells(heap', a) + Count(heap[w], a) = Cells(heap, a) + Count(heap'[w], a)
        BY CellsUpdate
  <2>2. Nil \in Object \cup {Nil}
        OBVIOUS
  <2>3. Count(heap'[w], a) = 0
        BY <2>2, ObjectSeq
  <2>4. QED
        BY <1>1, <2>1, <2>3
<1>4. /\ Total(a)' = Roots(root, a) + Cells(heap', a) - StoreEdge(a) + One(a \in Consts) + Count(pend.obj, a)
              + Count(todo, a) + Count(work', a) + One(store.addr = a) + One(store.val = a)
      /\ Total(a) = Roots(root, a) + Cells(heap, a) - StoreEdge(a) + One(a \in Consts) + Count(pend.obj, a)
              + Count(todo, a) + Count(work, a) + One(store.addr = a) + One(store.val = a)
      BY <1>2 DEF Total
<1>5. QED
      BY <1>1, <1>3, <1>4 DEF One

\* The object is reclaimed; while the null sentinel stays, this is not the sentinel.
LEMMA ReclaimStep ==
    ASSUME HeapInv, ReleaseStep, rc[Last(work)] = 1, NullPermanent'
    PROVE  HeapInv' /\ Covering /\ Exact
<1> DEFINE w == Last(work)
<1>1. /\ work # <<>> /\ rc' = [rc EXCEPT ![w] = @ - 1] /\ work' = Front(work) \o heap[w]
      /\ heap' = [heap EXCEPT ![w] = Nil] /\ free' = Append(free, w)
      /\ UNCHANGED <<root, top, cap, target, todo, store, gcVars, traps>>
      BY DEF ReleaseStep
<1>2. /\ w \in Addr /\ Front(work) \in Seq(Addr) /\ rc[w] = 1 /\ w < top /\ Alive(w) /\ phase = "run"
      /\ heap[w] \in Object /\ heap[w] \in Seq(Addr)
      /\ w # 0 => w \notin Consts /\ store.addr # w
      /\ \A a \in Addr : Count(work, a) = Count(Front(work), a) + One(w = a)
      BY <1>1, WorkTop
<1>3. ShapeInv /\ rc \in [Addr -> Nat] /\ heap \in [Addr -> Object \cup {Nil}] /\ free \in Seq(Addr)
      BY DEF HeapInv, ShapeInv, TypeOK
<1> HIDE DEF w
<1>4. w # 0
  <2>1. heap'[w] = Nil
        BY <1>1, <1>2, <1>3
  <2>2. QED
        BY <2>1 DEF NullPermanent, Alive
<1>5. w \notin Consts /\ store.addr # w
      BY <1>2, <1>4
<1>6. Replaced(heap, heap', w) /\ heap'[w] = Nil /\ \A x \in Addr : x # w => heap'[x] = heap[x]
      BY <1>1, <1>2, <1>3 DEF Replaced
<1>7. rc' \in [Addr -> Nat] /\ rc'[w] = 0 /\ \A x \in Addr : x # w => rc'[x] = rc[x]
      BY <1>1, <1>2, <1>3
<1>8. work' \in Seq(Addr) /\ \A a \in Addr : Count(work', a) = Count(Front(work), a) + Count(heap[w], a)
      BY <1>1, <1>2, CountConcat
<1>9. \A k \in DOMAIN free : free[k] # w
      BY <1>2 DEF HeapInv, FreeInv
<1>10. /\ Apart(free') /\ free' \in Seq(Addr)
       /\ {free'[k] : k \in DOMAIN free'} = {free[k] : k \in DOMAIN free} \cup {w}
  <2>1. Apart(free)
        BY DEF HeapInv, FreeInv
  <2>2. free \in Seq(Addr) /\ w \in Addr /\ free' = Append(free, w)
        BY <1>1, <1>2, <1>3
  <2>3. /\ Apart(Append(free, w)) /\ Append(free, w) \in Seq(Addr)
        /\ {Append(free, w)[k] : k \in DOMAIN Append(free, w)} = {free[k] : k \in DOMAIN free} \cup {w}
        BY <1>9, <2>1, <2>2, ApartAppend
  <2>4. QED
        BY <2>2, <2>3
<1>11. w \in Nat /\ w >= Base /\ top \in Nat
  <2>1. w \in Nat /\ Base \in Nat /\ top \in Nat
        BY <1>2, <1>3, AddrFacts, CountedAddr
  <2>2. QED
        BY <1>4, <1>5, <2>1 DEF Consts
<1>12. ASSUME NEW a \in Addr
       PROVE  Total(a)' + rc[a] = Total(a) + rc'[a] /\ Total(a)' + rc[a] <= Total(a) + rc'[a]
  <2>1. Count(Front(work), a) \in Nat /\ Count(heap[w], a) \in Nat /\ rc[a] \in Nat
        BY <1>2, <1>3, CountType
  <2>2. Count(work, a) = Count(Front(work), a) + One(w = a) /\ Count(work', a) = Count(Front(work), a) + Count(heap[w], a)
        BY <1>2, <1>8
  <2>3. UNCHANGED <<root, todo, store, pend>>
        BY <1>1 DEF gcVars
  <2>4. Total(a) = Total(a)' + One(w = a) /\ Total(a)' \in Int
        BY <1>2, <1>3, <1>5, <1>6, <2>1, <2>2, <2>3, ReclaimTotal
  <2>5. Total(a) \in Nat
        BY <1>3, EdgesAreOwners
  <2>6. rc[a] = rc'[a] + One(w = a)
    <3>1. a = w => rc[a] = 1 /\ rc'[a] = 0
          BY <1>2, <1>7
    <3>2. a # w => rc'[a] = rc[a]
          BY <1>7
    <3>3. QED
          BY <2>1, <3>1, <3>2 DEF One
  <2>7. rc'[a] \in Nat
        BY <1>7
  <2>8. QED
        BY <2>1, <2>4, <2>5, <2>6, <2>7 DEF One
<1>13. ShapeInv'
  <2>1. TypeOK'
    <3>1. heap' \in [Addr -> Object \cup {Nil}]
          BY <1>6 DEF Replaced
    <3>2. QED
          BY <1>1, <1>7, <1>8, <1>10, <3>1 DEF HeapInv, ShapeInv, TypeOK, gcVars
  <2>2. \A b \in 0 .. Base - 1 : heap'[b] = <<>>
    <3>1. \A b \in 0 .. Base - 1 : b \in Addr /\ b # w
          BY <1>11, AddrFacts
    <3>2. QED
          BY <1>6, <3>1 DEF HeapInv, ShapeInv
  <2>3. \A a \in Addr : Alive(a)' => a < top'
        BY <1>1, <1>6 DEF HeapInv, ShapeInv, Alive
  <2>4. store' # NoStore => /\ store'.addr \in Addr \ {0} /\ Alive(store.addr)'
                            /\ store'.field \in 1 .. Len(heap'[store'.addr])
                            /\ store'.val \in Addr
        BY <1>1, <1>5, <1>6 DEF HeapInv, ShapeInv, Alive
  <2>5. QED
        BY <2>1, <2>2, <2>3, <2>4 DEF ShapeInv, Alive
<1>14. CoverInv'
  <2>1. rc'[0] > 0
        BY <1>4, <1>7, AddrFacts DEF HeapInv, CoverInv
  <2>2. \A a \in Addr \ {0} : Alive(a)' <=> rc'[a] > 0
        BY <1>6, <1>7 DEF HeapInv, CoverInv, Alive
  <2>3. QED
        BY <1>12, <1>13, <2>1, <2>2, CoverStep DEF HeapInv
<1>15. FreeInv'
  <2>1. \A b \in 0 .. top - 1 : b \in Addr
        BY <1>3, CountedAddr
  <2>2. \A b \in 0 .. top - 1 : ~Alive(b)' <=> ~Alive(b) \/ b = w
        BY <1>6, <2>1 DEF Alive
  <2>3. w \in 0 .. top - 1
        BY <1>2, <1>11
  <2>4. {b \in 0 .. top - 1 : ~Alive(b)'} = {b \in 0 .. top - 1 : ~Alive(b)} \cup {w}
        BY <2>2, <2>3
  <2>5. {free'[k] : k \in DOMAIN free'} = {b \in 0 .. top' - 1 : ~Alive(b)'}
        BY <1>1, <1>10, <2>4 DEF HeapInv, FreeInv
  <2>6. QED
        BY <1>10, <2>5 DEF FreeInv, Apart
<1>16. QuietInv' /\ PendInv' /\ TrialInv' /\ CollectorNeverFaults'
      BY <1>1, <1>2 DEF HeapInv, QuietInv, PendInv, TrialInv, CollectorNeverFaults, gcVars
<1>17. QED
      BY <1>12, <1>13, <1>14, <1>15, <1>16 DEF HeapInv, Covering, Exact

\* One turn of release's loop.
LEMMA ReleaseStepStep ==
    ASSUME HeapInv, ReleaseStep, NullPermanent'
    PROVE  HeapInv' /\ Covering /\ Exact
BY ReleaseKeepStep, ReclaimStep

-----------------------------------------------------------------------------
(***************************************************************************)
(* sweep.                                                                  *)
(***************************************************************************)
\* What sweep reclaims is owned by what it reclaims, and by nothing else.
LEMMA DeadFacts ==
    ASSUME HeapInv, phase = "sweep", NEW a \in Dead
    PROVE  /\ a \in Counted /\ a \in Addr \ {0} /\ a \notin Consts
           /\ rc[a] = Total(a) /\ Cardinality(EdgesTo(a)) = Total(a)
           /\ \A e \in EdgesTo(a) : e[1] \in Dead
<1>1. ShapeInv /\ CoverInv /\ a \in Counted /\ a \in Addr \ {0} /\ trial[a] >= 0
      BY CountedAddr DEF HeapInv, Dead
<1>2. trial[a] <= 0 /\ trial[a] = rc[a] - InDegree(a) /\ grey = {}
      BY <1>1 DEF HeapInv, TrialInv
<1>3. /\ InDegree(a) \in Nat /\ Cardinality(EdgesTo(a)) \in Nat /\ Total(a) \in Nat /\ rc[a] \in Nat
      /\ InDegree(a) <= Cardinality(EdgesTo(a)) /\ Cardinality(EdgesTo(a)) <= Total(a) /\ Total(a) <= rc[a]
      /\ InDegree(a) = Cardinality(EdgesTo(a)) => \A e \in EdgesTo(a) : e[1] \in Counted
      BY <1>1, InDegreeBound
<1>4. rc[a] = Total(a) /\ Cardinality(EdgesTo(a)) = Total(a) /\ InDegree(a) = Cardinality(EdgesTo(a))
  <2>1. trial[a] \in Int
        BY <1>1 DEF HeapInv, ShapeInv, TypeOK
  <2>2. trial[a] = 0
        BY <1>1, <1>2, <2>1
  <2>3. QED
        BY <1>2, <1>3, <2>2
<1>5. a \notin Consts
  <2>1. a \in Consts => Cardinality(EdgesTo(a)) < Total(a)
        BY <1>1, EdgesAreOwners
  <2>2. QED
        BY <1>3, <1>4, <2>1
<1>6. ASSUME NEW e \in EdgesTo(a)
      PROVE  e[1] \in Dead
  <2>1. e \in Edges /\ heap[e[1]][e[2]] = a
        BY DEF EdgesTo
  <2>2. e[1] \in Counted /\ e[2] \in DOMAIN heap[e[1]]
        BY <1>1, <1>3, <1>4, <2>1, EdgeHeld
  <2>3. trial[e[1]] \in Int /\ trial[a] \in Int
        BY <1>1, <2>2, CountedAddr DEF HeapInv, ShapeInv, TypeOK
  <2>4. ~(trial[e[1]] < 0)
    <3>1. SUFFICES ASSUME trial[e[1]] < 0 PROVE FALSE
          OBVIOUS
    <3>2. e[1] \in Counted \ grey
          BY <1>2, <2>2
    <3>3. trial[heap[e[1]][e[2]]] < 0
          BY <1>1, <2>1, <2>2, <3>1, <3>2 DEF HeapInv, TrialInv
    <3>4. QED
          BY <1>1, <2>1, <2>3, <3>3
  <2>5. QED
        BY <2>2, <2>3, <2>4 DEF Dead
<1>7. QED
      BY <1>1, <1>4, <1>5, <1>6

\* The edges to a that sweep takes away.
Doomed(a) == {e \in EdgesTo(a) : e[1] \in Dead}

\* They are all of the count of what is reclaimed, and never all of a survivor's.
LEMMA DoomedFacts ==
    ASSUME HeapInv, phase = "sweep", NEW a \in Addr
    PROVE  /\ IsFiniteSet(Doomed(a)) /\ Cardinality(Doomed(a)) \in Nat /\ rc[a] \in Nat
           /\ a \in Dead => Cardinality(Doomed(a)) = rc[a]
           /\ a \in Counted \ Dead => Cardinality(Doomed(a)) < rc[a]
           /\ a # 0 /\ a \notin Counted => Cardinality(Doomed(a)) = 0 /\ rc[a] = 0
<1>1. ShapeInv /\ CoverInv /\ rc[a] \in Nat
      BY DEF HeapInv, ShapeInv, TypeOK
<1>2. /\ IsFiniteSet(EdgesTo(a)) /\ Cardinality(EdgesTo(a)) \in Nat /\ Total(a) \in Nat
      /\ Cardinality(EdgesTo(a)) <= Total(a) /\ Owners(a) = Total(a)
      BY <1>1, EdgesAreOwners
<1>3. Doomed(a) \in SUBSET EdgesTo(a)
      BY DEF Doomed
<1>4. /\ IsFiniteSet(Doomed(a)) /\ Cardinality(Doomed(a)) \in Nat
      /\ Cardinality(Doomed(a)) <= Cardinality(EdgesTo(a))
      /\ Cardinality(EdgesTo(a)) = Cardinality(Doomed(a)) => EdgesTo(a) = Doomed(a)
      BY <1>2, <1>3, FS_Subset, FS_CardinalityType
<1>5. a \in Dead => Cardinality(Doomed(a)) = rc[a]
  <2>1. SUFFICES ASSUME a \in Dead PROVE Cardinality(Doomed(a)) = rc[a]
        OBVIOUS
  <2>2. rc[a] = Cardinality(EdgesTo(a)) /\ \A e \in EdgesTo(a) : e[1] \in Dead
        BY <2>1, DeadFacts
  <2>3. Doomed(a) = EdgesTo(a)
        BY <2>2 DEF Doomed
  <2>4. QED
        BY <2>2, <2>3
<1>6. a # 0 => rc[a] >= Total(a)
      BY <1>1, <1>2 DEF CoverInv
<1>7. a \in Counted \ Dead => Cardinality(Doomed(a)) < rc[a]
  <2>1. SUFFICES ASSUME a \in Counted \ Dead PROVE Cardinality(Doomed(a)) < rc[a]
        OBVIOUS
  <2>2. a # 0 /\ trial[a] \in Int /\ ~(trial[a] >= 0)
        BY <1>1, <2>1, CountedAddr DEF Dead, HeapInv, ShapeInv, TypeOK
  <2>3. trial[a] < 0
        BY <2>2
  <2>4. Vouched(a)
        BY <2>1, <2>3 DEF HeapInv, TrialInv
  <2>5. CASE rc[a] > InDegree(a)
    <3> DEFINE D == {e \in Edges : e[1] \in Counted /\ heap[e[1]][e[2]] = a}
    <3>1. D \in SUBSET EdgesTo(a) /\ Doomed(a) \in SUBSET D
          BY DEF EdgesTo, Doomed, Dead
    <3>2. IsFiniteSet(D)
          BY <1>2, <3>1, FS_Subset
    <3>3. Cardinality(Doomed(a)) <= Cardinality(D) /\ Cardinality(D) \in Nat
          BY <3>1, <3>2, FS_Subset, FS_CardinalityType
    <3>4. InDegree(a) = Cardinality(D)
          BY DEF InDegree
    <3> HIDE DEF D
    <3>5. QED
          BY <1>1, <1>4, <2>5, <3>3, <3>4
  <2>6. CASE \E e \in EdgesTo(a) : e[1] \in Counted /\ trial[e[1]] < 0
    <3>1. PICK e \in EdgesTo(a) : e[1] \in Counted /\ trial[e[1]] < 0
          BY <2>6
    <3>2. trial[e[1]] \in Int
          BY <1>1, <3>1, CountedAddr DEF HeapInv, ShapeInv, TypeOK
    <3>3. e \notin Doomed(a)
          BY <3>1, <3>2 DEF Doomed, Dead
    <3>4. Cardinality(EdgesTo(a)) # Cardinality(Doomed(a))
          BY <1>4, <3>1, <3>3
    <3>5. rc[a] >= Total(a)
          BY <1>6, <2>2
    <3>6. QED
          BY <1>1, <1>2, <1>4, <3>4, <3>5
  <2>7. QED
        BY <2>4, <2>5, <2>6 DEF Vouched
<1>8. a # 0 /\ a \notin Counted => Cardinality(Doomed(a)) = 0 /\ rc[a] = 0
  <2>1. SUFFICES ASSUME a # 0, a \notin Counted PROVE Cardinality(Doomed(a)) = 0 /\ rc[a] = 0
        OBVIOUS
  <2>2. ~(rc[a] > 0)
    <3>1. a \in Nat /\ a >= 1 /\ top \in Nat
          BY <1>1, <2>1, AddrFacts, CountedAddr
    <3>2. rc[a] > 0 => a < top
          BY <1>1, <2>1 DEF CoverInv, ShapeInv
    <3>3. QED
          BY <2>1, <3>1, <3>2 DEF Counted
  <2>3. rc[a] = 0
        BY <1>1, <2>2
  <2>4. QED
        BY <1>2, <1>4, <1>6, <2>1, <2>3
<1>9. QED
      BY <1>1, <1>4, <1>5, <1>7, <1>8

LEMMA SweepTotal ==
    ASSUME HeapInv, Sweep, NEW a \in Addr
    PROVE  Total(a) = Total(a)' + Cardinality(Doomed(a)) /\ Total(a)' \in Int
<1> DEFINE n == Cardinality(Doomed(a))
<1>1. /\ phase = "sweep" /\ heap' = [x \in Addr |-> IF x \in Dead THEN Nil ELSE heap[x]]
      /\ UNCHANGED <<root, relVars, pend>>
      BY DEF Sweep
<1>2. store = NoStore /\ store' = NoStore
      BY <1>1 DEF HeapInv, QuietInv, relVars
<1>3. IsFiniteSet(CellsOf(heap, a)) /\ Cells(heap, a) \in Nat /\ Cells(heap', a) \in Nat
      BY CellsType
<1>4. CellsOf(heap', a) = CellsOf(heap, a) \ Doomed(a)
  <2>1. EdgesTo(a) = CellsOf(heap, a)
        BY <1>2, EdgesAreCells DEF HeapInv
  <2>2. ASSUME NEW e \in Addr \X (1 .. Width)
        PROVE  e \in CellsOf(heap', a) <=> e \in CellsOf(heap, a) /\ e[1] \notin Dead
    <3>1. e[1] \in Addr
          OBVIOUS
    <3>2. CASE e[1] \in Dead
      <4>1. heap'[e[1]] = Nil
            BY <1>1, <3>1, <3>2
      <4>2. ~(e[2] \in DOMAIN Nil /\ Nil[e[2]] = a)
            BY AddrFacts DEF Nil, NoRef
      <4>3. QED
            BY <3>2, <4>1, <4>2 DEF CellsOf
    <3>3. CASE e[1] \notin Dead
          BY <1>1, <3>1, <3>3 DEF CellsOf
    <3>4. QED
          BY <3>2, <3>3
  <2>3. CellsOf(heap, a) \subseteq Addr \X (1 .. Width) /\ CellsOf(heap', a) \subseteq Addr \X (1 .. Width)
        BY DEF CellsOf
  <2>4. QED
        BY <2>1, <2>2, <2>3 DEF Doomed
<1>5. Doomed(a) \subseteq CellsOf(heap, a)
  <2>1. EdgesTo(a) = CellsOf(heap, a)
        BY <1>2, EdgesAreCells DEF HeapInv
  <2>2. QED
        BY <2>1 DEF Doomed
<1>6. n \in Nat /\ Cells(heap, a) = Cells(heap', a) + n
  <2>1. /\ Cardinality(CellsOf(heap, a)) = Cardinality(CellsOf(heap, a) \cap Doomed(a)) + Cardinality(CellsOf(heap, a) \ Doomed(a))
        /\ Cardinality(CellsOf(heap, a) \cap Doomed(a)) \in Nat /\ Cardinality(CellsOf(heap, a) \ Doomed(a)) \in Nat
        BY <1>3, CardSplit
  <2>2. CellsOf(heap, a) \cap Doomed(a) = Doomed(a)
        BY <1>5
  <2>3. Cardinality(CellsOf(heap, a)) = Cells(heap, a) /\ Cardinality(CellsOf(heap, a) \ Doomed(a)) = Cells(heap', a)
        BY <1>4 DEF Cells
  <2>4. Cardinality(CellsOf(heap, a) \cap Doomed(a)) = n
        BY <2>2
  <2> HIDE DEF n
  <2>5. Cells(heap, a) = n + Cells(heap', a) /\ n \in Nat
        BY <2>1, <2>3, <2>4
  <2>6. QED
        BY <1>3, <2>5
<1> HIDE DEF n
<1>7. StoreEdge(a)' = 0 /\ StoreEdge(a) = 0
      BY <1>2 DEF StoreEdge, One
<1>8. /\ Roots(root, a) \in Nat
      /\ Count(pend.obj, a) \in Nat /\ Count(todo, a) \in Nat /\ Count(work, a) \in Nat
      BY PartTypes DEF HeapInv
<1>9. /\ Total(a)' = Roots(root, a) + Cells(heap', a) - StoreEdge(a)' + One(a \in Consts) + Count(pend.obj, a)
              + Count(todo, a) + Count(work, a) + One(store.addr = a) + One(store.val = a)
      /\ Total(a) = Roots(root, a) + Cells(heap, a) - StoreEdge(a) + One(a \in Consts) + Count(pend.obj, a)
              + Count(todo, a) + Count(work, a) + One(store.addr = a) + One(store.val = a)
      BY <1>1 DEF Total, relVars
<1>10. Total(a) = Total(a)' + n /\ Total(a)' \in Int
      BY <1>3, <1>6, <1>7, <1>8, <1>9 DEF One
<1>11. QED
      BY <1>10 DEF n

\* What sweep appends to the free list: the reclaimed addresses, each once.
LEMMA AscendingFacts ==
    ASSUME NEW S, S \subseteq Addr, NEW s \in Ascending(S)
    PROVE  /\ s \in Seq(Addr) /\ Apart(s) /\ Len(s) = Cardinality(S)
           /\ {s[k] : k \in DOMAIN s} = S
<1>1. IsFiniteSet(S)
      BY AddrFacts, FS_Subset
<1>2. Cardinality(S) \in Nat
      BY <1>1, FS_CardinalityType
<1>3. s \in [1 .. Cardinality(S) -> S] /\ \A j, k \in 1 .. Cardinality(S) : j < k => s[j] < s[k]
      BY DEF Ascending
<1>4. s \in Seq(Addr) /\ Len(s) = Cardinality(S) /\ DOMAIN s = 1 .. Cardinality(S)
      BY <1>2, <1>3
<1>5. Apart(s)
  <2>1. SUFFICES ASSUME NEW j \in 1 .. Cardinality(S), NEW k \in 1 .. Cardinality(S), s[j] = s[k]
                 PROVE  j = k
        BY <1>4 DEF Apart
  <2>2. s[j] \in Addr /\ s[k] \in Addr
        BY <1>3
  <2>3. s[j] \in Nat /\ s[k] \in Nat
        BY <2>2, AddrFacts
  <2>4. (j < k => s[j] < s[k]) /\ (k < j => s[k] < s[j])
        BY <1>3
  <2> DEFINE x == s[j]
  <2>5. x \in Nat /\ s[j] = x /\ s[k] = x
        BY <2>1, <2>3
  <2> HIDE DEF x
  <2>6. QED
        BY <1>2, <2>4, <2>5
<1>6. {s[k] : k \in DOMAIN s} = S
  <2> DEFINE R == {s[k] : k \in DOMAIN s}
  <2>1. Cardinality(S) = Cardinality(R)
        BY <1>4, <1>5, ApartLen
  <2>2. R \in SUBSET S
        BY <1>3, <1>4
  <2>3. Cardinality(S) = Cardinality(R) => S = R
        BY <1>1, <2>2, FS_Subset
  <2>4. QED
        BY <2>1, <2>3
<1>7. QED
      BY <1>4, <1>5, <1>6

\* pace sets a target between the constants and the limit.
LEMMA PaceRange ==
    ASSUME NEW n \in Base .. Limit
    PROVE  Pace(n) \in Base .. Limit
<1>1. Base \in Nat /\ Limit \in Nat /\ Runway \in Nat
      BY HeapAssumption
<1>2. QED
      BY <1>1 DEF Pace, Max2, Min2

\* Reclaimed addresses lie between the constants and top.
LEMMA FreeBound ==
    free \in Seq(Addr) /\ top \in Base .. Limit /\ FreeInv /\ (\A b \in 0 .. Base - 1 : heap[b] = <<>>)
       => Occupied \in Base .. Limit
<1> SUFFICES ASSUME free \in Seq(Addr), top \in Base .. Limit, FreeInv,
                    \A b \in 0 .. Base - 1 : heap[b] = <<>>
             PROVE  Occupied \in Base .. Limit
    OBVIOUS
<1>1. Apart(free) /\ {free[k] : k \in DOMAIN free} = {a \in 0 .. top - 1 : ~Alive(a)}
      BY DEF FreeInv
<1>2. Base \in Nat /\ Limit \in Nat /\ top \in Nat /\ Base <= top /\ top <= Limit
      BY AddrFacts
<1>3. {a \in 0 .. top - 1 : ~Alive(a)} \in SUBSET (Base .. top - 1)
  <2>1. SUFFICES ASSUME NEW a \in 0 .. top - 1, ~Alive(a)
                 PROVE  a \in Base .. top - 1
        OBVIOUS
  <2>2. heap[a] = Nil
        BY <2>1 DEF Alive
  <2>3. a \notin 0 .. Base - 1
    <3>1. SUFFICES ASSUME a \in 0 .. Base - 1 PROVE FALSE
          OBVIOUS
    <3>2. heap[a] = <<>>
          BY <3>1
    <3>3. QED
          BY <2>2, <3>2, NilIsNoObject
  <2>4. QED
        BY <1>2, <2>3
<1>4. IsFiniteSet(Base .. top - 1) /\ Cardinality(Base .. top - 1) = top - Base
  <2>1. Base \in Int /\ top - 1 \in Int
        BY <1>2
  <2>2. IsFiniteSet(Base .. top - 1)
        /\ Cardinality(Base .. top - 1) = IF Base > top - 1 THEN 0 ELSE top - 1 - Base + 1
        BY <2>1, FS_Interval
  <2>3. QED
        BY <1>2, <2>2
<1>5. Len(free) = Cardinality({a \in 0 .. top - 1 : ~Alive(a)})
      BY <1>1, ApartLen
<1>6. Cardinality({a \in 0 .. top - 1 : ~Alive(a)}) <= Cardinality(Base .. top - 1)
      BY <1>3, <1>4, FS_Subset
<1>7. Len(free) \in Nat
      OBVIOUS
<1>8. Len(free) <= top - Base
      BY <1>4, <1>5, <1>6
<1>9. QED
      BY <1>2, <1>7, <1>8 DEF Occupied

LEMMA SweepStep ==
    ASSUME HeapInv, Sweep
    PROVE  HeapInv' /\ Covering /\ Exact
<1>1. /\ phase = "sweep" /\ phase' = "place" /\ trial' = [a \in Addr |-> 0]
      /\ heap' = [x \in Addr |-> IF x \in Dead THEN Nil ELSE heap[x]]
      /\ target' = Pace(Occupied - Cardinality(Dead))
      /\ UNCHANGED <<root, top, cap, relVars, pend, collected, grey, traps>>
      BY DEF Sweep
<1>2. rc' = [a \in Addr |-> IF a \in Dead THEN 0
                            ELSE IF a \in Counted THEN rc[a] - Cardinality(Doomed(a)) ELSE rc[a]]
      BY DEF Sweep, Doomed
<1>3. PICK s \in Ascending(Dead) : free' = free \o s
      BY DEF Sweep
<1>4. Dead \subseteq Counted /\ Counted \subseteq Addr \ {0} /\ Dead \subseteq Addr
      BY CountedAddr DEF HeapInv, Dead
<1>5. ShapeInv /\ CoverInv /\ FreeInv /\ heap \in [Addr -> Object \cup {Nil}] /\ rc \in [Addr -> Nat] /\ store = NoStore
      BY <1>1 DEF HeapInv, ShapeInv, TypeOK, QuietInv
<1>6. ASSUME NEW a \in Addr
      PROVE  /\ rc'[a] \in Nat
             /\ a \in Dead => rc'[a] = 0
             /\ a # 0 => rc[a] = rc'[a] + Cardinality(Doomed(a))
             /\ a = 0 => rc'[a] = rc[a]
             /\ a \in Counted \ Dead => rc'[a] > 0
             /\ a # 0 /\ a \notin Counted => rc'[a] = 0
             /\ Cardinality(Doomed(a)) \in Nat /\ rc[a] \in Nat
  <2>1. /\ Cardinality(Doomed(a)) \in Nat /\ rc[a] \in Nat
        /\ a \in Dead => Cardinality(Doomed(a)) = rc[a]
        /\ a \in Counted \ Dead => Cardinality(Doomed(a)) < rc[a]
        /\ a # 0 /\ a \notin Counted => Cardinality(Doomed(a)) = 0 /\ rc[a] = 0
        BY <1>1, DoomedFacts
  <2>2. rc'[a] = IF a \in Dead THEN 0
                 ELSE IF a \in Counted THEN rc[a] - Cardinality(Doomed(a)) ELSE rc[a]
        BY <1>2
  <2>3. (a \in Dead => a \in Counted) /\ (a = 0 => a \notin Counted)
        BY <1>4
  <2>4. QED
        BY <2>1, <2>2, <2>3
<1>7. \A a \in Addr : /\ Total(a)' + rc[a] <= Total(a) + rc'[a]
                      /\ a # 0 => Total(a)' + rc[a] = Total(a) + rc'[a]
  <2>1. TAKE a \in Addr
  <2>2. Total(a) = Total(a)' + Cardinality(Doomed(a)) /\ Total(a)' \in Int
        BY SweepTotal
  <2>3. /\ rc'[a] \in Nat /\ rc[a] \in Nat /\ Cardinality(Doomed(a)) \in Nat
        /\ a # 0 => rc[a] = rc'[a] + Cardinality(Doomed(a))
        /\ a = 0 => rc'[a] = rc[a]
        BY <1>6
  <2>4. QED
        BY <2>2, <2>3
<1>8. /\ s \in Seq(Addr) /\ Apart(s) /\ Len(s) = Cardinality(Dead) /\ {s[k] : k \in DOMAIN s} = Dead
      BY <1>4, AscendingFacts
<1>9. \A x \in Addr : Alive(x)' <=> Alive(x) /\ x \notin Dead
      BY <1>1 DEF Alive
<1>10. \A x \in Dead : Alive(x) /\ x \in 0 .. top - 1
  <2>1. TAKE x \in Dead
  <2>2. x \in Addr \ {0} /\ rc[x] > 0 /\ x < top /\ top \in Nat
        BY <1>4, <1>5, CountedAddr
  <2>3. x \in Nat
        BY <2>2, AddrFacts
  <2>4. QED
        BY <1>5, <2>2, <2>3 DEF CoverInv
<1>11. /\ Apart(free') /\ free' \in Seq(Addr)
       /\ {free'[k] : k \in DOMAIN free'} = {b \in 0 .. top' - 1 : ~Alive(b)'}
       /\ Len(free') = Len(free) + Cardinality(Dead)
  <2>1. free \in Seq(Addr) /\ Apart(free) /\ {free[k] : k \in DOMAIN free} = {b \in 0 .. top - 1 : ~Alive(b)}
        BY <1>5 DEF ShapeInv, TypeOK, FreeInv
  <2>2. Elements(free) = {b \in 0 .. top - 1 : ~Alive(b)} /\ Elements(s) = Dead
        BY <1>8, <2>1 DEF Elements
  <2>3. Apart(free \o s) /\ free \o s \in Seq(Addr) /\ Elements(free \o s) = Elements(free) \cup Elements(s)
    <3>1. s \in Seq(Addr) /\ Apart(s) /\ free \in Seq(Addr) /\ Apart(free)
          BY <1>8, <2>1
    <3>2. Elements(free) \cap Elements(s) = {}
          BY <1>10, <2>2
    <3>3. QED
          BY <3>1, <3>2, ApartConcat
  <2>4. \A b \in 0 .. top - 1 : b \in Addr
        BY <1>5, CountedAddr
  <2>5. {b \in 0 .. top - 1 : ~Alive(b)'} = {b \in 0 .. top - 1 : ~Alive(b)} \cup Dead
        BY <1>9, <1>10, <2>4
  <2>6. Len(free \o s) = Len(free) + Len(s)
        BY <1>8, <2>1
  <2>7. QED
        BY <1>1, <1>3, <1>8, <2>2, <2>3, <2>5, <2>6 DEF Elements
<1>12. FreeInv'
      BY <1>11 DEF FreeInv, Apart
<1>13. heap' \in [Addr -> Object \cup {Nil}] /\ rc' \in [Addr -> Nat] /\ trial' \in [Addr -> Int]
  <2>1. heap' \in [Addr -> Object \cup {Nil}]
        BY <1>1, <1>5
  <2>2. rc' \in [Addr -> Nat]
        BY <1>2, <1>6
  <2>3. trial' \in [Addr -> Int]
        BY <1>1
  <2>4. QED
        BY <2>1, <2>2, <2>3
<1>14. \A b \in 0 .. Base - 1 : heap'[b] = <<>>
  <2>1. TAKE b \in 0 .. Base - 1
  <2>2. b \in Addr /\ heap[b] = <<>> /\ b \notin Dead
    <3>1. b \in Addr /\ (b = 0 \/ b \in Consts)
          BY AddrFacts DEF Consts
    <3>2. b \notin Dead
          BY <1>1, <3>1, DeadFacts
    <3>3. QED
          BY <1>5, <3>1, <3>2 DEF ShapeInv
  <2>3. QED
        BY <1>1, <2>2
<1>15. target' \in Base .. Limit
  <2>1. Occupied' \in Base .. Limit
    <3>1. (free \in Seq(Addr) /\ top \in Base .. Limit /\ FreeInv /\ (\A b \in 0 .. Base - 1 : heap[b] = <<>>)
              => Occupied \in Base .. Limit)'
          BY FreeBound, PTL
    <3>2. top' \in Base .. Limit
          BY <1>1, <1>5 DEF ShapeInv, TypeOK
    <3>3. QED
          BY <1>11, <1>12, <1>14, <3>1, <3>2
  <2>2. Occupied' = Occupied - Cardinality(Dead)
    <3>1. Len(free) \in Nat /\ top \in Nat
      <4>1. free \in Seq(Addr)
            BY <1>5 DEF ShapeInv, TypeOK
      <4>2. top \in Nat
            BY <1>5, CountedAddr
      <4>3. QED
            BY <4>1, <4>2
    <3>2. Cardinality(Dead) \in Nat
      <4>1. IsFiniteSet(Dead)
            BY <1>4, AddrFacts, FS_Subset
      <4>2. QED
            BY <4>1, FS_CardinalityType
    <3>3. Occupied' = top - Len(free') /\ Occupied = top - Len(free) /\ Len(free') = Len(free) + Cardinality(Dead)
          BY <1>1, <1>11 DEF Occupied
    <3>4. QED
          BY <3>1, <3>2, <3>3
  <2>3. QED
        BY <1>1, <2>1, <2>2, PaceRange
<1>16. ShapeInv'
  <2>1. TypeOK'
        BY <1>1, <1>11, <1>13, <1>15 DEF HeapInv, ShapeInv, TypeOK, relVars
  <2>2. \A x \in Addr : Alive(x)' => x < top'
        BY <1>1, <1>5, <1>9 DEF ShapeInv
  <2>3. QED
        BY <1>1, <1>5, <1>14, <2>1, <2>2 DEF ShapeInv, relVars
<1>17. CoverInv'
  <2>1. rc'[0] > 0
        BY <1>5, <1>6, AddrFacts DEF CoverInv
  <2>2. \A x \in Addr \ {0} : Alive(x)' <=> rc'[x] > 0
    <3>1. TAKE x \in Addr \ {0}
    <3>2. CASE x \in Dead
          BY <1>6, <1>9, <3>2
    <3>3. CASE x \in Counted \ Dead
      <4>1. rc[x] > 0
            BY <1>5, <3>3, CountedAddr
      <4>2. QED
            BY <1>5, <1>6, <1>9, <3>3, <4>1 DEF CoverInv
    <3>4. CASE x \notin Counted
      <4>1. rc'[x] = 0 /\ rc[x] = 0
            BY <1>1, <1>6, <3>4, DoomedFacts
      <4>2. ~Alive(x)
            BY <1>5, <4>1 DEF CoverInv
      <4>3. QED
            BY <1>9, <4>1, <4>2
    <3>5. QED
          BY <3>2, <3>3, <3>4
  <2>3. QED
        BY <1>5, <1>7, <1>16, <2>1, <2>2, CoverStep
<1>18. QuietInv' /\ PendInv' /\ TrialInv' /\ CollectorNeverFaults'
      BY <1>1 DEF HeapInv, QuietInv, PendInv, TrialInv, CollectorNeverFaults, relVars
<1>19. QED
      BY <1>7, <1>12, <1>16, <1>17, <1>18 DEF HeapInv, Covering, Exact

-----------------------------------------------------------------------------
(***************************************************************************)
(* A new interpreter, and one that has been reset.                         *)
(***************************************************************************)
\* Only the constants and the sentinel are there, and the globals hold null.
Fresh ==
    /\ root = [s \in Slot |-> IF s \in Global THEN 0 ELSE NoRef]
    /\ heap = [a \in Addr |-> IF a < Base THEN <<>> ELSE Nil]
    /\ top = Base /\ free = <<>> /\ todo = <<>> /\ work = <<>> /\ store = NoStore
    /\ pend = NoPend /\ phase = "run"
    /\ rc[0] > 0 /\ \A a \in Addr \ {0} : rc[a] = One(a \in Consts)

LEMMA FreshTotal ==
    Fresh => Total(0) = Cardinality(Global) /\ \A a \in Addr \ {0} : Total(a) = One(a \in Consts)
<1> SUFFICES ASSUME Fresh, NEW a \in Addr
             PROVE  Total(a) = IF a = 0 THEN Cardinality(Global) ELSE One(a \in Consts)
  <2>1. 0 \in Addr
        BY AddrFacts
  <2>2. QED
        BY <2>1
<1>1. Cells(heap, a) = 0
  <2>1. ASSUME NEW e \in CellsOf(heap, a) PROVE FALSE
    <3>1. e[1] \in Addr /\ e[2] \in DOMAIN heap[e[1]] /\ heap[e[1]][e[2]] = a
          BY DEF CellsOf
    <3>2. heap[e[1]] = IF e[1] < Base THEN <<>> ELSE Nil
          BY <3>1 DEF Fresh
    <3>3. ~(e[1] < Base)
          BY <3>1, <3>2
    <3>4. e[2] = 1 /\ heap[e[1]][e[2]] = -1
          BY <3>1, <3>2, <3>3 DEF Nil
    <3>5. QED
          BY <3>1, <3>4, AddrFacts DEF NoRef
  <2>2. CellsOf(heap, a) = {}
        BY <2>1
  <2>3. QED
        BY <2>2, FS_EmptySet DEF Cells
<1>2. Roots(root, a) = IF a = 0 THEN Cardinality(Global) ELSE 0
  <2>1. CASE a = 0
    <3>1. {s \in Slot : root[s] = a} = Global
          BY <2>1, HeapAssumption, AddrFacts DEF Fresh
    <3>2. QED
          BY <2>1, <3>1 DEF Roots
  <2>2. CASE a # 0
    <3>1. {s \in Slot : root[s] = a} = {}
          BY <2>2, AddrFacts DEF Fresh
    <3>2. QED
          BY <2>2, <3>1, FS_EmptySet DEF Roots
  <2>3. QED
        BY <2>1, <2>2
<1>3. Count(todo, a) = 0 /\ Count(work, a) = 0 /\ Count(pend.obj, a) = 0 /\ StoreEdge(a) = 0
      BY CountEmpty DEF Fresh, NoPend, StoreEdge, One
<1>4. store.addr # a /\ store.val # a
      BY AddrFacts DEF Fresh, NoStore
<1>5. Total(a) = Roots(root, a) + Cells(heap, a) - StoreEdge(a) + One(a \in Consts) + Count(pend.obj, a)
              + Count(todo, a) + Count(work, a) + One(store.addr = a) + One(store.val = a)
      BY DEF Total
<1>6. Roots(root, a) \in Nat /\ ~(0 \in Consts)
      BY RootsType, AddrFacts
<1>7. QED
      BY <1>1, <1>2, <1>3, <1>4, <1>5, <1>6 DEF One

LEMMA FreshInv ==
    Fresh /\ TypeOK => HeapInv
<1> SUFFICES ASSUME Fresh, TypeOK PROVE HeapInv
    OBVIOUS
<1>1. \A a \in Addr : Alive(a) <=> a < Base
      BY NilIsNoObject DEF Fresh, Alive
<1>2. ShapeInv
  <2>1. \A a \in 0 .. Base - 1 : heap[a] = <<>>
    <3>1. \A a \in 0 .. Base - 1 : a \in Addr /\ a < Base
          BY AddrFacts
    <3>2. QED
          BY <3>1 DEF Fresh
  <2>2. QED
        BY <1>1, <2>1 DEF ShapeInv, Fresh
<1>3. CoverInv
  <2>1. ASSUME NEW a \in Addr \ {0}
        PROVE  rc[a] >= Owners(a) /\ (Alive(a) <=> rc[a] > 0)
    <3>1. Owners(a) = Total(a) /\ Owners(a) \in Nat
          BY <1>2, OwnersTotal
    <3>2. Total(a) = One(a \in Consts) /\ rc[a] = One(a \in Consts)
          BY FreshTotal DEF Fresh
    <3>3. a \in Consts <=> a < Base
      <4>1. a \in Nat /\ a # 0 /\ Base \in Nat
            BY AddrFacts
      <4>2. QED
            BY <4>1 DEF Consts
    <3>4. rc[a] > 0 <=> a \in Consts
          BY <3>2 DEF One
    <3>5. QED
          BY <1>1, <3>1, <3>2, <3>3, <3>4
  <2>2. QED
        BY <2>1 DEF CoverInv, Fresh
<1>4. FreeInv
  <2>1. \A a \in 0 .. top - 1 : Alive(a)
    <3>1. \A a \in 0 .. top - 1 : a \in Addr /\ a < Base
          BY AddrFacts DEF Fresh
    <3>2. QED
          BY <1>1, <3>1
  <2>2. free = <<>> /\ Apart(<<>>) /\ {<<>>[k] : k \in DOMAIN <<>>} = {}
        BY DEF Fresh, Apart
  <2>3. QED
        BY <2>1, <2>2 DEF FreeInv
<1>5. QuietInv /\ PendInv /\ TrialInv /\ CollectorNeverFaults
      BY DEF Fresh, QuietInv, PendInv, TrialInv, CollectorNeverFaults
<1>6. QED
      BY <1>2, <1>3, <1>4, <1>5 DEF HeapInv

\* Parts of the type that hold of every fresh state.
LEMMA FreshTypes ==
    /\ Fresh => root \in [Slot -> Addr \cup {NoRef}] /\ heap \in [Addr -> Object \cup {Nil}]
                /\ top \in Base .. Limit /\ free \in Seq(Addr) /\ todo \in Seq(Addr) /\ work \in Seq(Addr)
                /\ store \in [addr : Addr \cup {NoRef}, field : 0 .. Width, val : Addr \cup {NoRef}]
                /\ pend \in [obj : Object, ops : Seq(Operand), dst : SUBSET Operand]
    /\ Recounted \in [Addr -> Nat] /\ Recounted[0] = 1 + Cardinality(Global) /\ Cardinality(Global) \in Nat
    /\ \A a \in Addr \ {0} : Recounted[a] = One(a \in Consts)
<1>1. <<>> \in Object
  <2>1. 0 \in 0 .. Width /\ <<>> \in [1 .. 0 -> Addr]
        BY AddrFacts
  <2>2. QED
        BY <2>1 DEF Object
<1>2. IsFiniteSet(Global) /\ Cardinality(Global) \in Nat
      BY HeapAssumption, FS_Subset, FS_CardinalityType
<1>3. Recounted \in [Addr -> Nat] /\ Recounted[0] = 1 + Cardinality(Global)
      BY <1>2, AddrFacts DEF Recounted
<1>4. \A a \in Addr \ {0} : Recounted[a] = One(a \in Consts)
  <2>1. TAKE a \in Addr \ {0}
  <2>2. a \in Nat /\ a # 0 /\ Base \in Nat
        BY AddrFacts
  <2>3. a \in Consts <=> a < Base
        BY <2>2 DEF Consts
  <2>4. QED
        BY <2>2, <2>3 DEF Recounted, One
<1>5. ASSUME Fresh
      PROVE  root \in [Slot -> Addr \cup {NoRef}] /\ heap \in [Addr -> Object \cup {Nil}]
             /\ top \in Base .. Limit /\ free \in Seq(Addr) /\ todo \in Seq(Addr) /\ work \in Seq(Addr)
             /\ store \in [addr : Addr \cup {NoRef}, field : 0 .. Width, val : Addr \cup {NoRef}]
             /\ pend \in [obj : Object, ops : Seq(Operand), dst : SUBSET Operand]
  <2>1. root \in [Slot -> Addr \cup {NoRef}] /\ heap \in [Addr -> Object \cup {Nil}]
        BY <1>1, <1>5, AddrFacts DEF Fresh
  <2>2. top \in Base .. Limit /\ store \in [addr : Addr \cup {NoRef}, field : 0 .. Width, val : Addr \cup {NoRef}]
        BY <1>5, AddrFacts DEF Fresh, NoStore
  <2>3. <<>> \in Seq(Addr) /\ <<>> \in Seq(Operand)
        OBVIOUS
  <2>4. free \in Seq(Addr) /\ todo \in Seq(Addr) /\ work \in Seq(Addr)
        BY <1>5, <2>3 DEF Fresh
  <2>5. pend \in [obj : Object, ops : Seq(Operand), dst : SUBSET Operand]
        BY <1>1, <1>5, <2>3 DEF Fresh, NoPend
  <2>6. QED
        BY <2>1, <2>2, <2>4, <2>5
<1>6. QED
      BY <1>2, <1>3, <1>4, <1>5

\* New.
LEMMA InitInv == Init => HeapInv /\ Total(0) = Cardinality(Global) /\ rc[0] = Cardinality(Global) + 2
                         /\ Cardinality(Global) \in Nat
<1> SUFFICES ASSUME Init
             PROVE  HeapInv /\ Total(0) = Cardinality(Global) /\ rc[0] = Cardinality(Global) + 2
                    /\ Cardinality(Global) \in Nat
    OBVIOUS
<1>1. /\ Recounted \in [Addr -> Nat] /\ Recounted[0] = 1 + Cardinality(Global) /\ Cardinality(Global) \in Nat
      /\ \A a \in Addr \ {0} : Recounted[a] = One(a \in Consts)
      BY FreshTypes
<1>2. rc = [Recounted EXCEPT ![0] = @ + 1]
      BY DEF Init
<1>3. rc \in [Addr -> Nat] /\ rc[0] = Cardinality(Global) + 2 /\ \A a \in Addr \ {0} : rc[a] = Recounted[a]
      BY <1>1, <1>2, AddrFacts
<1>4. Fresh
      BY <1>1, <1>3 DEF Init, Fresh
<1>5. target \in Base .. Limit /\ cap \in top .. 2 * Limit
  <2>1. /\ Base \in Nat /\ Limit \in Nat /\ Runway \in Nat /\ InitCap \in Nat
        /\ Base <= InitCap /\ InitCap <= Limit /\ Base <= Limit
        BY HeapAssumption
  <2>2. target = Max2(Min2(Max2(InitCap, Base + Runway), Limit), Base) /\ cap = InitCap /\ top = Base
        BY DEF Init
  <2>3. QED
        BY <2>1, <2>2 DEF Max2, Min2
<1>6. TypeOK
  <2>1. trial \in [Addr -> Int] /\ grey \subseteq Addr /\ collected \in BOOLEAN /\ phase = "run" /\ traps \in 0 .. MaxTraps
    <3>1. trial = [a \in Addr |-> 0] /\ grey = {} /\ collected = FALSE /\ phase = "run" /\ traps = 0
          BY DEF Init
    <3>2. MaxTraps \in Nat
          BY HeapAssumption
    <3>3. 0 \in 0 .. MaxTraps
          BY <3>2
    <3>4. trial \in [Addr -> Int]
          BY <3>1
    <3>5. grey \subseteq Addr /\ collected \in BOOLEAN
          BY <3>1
    <3>6. QED
          BY <3>1, <3>3, <3>4, <3>5
  <2>2. QED
        BY <1>3, <1>4, <1>5, <2>1, FreshTypes DEF TypeOK
<1>7. QED
      BY <1>1, <1>3, <1>4, <1>6, FreshInv, FreshTotal

\* Reset.
LEMMA ResetStep ==
    ASSUME HeapInv, Reset
    PROVE  /\ HeapInv' /\ Total(0)' = Cardinality(Global) /\ rc'[0] = Cardinality(Global) + 1
           /\ Cardinality(Global) \in Nat
           /\ \A a \in Addr \ {0} : Total(a)' = rc'[a] /\ rc'[a] \in Nat
<1>1. /\ Recounted \in [Addr -> Nat] /\ Recounted[0] = 1 + Cardinality(Global) /\ Cardinality(Global) \in Nat
      /\ \A a \in Addr \ {0} : Recounted[a] = One(a \in Consts)
      BY FreshTypes
<1>2. rc' = Recounted
      BY DEF Reset
<1>3. heap' = [a \in Addr |-> IF a < Base THEN <<>> ELSE Nil]
  <2>1. \A a \in Addr : a < Base => heap[a] = <<>>
    <3>1. \A a \in Addr : a < Base => a \in 0 .. Base - 1
          BY AddrFacts
    <3>2. QED
          BY <3>1 DEF HeapInv, ShapeInv
  <2>2. QED
        BY <2>1 DEF Reset
<1>4. Fresh'
  <2>1. pend' = NoPend /\ phase' = "run" /\ todo' = <<>> /\ work' = <<>> /\ store' = NoStore
        BY DEF HeapInv, QuietInv, Reset, Ready, relVars, gcVars
  <2>2. rc'[0] > 0
        BY <1>1, <1>2
  <2>3. QED
        BY <1>1, <1>2, <1>3, <2>1, <2>2 DEF Fresh, Reset
<1>5. target' \in Base .. Limit /\ cap' \in top' .. 2 * Limit
  <2>1. Base \in Nat /\ Limit \in Nat /\ Base <= Limit /\ top \in Nat /\ Base <= top
        BY AddrFacts DEF HeapInv, ShapeInv, TypeOK
  <2>2. cap \in top .. 2 * Limit /\ cap' = cap /\ top' = Base /\ target' = Pace(Base)
        BY DEF HeapInv, ShapeInv, TypeOK, Reset
  <2>3. QED
        BY <2>1, <2>2, PaceRange
<1>6. TypeOK'
  <2>1. (Fresh => root \in [Slot -> Addr \cup {NoRef}] /\ heap \in [Addr -> Object \cup {Nil}]
                /\ top \in Base .. Limit /\ free \in Seq(Addr) /\ todo \in Seq(Addr) /\ work \in Seq(Addr)
                /\ store \in [addr : Addr \cup {NoRef}, field : 0 .. Width, val : Addr \cup {NoRef}]
                /\ pend \in [obj : Object, ops : Seq(Operand), dst : SUBSET Operand])'
        BY FreshTypes, PTL
  <2>2. collected' \in BOOLEAN /\ trial' \in [Addr -> Int] /\ grey' \subseteq Addr /\ traps' \in 0 .. MaxTraps
        BY DEF HeapInv, ShapeInv, TypeOK, Reset, gcVars
  <2>3. QED
        BY <1>1, <1>2, <1>4, <1>5, <2>1, <2>2 DEF TypeOK, Fresh
<1>7. HeapInv'
  <2>1. (Fresh /\ TypeOK => HeapInv)'
        BY FreshInv, PTL
  <2>2. QED
        BY <1>4, <1>6, <2>1
<1>8. Total(0)' = Cardinality(Global) /\ \A a \in Addr \ {0} : Total(a)' = One(a \in Consts)
  <2>1. (Fresh => Total(0) = Cardinality(Global) /\ \A a \in Addr \ {0} : Total(a) = One(a \in Consts))'
        BY FreshTotal, PTL
  <2>2. QED
        BY <1>4, <2>1
<1>9. QED
      BY <1>1, <1>2, <1>7, <1>8

-----------------------------------------------------------------------------
(***************************************************************************)
(* Every step.                                                             *)
(***************************************************************************)
\* Only a caught trap and a Reset let the sentinel's owners gain on its count.
NullStep ==
    \/ traps' = traps /\ Total(0)' + rc[0] <= Total(0) + rc'[0]
    \/ traps' = traps + 1 /\ traps' <= MaxTraps /\ rc'[0] = rc[0] /\ Total(0)' = Total(0) + 1
    \/ HostResets /\ traps' = traps /\ rc'[0] = Total(0)' + 1

\* Only an allocation that fails, or a store of the reference its slot already holds,
\* lets the count of a gain on its owners.
LeakStep(a) ==
    \/ Total(a)' + rc[a] >= Total(a) + rc'[a]
    \/ phase' = "exhausted"
    \/ \E s \in Slot, v \in Operand : root[s] = a /\ root'[s] = a /\ root[v] = a /\ root'[v] = NoRef

LEMMA ExactLeaks ==
    ASSUME ShapeInv, ShapeInv', Exact
    PROVE  \A a \in Addr \ {0} : LeakStep(a)
<1>1. ASSUME NEW a \in Addr \ {0}
      PROVE  Total(a)' + rc[a] >= Total(a) + rc'[a]
  <2>1. Total(a) \in Nat
        BY EdgesAreOwners
  <2>2. rc'[a] \in Nat
        BY DEF ShapeInv, TypeOK
  <2>3. Total(a)' + rc[a] = Total(a) + rc'[a]
        BY DEF Exact
  <2>4. QED
        BY <2>1, <2>2, <2>3
<1>2. QED
      BY <1>1 DEF LeakStep

\* The instructions that neither trap nor fail.
LEMMA BalancedStep ==
    ASSUME HeapInv, HeapInv', Covering, Exact, traps' = traps
    PROVE  NullStep /\ \A a \in Addr \ {0} : LeakStep(a)
<1>1. NullStep
      BY AddrFacts DEF Covering, NullStep
<1>2. QED
      BY <1>1, ExactLeaks DEF HeapInv

LEMMA InstructionStep ==
    ASSUME HeapInv, Next, ~Internal, ~Reset
    PROVE  HeapInv' /\ NullStep /\ \A a \in Addr \ {0} : LeakStep(a)
<1>1. ASSUME NEW t \in Operand, RefNull(t) \/ NewDefault(t) \/ Drop(t) \/ HostRelease(t)
      PROVE  HeapInv' /\ Covering /\ Exact /\ traps' = traps
  <2>1. traps' = traps
        BY <1>1 DEF RefNull, NewDefault, Drop, HostRelease
  <2>2. QED
        BY <1>1, <2>1, RefNullStep, NewDefaultStep, DropStep, HostReleaseStep
<1>2. ASSUME NEW t \in Operand, CatchTrap(t)
      PROVE  HeapInv' /\ NullStep /\ \A a \in Addr \ {0} : LeakStep(a)
  <2>1. HeapInv' /\ Exact /\ Total(0)' = Total(0) + 1
        BY <1>2, CatchTrapStep
  <2>2. rc' = rc /\ traps' = traps + 1 /\ traps' <= MaxTraps
    <3>1. traps' = traps + 1 /\ rc' = rc
          BY <1>2 DEF CatchTrap
    <3>2. traps' \in 0 .. MaxTraps
          BY <2>1 DEF HeapInv, ShapeInv, TypeOK
    <3>3. QED
          BY <3>1, <3>2, HeapAssumption
  <2>3. QED
        BY <2>1, <2>2, ExactLeaks DEF NullStep, HeapInv
<1>3. ASSUME NEW s \in Slot, NEW t \in Operand, Dup(s, t) \/ TeeSlot(s, t) \/ HostSet(s, t)
      PROVE  HeapInv' /\ Covering /\ Exact /\ traps' = traps
  <2>1. traps' = traps
        BY <1>3 DEF Dup, TeeSlot, HostSet
  <2>2. QED
        BY <1>3, <2>1, DupStep, TeeSlotStep, HostSetStep
<1>4. ASSUME NEW s \in Slot, NEW v \in Operand, SetSlot(s, v)
      PROVE  HeapInv' /\ NullStep /\ \A a \in Addr \ {0} : LeakStep(a)
  <2>1. /\ HeapInv' /\ Covering /\ traps' = traps
        /\ \A a \in Addr \ {0} : root[s] # root[v] \/ root[s] # a => Total(a)' + rc[a] = Total(a) + rc'[a]
        BY <1>4, SetSlotStep DEF SetSlot
  <2>2. NullStep
        BY <2>1, AddrFacts DEF Covering, NullStep
  <2>3. ASSUME NEW a \in Addr \ {0}
        PROVE  LeakStep(a)
    <3>1. CASE root[s] # root[v] \/ root[s] # a
      <4>1. Total(a) \in Nat /\ rc'[a] \in Nat
            BY <2>1, EdgesAreOwners DEF HeapInv, ShapeInv, TypeOK
      <4>2. Total(a)' + rc[a] = Total(a) + rc'[a]
            BY <2>1, <3>1
      <4>3. Total(a)' + rc[a] >= Total(a) + rc'[a]
            BY <4>1, <4>2
      <4>4. QED
            BY <4>3 DEF LeakStep
    <3>2. CASE root[s] = a /\ root[v] = a
      <4>1. root'[s] = a /\ root'[v] = NoRef
        <5>1. root \in [Slot -> Addr \cup {NoRef}] /\ s \in Slot /\ v \in Slot /\ s # v
              BY <1>4, AddrFacts DEF HeapInv, ShapeInv, TypeOK, SetSlot
        <5>2. QED
              BY <1>4, <3>2, <5>1 DEF SetSlot
      <4>2. QED
            BY <3>2, <4>1 DEF LeakStep
    <3>3. QED
          BY <3>1, <3>2
  <2>4. QED
        BY <2>1, <2>2, <2>3
<1>5. ASSUME NEW a \in Consts, NEW t \in Operand, ConstGet(a, t)
      PROVE  HeapInv' /\ Covering /\ Exact /\ traps' = traps
      BY <1>5, ConstGetStep DEF ConstGet
<1>6. ASSUME NEW s \in Operand, NEW f \in 1 .. Width, GetField(s, f)
      PROVE  HeapInv' /\ Covering /\ Exact /\ traps' = traps
      BY <1>6, GetFieldStep DEF GetField
<1>7. ASSUME NEW s \in Operand, NEW f \in 1 .. Width, NEW v \in Operand, ArraySet(s, f, v) \/ StructSet(s, f, v)
      PROVE  HeapInv' /\ Covering /\ Exact /\ traps' = traps
  <2>1. traps' = traps
        BY <1>7 DEF ArraySet, StructSet
  <2>2. QED
        BY <1>7, <2>1, ArraySetStep, StructSetStep
<1>8. ASSUME NEW t \in Operand, NEW ops \in Operands, New(t, ops) \/ Store(t, ops)
      PROVE  HeapInv' /\ Covering /\ Exact /\ traps' = traps
  <2>1. traps' = traps
        BY <1>8 DEF New, Store
  <2>2. QED
        BY <1>8, <2>1, NewStep, StoreStep
<1>9. QED
      BY <1>1, <1>2, <1>3, <1>4, <1>5, <1>6, <1>7, <1>8, BalancedStep DEF Next

\* The steps inside an instruction; release must not be about to take the sentinel.
LEMMA InternalStep ==
    ASSUME HeapInv, Internal, ReleaseStep => NullPermanent' \/ rc[Last(work)] # 1
    PROVE  HeapInv' /\ NullStep /\ \A a \in Addr \ {0} : LeakStep(a)
<1>1. traps' = traps
      BY DEF Internal, Release, Place, Collect, ReleaseCall, ReleaseStep, StructWrite, PlaceReuse, PlaceCollect,
             PlaceExhausted, PlaceAppend, Scan, MarkRoots, MarkStep, MarkDone, Sweep, Recover
<1>2. CASE PlaceExhausted
  <2>1. HeapInv' /\ Covering /\ phase' = "exhausted"
        BY <1>2, PlaceExhaustedStep DEF PlaceExhausted
  <2>2. QED
        BY <1>1, <2>1, AddrFacts DEF Covering, NullStep, LeakStep
<1>3. CASE Release
  <2>1. HeapInv' /\ Covering /\ Exact
        BY <1>3, ReleaseCallStep, ReleaseStepStep, ReleaseKeepStep, StructWriteStep DEF Release
  <2>2. QED
        BY <1>1, <2>1, BalancedStep
<1>4. CASE PlaceReuse \/ PlaceCollect \/ PlaceAppend \/ Recover
  <2>1. HeapInv' /\ Covering /\ Exact
        BY <1>4, PlaceReuseStep, PlaceCollectStep, PlaceAppendStep, RecoverStep
  <2>2. QED
        BY <1>1, <2>1, BalancedStep
<1>5. CASE Collect
  <2>1. HeapInv' /\ Covering /\ Exact
        BY <1>5, ScanStep, MarkRootsStep, MarkStepStep, MarkDoneStep, SweepStep DEF Collect
  <2>2. QED
        BY <1>1, <2>1, BalancedStep
<1>6. QED
      BY <1>2, <1>3, <1>4, <1>5 DEF Internal, Place

LEMMA EveryStep ==
    ASSUME HeapInv, Next, ReleaseStep => NullPermanent' \/ rc[Last(work)] # 1
    PROVE  HeapInv' /\ NullStep /\ \A a \in Addr \ {0} : LeakStep(a)
<1>1. CASE Reset
  <2>1. /\ HeapInv' /\ Total(0)' = Cardinality(Global) /\ rc'[0] = Cardinality(Global) + 1
        /\ \A a \in Addr \ {0} : Total(a)' = rc'[a] /\ rc'[a] \in Nat
        BY <1>1, ResetStep
  <2>2. HostResets /\ traps' = traps
        BY <1>1 DEF Reset
  <2>3. ASSUME NEW a \in Addr \ {0}
        PROVE  LeakStep(a)
    <3>1. Total(a)' = rc'[a] /\ rc'[a] \in Nat /\ rc[a] \in Nat /\ rc[a] >= Total(a) /\ Total(a) \in Nat
          BY <2>1, EdgesAreOwners DEF HeapInv, CoverInv, ShapeInv, TypeOK
    <3>2. Total(a)' + rc[a] >= Total(a) + rc'[a]
          BY <3>1
    <3>3. QED
          BY <3>2 DEF LeakStep
  <2>4. QED
        BY <2>1, <2>2, <2>3 DEF NullStep
<1>2. QED
      BY <1>1, InstructionStep, InternalStep

-----------------------------------------------------------------------------
(***************************************************************************)
(* Theorems.                                                               *)
(***************************************************************************)
LEMMA StutterInv ==
    ASSUME HeapInv, UNCHANGED vars
    PROVE  HeapInv'
<1>1. UNCHANGED <<root, heap, rc, memVars, relVars, pend, collected, trial, grey, phase, traps>>
      BY DEF vars, memVars, relVars
<1>2. /\ Counted' = Counted /\ Edges' = Edges
      /\ \A a \in Addr : InDegree(a)' = InDegree(a) /\ EdgesTo(a)' = EdgesTo(a)
      BY <1>1, CollectorFrame
<1>3. Counted \subseteq Addr
      BY CountedAddr DEF HeapInv
<1>4. TrialInv'
      BY <1>1, <1>2, <1>3 DEF HeapInv, TrialInv, Vouched
<1>5. QuietInv' /\ PendInv'
      BY <1>1 DEF HeapInv, QuietInv, PendInv, relVars, Apart
<1>6. /\ collected' \in BOOLEAN /\ trial' \in [Addr -> Int] /\ grey' \subseteq Addr
      /\ phase' \in {"run", "place", "scan", "mark", "sweep", "exhausted"}
      BY <1>1 DEF HeapInv, ShapeInv, TypeOK, CollectorNeverFaults
<1>7. QED
      BY <1>1, <1>4, <1>5, <1>6, IdleStep

\* The invariant gives each property.
LEMMA HeapInvUses ==
    HeapInv => TypeOK /\ NoDangling /\ FreeExact /\ CollectorNeverFaults /\ NullPermanent
<1> SUFFICES ASSUME HeapInv
             PROVE  TypeOK /\ NoDangling /\ FreeExact /\ CollectorNeverFaults /\ NullPermanent
    OBVIOUS
<1>1. ShapeInv /\ CoverInv /\ FreeInv /\ CollectorNeverFaults /\ TypeOK
      BY DEF HeapInv, ShapeInv
<1>2. ASSUME NEW a \in Addr \ {0}
      PROVE  /\ Owners(a) > 0 => a < top /\ Alive(a)
             /\ rc[a] >= Owners(a) /\ (~Alive(a) => rc[a] = 0)
  <2>1. Owners(a) = Total(a) /\ rc[a] \in Nat
        BY <1>1, OwnersTotal DEF TypeOK
  <2>2. Owners(a) > 0 => a < top /\ Alive(a)
        BY <1>1, <2>1, Held
  <2>3. rc[a] >= Owners(a) /\ (~Alive(a) => ~(rc[a] > 0))
        BY <1>1 DEF CoverInv
  <2>4. ~(rc[a] > 0) => rc[a] = 0
        BY <2>1
  <2>5. QED
        BY <2>2, <2>3, <2>4
<1>3. FreeExact
  <2>1. free \in Seq(Addr) /\ Apart(free)
        BY <1>1 DEF TypeOK, FreeInv
  <2>2. Len(free) = Cardinality({free[k] : k \in DOMAIN free})
        BY <2>1, ApartLen
  <2>3. QED
        BY <1>1, <2>2 DEF FreeInv, FreeExact
<1>4. NullPermanent
  <2>1. heap[0] = <<>>
        BY <1>1, AddrFacts DEF ShapeInv
  <2>2. QED
        BY <2>1, NilIsNoObject DEF NullPermanent, Alive
<1>5. QED
      BY <1>1, <1>2, <1>3, <1>4 DEF NoDangling

LEMMA HeapInvInductive ==
    ASSUME HeapInv, [Next]_vars, NullPermanent'
    PROVE  HeapInv'
BY EveryStep, StutterInv

LEMMA HeapInvariant == Spec /\ []NullPermanent => []HeapInv
<1>1. Init => HeapInv
      BY InitInv
<1>2. HeapInv /\ [Next]_vars /\ NullPermanent' => HeapInv'
      BY HeapInvInductive
<1>3. QED
      BY <1>1, <1>2, PTL DEF Spec

\* Every value of the model's variables has its type: in particular no count goes below
\* zero and pace keeps the collection target between the constants and the heap limit.
THEOREM HeapTypeCorrect == Spec /\ []NullPermanent => []TypeOK
<1>1. HeapInv => TypeOK
      BY HeapInvUses
<1>2. QED
      BY <1>1, HeapInvariant, PTL

\* In every behaviour that keeps the null sentinel, every reference a slot, a field, a
\* constant or an unfinished instruction holds is covered by a count and names a live
\* object: the handlers' retains, release, alloc and the collector never reclaim or
\* reuse an address that is still in use.
THEOREM HeapNoDangling == Spec /\ []NullPermanent => []NoDangling
<1>1. HeapInv => NoDangling
      BY HeapInvUses
<1>2. QED
      BY <1>1, HeapInvariant, PTL

\* Under the same hypothesis the free list that reclaim and sweep push to and reuse pops
\* from holds exactly the reclaimed addresses, each once.
THEOREM HeapFreeExact == Spec /\ []NullPermanent => []FreeExact
<1>1. HeapInv => FreeExact
      BY HeapInvUses
<1>2. QED
      BY <1>1, HeapInvariant, PTL

\* Under the same hypothesis scan never meets a dead child or a count below the number
\* of heap edges, so the collector never panics.
THEOREM HeapCollectorNeverFaults == Spec /\ []NullPermanent => []CollectorNeverFaults
<1>1. HeapInv => CollectorNeverFaults
      BY HeapInvUses
<1>2. QED
      BY <1>1, HeapInvariant, PTL

LEMMA LeaksStep ==
    ASSUME HeapInv, HeapInv', Next, NullPermanent'
    PROVE  \A a \in Addr \ {0} : Surplus(a)' > Surplus(a) =>
              \/ phase' = "exhausted"
              \/ \E s \in Slot, v \in Operand :
                    root[s] = a /\ root'[s] = a /\ root[v] = a /\ root'[v] = NoRef
<1>1. SUFFICES ASSUME NEW a \in Addr \ {0}, Surplus(a)' > Surplus(a)
               PROVE  ~(Total(a)' + rc[a] >= Total(a) + rc'[a])
  <2>1. \A a \in Addr \ {0} : LeakStep(a)
        BY EveryStep
  <2>2. QED
        BY <1>1, <2>1 DEF LeakStep
<1>2. Owners(a) = Total(a) /\ Owners(a) \in Nat /\ Owners(a)' = Total(a)' /\ Owners(a)' \in Nat
      BY OwnersTotal, OwnersTotalNext DEF HeapInv
<1>3. rc[a] \in Nat /\ rc'[a] \in Nat
      BY DEF HeapInv, ShapeInv, TypeOK
<1>4. Surplus(a)' = rc'[a] - Owners(a)' /\ Surplus(a) = rc[a] - Owners(a)
      BY DEF Surplus
<1>5. QED
      BY <1>1, <1>2, <1>3, <1>4

\* Every retained reference is released exactly once: a step of a handler, of release or
\* of the collector leaves a count without an owner only when an allocation fails, or
\* when LOCAL_SET and its like store the reference their slot already holds.
THEOREM HeapLeaksOnlySelfStores == Spec /\ []NullPermanent => LeaksOnlySelfStores
<1>1. HeapInv /\ HeapInv' /\ [Next]_vars /\ NullPermanent' =>
         [\A a \in Addr \ {0} : Surplus(a)' > Surplus(a) =>
             \/ phase' = "exhausted"
             \/ \E s \in Slot, v \in Operand :
                   root[s] = a /\ root'[s] = a /\ root[v] = a /\ root'[v] = NoRef]_vars
      BY LeaksStep
<1>2. QED
      BY <1>1, HeapInvariant, PTL DEF Spec, LeaksOnlySelfStores

-----------------------------------------------------------------------------
(***************************************************************************)
(* How long the null sentinel lasts.  New gives it two counts more than it *)
(* has owners and a Reset one; each trap that is caught uses one up.       *)
(***************************************************************************)
NullBudget == IF HostResets THEN traps = 0 ELSE traps <= 1
NullInv == rc[0] >= Total(0) + 1 + (IF HostResets THEN 0 ELSE 1 - traps)
BudgetInv == traps \in Nat /\ (NullBudget => HeapInv /\ NullInv)

LEMMA TrapsStep ==
    ASSUME Next
    PROVE  traps' = traps \/ (traps < MaxTraps /\ traps' = traps + 1)
<1>1. ASSUME NEW t \in Operand, RefNull(t) \/ NewDefault(t) \/ CatchTrap(t) \/ Drop(t) \/ HostRelease(t)
      PROVE  traps' = traps \/ (traps < MaxTraps /\ traps' = traps + 1)
      BY <1>1 DEF RefNull, NewDefault, CatchTrap, Drop, HostRelease
<1>2. ASSUME NEW s \in Slot, NEW t \in Operand, Dup(s, t) \/ SetSlot(s, t) \/ TeeSlot(s, t) \/ HostSet(s, t)
      PROVE  traps' = traps
      BY <1>2 DEF Dup, SetSlot, TeeSlot, HostSet
<1>3. ASSUME NEW a \in Consts, NEW t \in Operand, ConstGet(a, t)
      PROVE  traps' = traps
      BY <1>3 DEF ConstGet
<1>4. ASSUME NEW s \in Operand, NEW f \in 1 .. Width,
             GetField(s, f) \/ \E v \in Operand : ArraySet(s, f, v) \/ StructSet(s, f, v)
      PROVE  traps' = traps
      BY <1>4 DEF GetField, ArraySet, StructSet
<1>5. ASSUME NEW t \in Operand, NEW ops \in Operands, New(t, ops) \/ Store(t, ops)
      PROVE  traps' = traps
      BY <1>5 DEF New, Store
<1>6. ASSUME Internal PROVE traps' = traps
      BY <1>6 DEF Internal, Release, Place, Collect, ReleaseCall, ReleaseStep, StructWrite, PlaceReuse, PlaceCollect,
                  PlaceExhausted, PlaceAppend, Scan, MarkRoots, MarkStep, MarkDone, Sweep, Recover
<1>7. ASSUME Reset PROVE traps' = traps
      BY <1>7 DEF Reset
<1>8. QED
      BY <1>1, <1>2, <1>3, <1>4, <1>5, <1>6, <1>7 DEF Next

\* With a count to spare, release never takes the sentinel.
LEMMA NullKept ==
    ASSUME HeapInv, rc[0] >= Total(0) + 1, ReleaseStep
    PROVE  NullPermanent' \/ rc[Last(work)] # 1
<1> DEFINE w == Last(work)
<1>1. /\ w \in Addr /\ Front(work) \in Seq(Addr) /\ Alive(0)
      /\ \A a \in Addr : Count(work, a) = Count(Front(work), a) + One(w = a)
      BY WorkTop, HeapInvUses DEF ReleaseStep, NullPermanent
<1> HIDE DEF w
<1>2. CASE w = 0
  <2>1. Count(Front(work), 0) \in Nat /\ Count(work, 0) = Count(Front(work), 0) + 1
    <3>1. 0 \in Addr
          BY AddrFacts
    <3>2. Count(work, 0) = Count(Front(work), 0) + One(w = 0)
          BY <1>1, <3>1
    <3>3. Count(Front(work), 0) \in Nat
          BY <1>1, CountType
    <3>4. QED
          BY <1>2, <3>2, <3>3 DEF One
  <2>2. /\ Roots(root, 0) \in Nat /\ Cells(heap, 0) \in Nat /\ StoreEdge(0) \in Nat
        /\ Count(pend.obj, 0) \in Nat /\ Count(todo, 0) \in Nat
        /\ Cardinality(EdgesTo(0)) = Cells(heap, 0) - StoreEdge(0) /\ Cardinality(EdgesTo(0)) \in Nat
        BY PartTypes, EdgeCount, AddrFacts DEF HeapInv
  <2>3. Total(0) >= 1 /\ Total(0) \in Int
        BY <2>1, <2>2 DEF Total, One
  <2>4. rc[0] \in Nat
        BY AddrFacts DEF HeapInv, ShapeInv, TypeOK
  <2>5. rc[0] # 1
        BY <2>3, <2>4
  <2>6. QED
        BY <1>2, <2>5 DEF w
<1>3. CASE w # 0
  <2>1. heap' = heap \/ heap' = [heap EXCEPT ![w] = Nil]
        BY DEF ReleaseStep, w
  <2>2. heap \in [Addr -> Object \cup {Nil}] /\ 0 \in Addr
        BY AddrFacts DEF HeapInv, ShapeInv, TypeOK
  <2>3. heap'[0] = heap[0]
        BY <1>1, <1>3, <2>1, <2>2
  <2>4. QED
        BY <1>1, <2>3 DEF NullPermanent, Alive
<1>4. QED
      BY <1>2, <1>3

LEMMA NullCount ==
    HeapInv => rc[0] \in Nat /\ Total(0) \in Nat /\ Owners(0) = Total(0)
<1> SUFFICES ASSUME HeapInv PROVE rc[0] \in Nat /\ Total(0) \in Nat /\ Owners(0) = Total(0)
    OBVIOUS
<1>1. 0 \in Addr
      BY AddrFacts
<1>2. QED
      BY <1>1, EdgesAreOwners DEF HeapInv, ShapeInv, TypeOK

LEMMA BudgetInductive ==
    ASSUME BudgetInv, [Next]_vars
    PROVE  BudgetInv'
<1>1. CASE UNCHANGED vars
  <2>1. traps' = traps /\ (NullBudget' <=> NullBudget)
        BY <1>1 DEF vars, NullBudget
  <2>2. NullInv => NullInv'
        BY <1>1 DEF vars, NullInv, Total, StoreEdge
  <2>3. QED
        BY <1>1, <2>1, <2>2, StutterInv DEF BudgetInv
<1>2. CASE Next
  <2>1. traps \in Nat /\ traps' \in Nat /\ (traps' = traps \/ traps' = traps + 1)
    <3>1. traps \in Nat /\ (traps' = traps \/ traps' = traps + 1)
          BY <1>2, TrapsStep DEF BudgetInv
    <3>2. QED
          BY <3>1
  <2>2. SUFFICES ASSUME NullBudget' PROVE HeapInv' /\ NullInv'
        BY <2>1 DEF BudgetInv
  <2>3. NullBudget
        BY <2>1, <2>2 DEF NullBudget
  <2>4. HeapInv /\ NullInv /\ rc[0] \in Nat /\ Total(0) \in Nat
        BY <2>3, NullCount DEF BudgetInv
  <2>5. rc[0] >= Total(0) + 1
        BY <2>1, <2>3, <2>4 DEF NullInv, NullBudget
  <2>6. HeapInv' /\ NullStep
        BY <1>2, <2>4, <2>5, NullKept, EveryStep
  <2>7. rc'[0] \in Nat /\ Total(0)' \in Nat
    <3>1. (HeapInv => rc[0] \in Nat /\ Total(0) \in Nat /\ Owners(0) = Total(0))'
          BY NullCount, PTL
    <3>2. QED
          BY <2>6, <3>1
  <2>8. NullInv'
    <3>1. CASE traps' = traps /\ Total(0)' + rc[0] <= Total(0) + rc'[0]
          BY <2>1, <2>4, <2>7, <3>1 DEF NullInv
    <3>2. CASE traps' = traps + 1 /\ traps' <= MaxTraps /\ rc'[0] = rc[0] /\ Total(0)' = Total(0) + 1
          BY <2>1, <2>2, <2>4, <2>7, <3>2 DEF NullInv, NullBudget
    <3>3. CASE HostResets /\ traps' = traps /\ rc'[0] = Total(0)' + 1
          BY <2>1, <2>7, <3>3 DEF NullInv
    <3>4. QED
          BY <2>6, <3>1, <3>2, <3>3 DEF NullStep
  <2>9. QED
        BY <2>6, <2>8
<1>3. QED
      BY <1>1, <1>2

LEMMA BudgetInvariant == Spec => []BudgetInv
<1>1. Init => BudgetInv
  <2>1. SUFFICES ASSUME Init PROVE BudgetInv
        OBVIOUS
  <2>2. HeapInv /\ Total(0) = Cardinality(Global) /\ rc[0] = Cardinality(Global) + 2 /\ Cardinality(Global) \in Nat
        BY <2>1, InitInv
  <2>3. traps = 0
        BY <2>1 DEF Init
  <2>4. NullInv
        BY <2>2, <2>3 DEF NullInv
  <2>5. QED
        BY <2>2, <2>3, <2>4 DEF BudgetInv
<1>2. BudgetInv /\ [Next]_vars => BudgetInv'
      BY BudgetInductive
<1>3. QED
      BY <1>1, <1>2, PTL DEF Spec

LEMMA BudgetUses ==
    BudgetInv => (NullBudget => NullCovered /\ NoDangling /\ FreeExact /\ CollectorNeverFaults)
<1> SUFFICES ASSUME BudgetInv, NullBudget
             PROVE  NullCovered /\ NoDangling /\ FreeExact /\ CollectorNeverFaults
    OBVIOUS
<1>1. HeapInv /\ NullInv /\ traps \in Nat
      BY DEF BudgetInv
<1>2. rc[0] \in Nat /\ Total(0) \in Nat /\ Owners(0) = Total(0)
      BY <1>1, NullCount
<1>3. rc[0] >= 1 + Owners(0)
      BY <1>1, <1>2 DEF NullInv, NullBudget
<1>4. QED
      BY <1>1, <1>3, HeapInvUses DEF NullCovered, NullPermanent

\* Until a second trap is caught, or, when the host calls Reset, a first one, the count of
\* the null sentinel covers every null in a slot or a field and one more, so neither
\* release, which does not look for null, nor releaseBox brings it to zero.
THEOREM HeapNullCovered == Spec => [](NullBudget => NullCovered)
<1>1. BudgetInv => (NullBudget => NullCovered)
      BY BudgetUses
<1>2. QED
      BY <1>1, BudgetInvariant, PTL

\* Within that budget the heap is safe whatever the program and the host do: nothing in
\* use is reclaimed, the free list is exact and the collector finds no fault.
THEOREM HeapSafeInBudget == Spec => [](NullBudget => NoDangling /\ FreeExact /\ CollectorNeverFaults)
<1>1. BudgetInv => (NullBudget => NoDangling /\ FreeExact /\ CollectorNeverFaults)
      BY BudgetUses
<1>2. QED
      BY <1>1, BudgetInvariant, PTL

LEMMA TrapsInvariant == Spec => [](traps \in 0 .. MaxTraps)
<1>1. Init => traps \in 0 .. MaxTraps
      BY HeapAssumption DEF Init
<1>2. traps \in 0 .. MaxTraps /\ [Next]_vars => (traps \in 0 .. MaxTraps)'
  <2> SUFFICES ASSUME traps \in 0 .. MaxTraps, [Next]_vars PROVE traps' \in 0 .. MaxTraps
      OBVIOUS
  <2>1. traps' = traps \/ (traps < MaxTraps /\ traps' = traps + 1)
        BY TrapsStep DEF vars
  <2>2. MaxTraps \in Nat
        BY HeapAssumption
  <2>3. QED
        BY <2>1, <2>2
<1>3. QED
      BY <1>1, <1>2, PTL DEF Spec

\* The hypothesis of the theorems above holds for every interpreter whose host never
\* resets it and in which at most one trap is caught, and for every one in which none is:
\* release, releaseBox and sweep then never reclaim index 0.
THEOREM HeapNullPermanent ==
    ASSUME MaxTraps = 0 \/ (MaxTraps = 1 /\ ~HostResets)
    PROVE  Spec => []NullPermanent
<1>1. traps \in 0 .. MaxTraps => NullBudget
      BY DEF NullBudget
<1>2. NullCovered => NullPermanent
      BY DEF NullCovered, NullPermanent
<1>3. QED
      BY <1>1, <1>2, TrapsInvariant, HeapNullCovered, PTL
=============================================================================
