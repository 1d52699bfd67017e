----------------------------- MODULE HeapCounts -----------------------------
(***************************************************************************)
(* How the counts the heap's invariants are stated with change: an update  *)
(* of a slot, or of one object, and operands that leave their slots.       *)
(***************************************************************************)
EXTENDS Heap, Counts

\* How many slots hold a, and how many fields of objects do.
Roots(r, a) == Cardinality({s \in Slot : r[s] = a})
CellsOf(h, a) == {e \in Addr \X (1 .. Width) : e[2] \in DOMAIN h[e[1]] /\ h[e[1]][e[2]] = a}
Cells(h, a) == Cardinality(CellsOf(h, a))

-----------------------------------------------------------------------------
(***************************************************************************)
(* Slots.                                                                  *)
(***************************************************************************)
LEMMA RootsType ==
    ASSUME NEW r, NEW a
    PROVE  Roots(r, a) \in Nat /\ IsFiniteSet({s \in Slot : r[s] = a})
<1>1. Roots(r, a) = Tally(Slot, r, a)
      BY DEF Roots, Tally
<1>2. QED
      BY <1>1, TallyType, HeapAssumption

LEMMA RootsHolds ==
    ASSUME NEW r, NEW s \in Slot
    PROVE  Roots(r, r[s]) >= 1
<1> DEFINE K == {t \in Slot : r[t] = r[s]}
<1>1. IsFiniteSet(K)
      BY FS_Subset, HeapAssumption
<1>2. Cardinality(K) \in Nat /\ (Cardinality(K) = 0 <=> K = {})
      BY <1>1, FS_EmptySet, FS_CardinalityType
<1>3. s \in K
      OBVIOUS
<1>4. Cardinality(K) >= 1
  <2> HIDE DEF K
  <2>1. QED
        BY <1>2, <1>3
<1>5. QED
      BY <1>4 DEF Roots

\* One slot is assigned.
LEMMA RootsUpdate ==
    ASSUME NEW r, NEW q, NEW s \in Slot, NEW a,
           \A x \in Slot \ {s} : q[x] = r[x]
    PROVE  Roots(q, a) + One(r[s] = a) = Roots(r, a) + One(q[s] = a)
<1>1. Tally(Slot, q, a) + One(r[s] = a) = Tally(Slot, r, a) + One(q[s] = a)
      BY TallyUpdate, HeapAssumption
<1>2. QED
      BY <1>1 DEF Tally, Roots

\* Two different slots are assigned.
LEMMA RootsUpdateTwo ==
    ASSUME NEW r, NEW q, NEW s \in Slot, NEW t \in Slot, s # t, NEW a,
           \A x \in Slot \ {s, t} : q[x] = r[x]
    PROVE  Roots(q, a) + One(r[s] = a) + One(r[t] = a)
               = Roots(r, a) + One(q[s] = a) + One(q[t] = a)
<1> DEFINE p == [x \in Slot |-> IF x = s THEN q[s] ELSE r[x]]
<1>1. p[t] = r[t] /\ p[s] = q[s] /\ \A x \in Slot \ {s} : p[x] = r[x]
      OBVIOUS
<1>2. \A x \in Slot \ {t} : q[x] = p[x]
      BY <1>1
<1> HIDE DEF p
<1>3. Roots(p, a) + One(r[s] = a) = Roots(r, a) + One(p[s] = a)
      BY <1>1, RootsUpdate
<1>4. Roots(q, a) + One(p[t] = a) = Roots(p, a) + One(q[t] = a)
      BY <1>2, RootsUpdate
<1>5. Roots(p, a) \in Nat /\ Roots(r, a) \in Nat /\ Roots(q, a) \in Nat
      BY RootsType
<1>6. QED
      BY <1>1, <1>3, <1>4, <1>5 DEF One


\* The references in obj have left the slots ops.
Emptied(r, q, ops, obj) ==
    /\ ops \in Seq(Slot) /\ Apart(ops) /\ obj \in Seq(Addr) /\ Len(obj) = Len(ops)
    /\ \A k \in DOMAIN ops : obj[k] = r[ops[k]] /\ q[ops[k]] = NoRef
    /\ \A s \in Slot : (\A k \in DOMAIN ops : ops[k] # s) => q[s] = r[s]

LEMMA RootsTaken ==
    ASSUME NEW r, NEW q, NEW ops, NEW obj, Emptied(r, q, ops, obj), NEW a \in Addr
    PROVE  Roots(r, a) = Roots(q, a) + Count(obj, a)
<1> USE DEF Emptied
<1> DEFINE R == {s \in Slot : r[s] = a}
           Q == {s \in Slot : q[s] = a}
           K == {k \in DOMAIN obj : obj[k] = a}
           F == [k \in K |-> ops[k]]
<1>1. DOMAIN ops = 1 .. Len(ops) /\ DOMAIN obj = DOMAIN ops /\ IsFiniteSet(DOMAIN obj)
      BY SeqDomain
<1>2. IsFiniteSet(R)
      BY FS_Subset, HeapAssumption
<1>3. IsFiniteSet(K)
      BY <1>1, FS_Subset
<1>4. NoRef # a
      BY HeapAssumption DEF Addr, NoRef
<1>5. R \cap Q = Q
      BY <1>4
<1>6. F \in [K -> R \ Q]
      BY <1>1, <1>4
<1>7. \A x, y \in K : F[x] = F[y] => x = y
      BY <1>1 DEF Apart
<1>8. \A y \in R \ Q : \E x \in K : F[x] = y
  <2>1. ASSUME NEW y \in R \ Q
        PROVE  \E x \in K : F[x] = y
    <3>1. PICK k \in DOMAIN ops : ops[k] = y
          OBVIOUS
    <3>2. k \in K
          BY <3>1, <1>1
    <3>3. QED
          BY <3>1, <3>2
  <2>2. QED
        BY <2>1
<1>9. Cardinality(R \ Q) = Cardinality(K)
  <2> HIDE DEF R, Q, K, F
  <2>1. QED
      BY <1>3, <1>6, <1>7, <1>8, CardMoved
<1>10. Cardinality(R) = Cardinality(R \cap Q) + Cardinality(R \ Q)
      BY <1>2, CardSplit
<1>11. QED
      BY <1>5, <1>9, <1>10 DEF Roots, Count

\* Some of the references in obj go back to the empty slots in ops.
LEMMA RootsGivenBack ==
    ASSUME NEW r, NEW q, NEW ops \in Seq(Slot), NEW obj \in Seq(Addr), NEW a \in Addr,
           Len(ops) <= Len(obj), Apart(ops),
           \A s \in Slot : q[s] = r[s] \/ \E k \in DOMAIN ops : ops[k] = s /\ q[s] = obj[k]
    PROVE  Roots(q, a) <= Roots(r, a) + Count(obj, a)
<1> DEFINE R == {s \in Slot : r[s] = a}
           Q == {s \in Slot : q[s] = a}
           K == {k \in DOMAIN obj : obj[k] = a}
           F == [s \in Q \ R |-> CHOOSE k \in DOMAIN ops : ops[k] = s]
<1>1. DOMAIN ops = 1 .. Len(ops) /\ DOMAIN obj = 1 .. Len(obj) /\ IsFiniteSet(1 .. Len(obj))
      /\ Len(ops) \in Nat /\ Len(obj) \in Nat
      BY SeqDomain
<1>2. IsFiniteSet(Q) /\ IsFiniteSet(K) /\ IsFiniteSet(R)
  <2>1. IsFiniteSet(K)
        BY <1>1, FS_Subset
  <2>2. QED
        BY <2>1, FS_Subset, HeapAssumption
<1>3. ASSUME NEW s \in Q \ R
      PROVE  F[s] \in DOMAIN ops /\ ops[F[s]] = s /\ F[s] \in K
  <2>1. PICK k \in DOMAIN ops : ops[k] = s /\ q[s] = obj[k]
        OBVIOUS
  <2>2. F[s] \in DOMAIN ops /\ ops[F[s]] = s
        BY <2>1
  <2>3. F[s] = k
        BY <2>1, <2>2 DEF Apart
  <2>4. k \in DOMAIN obj /\ obj[k] = a
        BY <2>1, <1>1
  <2>5. QED
        BY <2>2, <2>3, <2>4
<1>4. F \in Injection(Q \ R, K)
  <2>1. F \in [Q \ R -> K]
        BY <1>3
  <2>2. \A x, y \in Q \ R : F[x] = F[y] => x = y
        BY <1>3
  <2>3. QED
        BY <2>1, <2>2 DEF Injection, IsInjective
<1>5. Cardinality(Q \ R) <= Cardinality(K)
      BY <1>2, <1>4, FS_Injection
<1>6. Cardinality(Q) = Cardinality(Q \cap R) + Cardinality(Q \ R)
      /\ Cardinality(Q \cap R) \in Nat /\ Cardinality(Q \ R) \in Nat
      BY <1>2, CardSplit
<1>7. Q \cap R \in SUBSET R
      OBVIOUS
<1>8. Cardinality(Q \cap R) <= Cardinality(R)
      BY <1>7, <1>2, FS_Subset
<1>9. Cardinality(R) \in Nat /\ Cardinality(K) \in Nat
      BY <1>2, FS_CardinalityType
<1>10. QED
  <2>1. Roots(q, a) = Cardinality(Q) /\ Roots(r, a) = Cardinality(R) /\ Count(obj, a) = Cardinality(K)
        BY DEF Roots, Count
  <2> HIDE DEF Q, R, K
  <2>2. QED
        BY <1>5, <1>6, <1>8, <1>9, <2>1

-----------------------------------------------------------------------------
(***************************************************************************)
(* Fields.                                                                 *)
(***************************************************************************)
\* An object is a sequence of addresses, and Nil is no object.
LEMMA ObjectSeq ==
    ASSUME NEW o \in Object \cup {Nil}
    PROVE  /\ o \in Seq(Int) /\ Len(o) \in 0 .. Width
           /\ DOMAIN o = 1 .. Len(o) /\ DOMAIN o \subseteq 1 .. Width
           /\ o # Nil => o \in Seq(Addr) /\ o \in Object
           /\ \A a \in Addr : Count(Nil, a) = 0
           /\ Nil \notin Object
<1>1. Width \in Nat /\ Width >= 1 /\ Limit \in Nat
      BY HeapAssumption
<1>2. Nil \in Seq(Int) /\ Len(Nil) = 1 /\ DOMAIN Nil = 1 .. 1 /\ Nil[1] = -1
      BY DEF Nil
<1>3. -1 \notin Addr /\ Addr \subseteq Int
      BY <1>1 DEF Addr
<1>4. ASSUME NEW p \in Object
      PROVE  p \in Seq(Addr) /\ p # Nil /\ Len(p) \in 0 .. Width /\ p \in Seq(Int)
  <2>1. PICK n \in 0 .. Width : p \in [1 .. n -> Addr]
        BY DEF Object
  <2>2. n \in Nat /\ p \in Seq(Addr) /\ Len(p) = n
        BY <2>1, <1>1
  <2>3. p # Nil
    <3>1. SUFFICES ASSUME p = Nil PROVE FALSE
          OBVIOUS
    <3>2. n = 1
          BY <3>1, <2>2, <1>2
    <3>3. p[1] \in Addr
          BY <3>2, <2>1
    <3>4. QED
          BY <3>1, <3>3, <1>2, <1>3
  <2>4. p \in [1 .. n -> Int]
        BY <2>1, <1>3
  <2>5. p \in Seq(Int)
        BY <2>4, <2>2
  <2>6. QED
        BY <2>2, <2>3, <2>5
<1>5. \A a \in Addr : Count(Nil, a) = 0
  <2>1. TAKE a \in Addr
  <2>2. Count(<<-1>>, a) = One(-1 = a)
        BY CountSingle
  <2>3. QED
        BY <2>2, <1>3 DEF Nil, One
<1>6. CASE o = Nil
  <2>1. o \in Seq(Int) /\ Len(o) = 1 /\ DOMAIN o = 1 .. 1
        BY <1>2, <1>6
  <2>2. Len(o) \in 0 .. Width /\ DOMAIN o = 1 .. Len(o) /\ DOMAIN o \subseteq 1 .. Width
        BY <2>1, <1>1
  <2>3. Nil \notin Object
        BY <1>4
  <2>4. QED
        BY <2>1, <2>2, <2>3, <1>5, <1>6
<1>7. CASE o \in Object
  <2>1. o \in Seq(Addr) /\ o # Nil /\ Len(o) \in 0 .. Width /\ o \in Seq(Int)
        BY <1>4, <1>7
  <2>2. DOMAIN o = 1 .. Len(o)
        BY <2>1
  <2>3. QED
        BY <2>1, <2>2, <1>1, <1>4, <1>5, <1>7
<1>8. QED
      BY <1>6, <1>7

\* What marks a reclaimed slot is not an object.
LEMMA NilIsNoObject == Nil # <<>> /\ Nil \notin Object
<1>1. Nil \in Object \cup {Nil}
      OBVIOUS
<1>2. Nil \notin Object
      BY <1>1, ObjectSeq
<1>3. Nil # <<>>
      BY DEF Nil
<1>4. QED
      BY <1>2, <1>3

LEMMA CellsType ==
    ASSUME NEW h, NEW a
    PROVE  Cells(h, a) \in Nat /\ IsFiniteSet(CellsOf(h, a))
<1>1. IsFiniteSet(Addr) /\ IsFiniteSet(1 .. Width)
      BY FS_Interval, HeapAssumption DEF Addr
<1>2. IsFiniteSet(Addr \X (1 .. Width))
      BY <1>1, FS_Product
<1>3. IsFiniteSet(CellsOf(h, a))
      BY <1>2, FS_Subset DEF CellsOf
<1>4. QED
      BY <1>3, FS_CardinalityType DEF Cells

\* The fields of one object that hold a.
At(c) == {c} \X (1 .. Width)

LEMMA CellsAt ==
    ASSUME NEW h \in [Addr -> Object \cup {Nil}], NEW c \in Addr, NEW a
    PROVE  Cardinality(CellsOf(h, a) \cap At(c)) = Count(h[c], a)
<1> DEFINE K == {k \in DOMAIN h[c] : h[c][k] = a}
           C == CellsOf(h, a) \cap At(c)
           F == [k \in K |-> <<c, k>>]
<1>1. h[c] \in Object \cup {Nil}
      OBVIOUS
<1>2. h[c] \in Seq(Int) /\ DOMAIN h[c] \subseteq 1 .. Width
      BY <1>1, ObjectSeq
<1>3. IsFiniteSet(K)
  <2>1. IsFiniteSet(DOMAIN h[c])
        BY <1>2, SeqDomain
  <2>2. QED
        BY <2>1, FS_Subset
<1>4. F \in [K -> C]
      BY <1>2 DEF CellsOf, At
<1>5. \A x, y \in K : F[x] = F[y] => x = y
      OBVIOUS
<1>6. \A y \in C : \E x \in K : F[x] = y
  <2>1. TAKE y \in C
  <2>2. y = <<c, y[2]>> /\ y[2] \in K
        BY DEF CellsOf, At
  <2>3. QED
        BY <2>2
<1>7. QED
  <2>1. Count(h[c], a) = Cardinality(K)
        BY DEF Count
  <2>2. Cardinality(C) = Cardinality(K)
    <3> HIDE DEF K, C, F
    <3>1. QED
          BY <1>3, <1>4, <1>5, <1>6, CardMoved
  <2>3. QED
        BY <2>1, <2>2

\* One object is replaced.
Replaced(h, g, c) ==
    /\ h \in [Addr -> Object \cup {Nil}] /\ g \in [Addr -> Object \cup {Nil}] /\ c \in Addr
    /\ \A x \in Addr \ {c} : g[x] = h[x]

LEMMA CellsUpdate ==
    ASSUME NEW h, NEW g, NEW c, Replaced(h, g, c), NEW a
    PROVE  Cells(g, a) + Count(h[c], a) = Cells(h, a) + Count(g[c], a)
<1>1. /\ Cells(h, a) = Cardinality(CellsOf(h, a) \cap At(c)) + Cardinality(CellsOf(h, a) \ At(c))
      /\ Cardinality(CellsOf(h, a) \cap At(c)) \in Nat /\ Cardinality(CellsOf(h, a) \ At(c)) \in Nat
      BY CellsType, CardSplit DEF Cells
<1>2. /\ Cells(g, a) = Cardinality(CellsOf(g, a) \cap At(c)) + Cardinality(CellsOf(g, a) \ At(c))
      /\ Cardinality(CellsOf(g, a) \cap At(c)) \in Nat
      BY CellsType, CardSplit DEF Cells
<1>3. CellsOf(g, a) \ At(c) = CellsOf(h, a) \ At(c)
      BY DEF CellsOf, At, Replaced
<1>4. Cardinality(CellsOf(h, a) \cap At(c)) = Count(h[c], a)
      BY CellsAt DEF Replaced
<1>5. Cardinality(CellsOf(g, a) \cap At(c)) = Count(g[c], a)
      BY CellsAt DEF Replaced
<1>6. Cardinality(CellsOf(g, a) \ At(c)) = Cardinality(CellsOf(h, a) \ At(c))
      BY <1>3
<1>7. QED
      BY <1>1, <1>2, <1>4, <1>5, <1>6

LEMMA CellsExchange ==
    ASSUME NEW h, NEW g, NEW c, Replaced(h, g, c), NEW a,
           Count(h[c], a) \in Nat, Count(g[c], a) \in Nat, NEW m \in Nat, NEW n \in Nat,
           Count(g[c], a) + m = Count(h[c], a) + n
    PROVE  Cells(g, a) + m = Cells(h, a) + n
<1>1. Cells(g, a) + Count(h[c], a) = Cells(h, a) + Count(g[c], a)
      BY CellsUpdate
<1>2. Cells(g, a) \in Nat /\ Cells(h, a) \in Nat
      BY CellsType
<1>3. QED
      BY <1>1, <1>2

\* g is h with field f of the object at c overwritten.
Rewritten(h, g, c, f) ==
    /\ Replaced(h, g, c)
    /\ h[c] \in Seq(Addr) /\ g[c] \in Seq(Addr) /\ Len(g[c]) = Len(h[c]) /\ f \in 1 .. Len(h[c])
    /\ \A j \in 1 .. Len(h[c]) : j # f => g[c][j] = h[c][j]

LEMMA CellsWrite ==
    ASSUME NEW h, NEW g, NEW c, NEW f, Rewritten(h, g, c, f), NEW a \in Addr
    PROVE  Cells(g, a) + One(h[c][f] = a) = Cells(h, a) + One(g[c][f] = a)
<1> DEFINE m == One(h[c][f] = a)
           n == One(g[c][f] = a)
<1>1. Count(g[c], a) + m = Count(h[c], a) + n
      BY CountUpdate DEF Rewritten
<1>2. Count(h[c], a) \in Nat /\ Count(g[c], a) \in Nat
      BY CountType DEF Rewritten
<1>3. m \in Nat /\ n \in Nat
      BY DEF One
<1>4. Replaced(h, g, c)
      BY DEF Rewritten
<1>5. Cells(g, a) + m = Cells(h, a) + n
  <2> HIDE DEF m, n
  <2>1. QED
        BY <1>1, <1>2, <1>3, <1>4, CellsExchange
<1>6. QED
      BY <1>5
=============================================================================
