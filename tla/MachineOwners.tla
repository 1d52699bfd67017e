---------------------------- MODULE MachineOwners ----------------------------
(***************************************************************************)
(* Every reference a frame, a stack slot, the global, a pending release or *)
(* an object holds is counted; a coroutine is in one frame at most; and    *)
(* calls, returns, suspensions and unwinding lose no count: for every set  *)
(* of functions, every finite heap, and stacks of any depth.               *)
(***************************************************************************)
EXTENDS MachineProofs, Counts

\* What a stack slot, a field or a frame may hold.
Item == Value \cup {None}

\* 1 if x is a.
Is(x, a) == One(x = a)

-----------------------------------------------------------------------------
(***************************************************************************)
(* Occurrences in the sequences the instructions make.                     *)
(***************************************************************************)
LEMMA IsType ==
    \A x, a : Is(x, a) \in Nat /\ (x = a => Is(x, a) = 1) /\ (x # a => Is(x, a) = 0)
BY DEF Is, One

\* One element more.
LEMMA CountAppend ==
    ASSUME NEW S, NEW s \in Seq(S), NEW x \in S, NEW a
    PROVE  Count(Append(s, x), a) = Count(s, a) + Is(x, a)
<1>1. Append(s, x) = s \o <<x>>
      BY AppendIsConcat
<1>2. <<x>> \in Seq(S)
      OBVIOUS
<1>3. Count(s \o <<x>>, a) = Count(s, a) + Count(<<x>>, a)
      BY <1>2, CountConcat, Zenon
<1>4. Count(<<x>>, a) = Is(x, a)
      BY CountSingle, Zenon DEF Is
<1>5. QED
      BY <1>1, <1>3, <1>4, Zenon

\* Cutting a prefix in two.
LEMMA CountCut ==
    ASSUME NEW S, NEW s \in Seq(S), NEW m \in Nat, NEW n \in Nat, m <= n, n <= Len(s), NEW a
    PROVE  /\ Count(SubSeq(s, 1, n), a) = Count(SubSeq(s, 1, m), a) + Count(SubSeq(s, m + 1, n), a)
           /\ Count(SubSeq(s, 1, n), a) \in Nat /\ Count(SubSeq(s, 1, m), a) \in Nat
           /\ Count(SubSeq(s, m + 1, n), a) \in Nat
<1>1. 1 \in 1 .. Len(s) + 1 /\ m \in 1 - 1 .. Len(s) /\ n \in m .. Len(s)
      BY LenProperties
<1>2. SubSeq(s, 1, m) \o SubSeq(s, m + 1, n) = SubSeq(s, 1, n)
      BY <1>1, ConcatAdjacentSubSeq
<1>3. SubSeq(s, 1, n) \in Seq(S)
      BY Prefix
<1>4. SubSeq(s, 1, m) \in Seq(S)
  <2>1. m <= Len(s)
        BY LenProperties
  <2>2. QED
        BY <2>1, Prefix
<1>5. SubSeq(s, m + 1, n) \in Seq(S)
      BY Segment
<1> DEFINE low == SubSeq(s, 1, m)
           mid == SubSeq(s, m + 1, n)
<1> HIDE DEF low, mid
<1>6. Count(low \o mid, a) = Count(low, a) + Count(mid, a)
      BY <1>4, <1>5, CountConcat DEF low, mid
<1>7. QED
      BY <1>2, <1>3, <1>4, <1>5, <1>6, CountType DEF low, mid

\* A whole sequence cut in two.
LEMMA CountParts ==
    ASSUME NEW S, NEW s \in Seq(S), NEW m \in Nat, m <= Len(s), NEW a
    PROVE  /\ Count(s, a) = Count(SubSeq(s, 1, m), a) + Count(SubSeq(s, m + 1, Len(s)), a)
           /\ Count(s, a) \in Nat /\ Count(SubSeq(s, 1, m), a) \in Nat
           /\ Count(SubSeq(s, m + 1, Len(s)), a) \in Nat
<1> DEFINE n == Len(s)
<1>1. n \in Nat /\ m <= n /\ n <= Len(s)
      BY LenProperties
<1>2. SubSeq(s, 1, n) = s
      BY SubSeqFull
<1> HIDE DEF n
<1>3. /\ Count(SubSeq(s, 1, n), a) = Count(SubSeq(s, 1, m), a) + Count(SubSeq(s, m + 1, n), a)
      /\ Count(SubSeq(s, 1, n), a) \in Nat /\ Count(SubSeq(s, 1, m), a) \in Nat
      /\ Count(SubSeq(s, m + 1, n), a) \in Nat
      BY <1>1, CountCut
<1>4. QED
      BY <1>2, <1>3, Zenon DEF n

\* Zeroed locals hold no reference, and None and Num are none.
LEMMA NoReference ==
    ASSUME NEW o \in Obj
    PROVE  /\ Is(Num, o) = 0 /\ Is(None, o) = 0
           /\ \A n \in Nat : Count(Nums(n), o) = 0
<1>1. Num # o /\ None # o
      BY MachineAssumption
<1>2. ASSUME NEW n \in Nat
      PROVE  Count(Nums(n), o) = 0
  <2>1. {k \in DOMAIN Nums(n) : Nums(n)[k] = o} = {}
        BY <1>1 DEF Nums
  <2>2. QED
        BY <2>1, FS_EmptySet DEF Count
<1>3. QED
      BY <1>1, <1>2 DEF One, Is

\* A value is a reference or a number, and both are items.
LEMMA ItemSeq ==
    /\ \A s : s \in Seq(Value) => s \in Seq(Item)
    /\ Value \subseteq Item /\ None \in Item /\ Obj \cup {None} \subseteq Item
<1>1. Value \subseteq Item /\ None \in Item /\ Obj \cup {None} \subseteq Item
      BY DEF Item, Value
<1>2. ASSUME NEW s \in Seq(Value)
      PROVE  s \in Seq(Item)
      BY <1>1, SeqMonotonic
<1>3. QED
      BY <1>1, <1>2

-----------------------------------------------------------------------------
(***************************************************************************)
(* Occurrences in the frames.                                              *)
(***************************************************************************)
LEMMA FrameRefs ==
    ASSUME NEW fs \in Seq(Frame)
    PROVE  /\ Callables(fs) \in Seq(Item) /\ Len(Callables(fs)) = Len(fs)
           /\ Coroutines(fs) \in Seq(Item) /\ Len(Coroutines(fs)) = Len(fs)
           /\ \A k \in 1 .. Len(fs) : Callables(fs)[k] = fs[k].ref /\ Coroutines(fs)[k] = fs[k].coro
<1>1. DOMAIN fs = 1 .. Len(fs) /\ Len(fs) \in Nat
      BY LenProperties
<1>2. \A k \in 1 .. Len(fs) : fs[k] \in Frame
      BY ElementOfSeq
<1>3. \A k \in 1 .. Len(fs) : fs[k].ref \in Item /\ fs[k].coro \in Item
      BY <1>2, ItemSeq DEF Frame
<1>4. Callables(fs) \in [1 .. Len(fs) -> Item] /\ Coroutines(fs) \in [1 .. Len(fs) -> Item]
      BY <1>1, <1>3 DEF Callables, Coroutines
<1>5. /\ Callables(fs) \in Seq(Item) /\ Len(Callables(fs)) = Len(fs)
      /\ Coroutines(fs) \in Seq(Item) /\ Len(Coroutines(fs)) = Len(fs)
      BY <1>1, <1>4
<1>6. QED
      BY <1>1, <1>5 DEF Callables, Coroutines

\* How often frames hold o, as a callable, as their coroutine.
Called(fs, o) == Count(Callables(fs), o)
Lent(fs, o) == Count(Coroutines(fs), o)

LEMMA FrameCounts ==
    ASSUME NEW fs \in Seq(Frame), NEW o
    PROVE  Called(fs, o) \in Nat /\ Lent(fs, o) \in Nat
BY FrameRefs, CountType DEF Called, Lent

\* A frame comes on top.
LEMMA FramesPushed ==
    ASSUME NEW fs \in Seq(Frame), NEW f \in Frame, NEW o
    PROVE  /\ Called(Append(fs, f), o) = Called(fs, o) + Is(f.ref, o)
           /\ Lent(Append(fs, f), o) = Lent(fs, o) + Is(f.coro, o)
<1> DEFINE gs == Append(fs, f)
           n == Len(fs)
<1>1. /\ gs \in Seq(Frame) /\ Len(gs) = n + 1 /\ gs[n + 1] = f
      /\ \A k \in 1 .. n : gs[k] = fs[k]
      BY AppendProperties
<1>2. /\ n \in Nat /\ n + 1 \in 1 .. n + 1
      /\ \A k \in 1 .. n + 1 : k = n + 1 \/ k \in 1 .. n
      /\ \A k \in 1 .. n : k \in 1 .. n + 1
      BY LenProperties
<1> HIDE DEF gs
<1>3. /\ Callables(gs) \in Seq(Item) /\ Len(Callables(gs)) = n + 1
      /\ Coroutines(gs) \in Seq(Item) /\ Len(Coroutines(gs)) = n + 1
      /\ \A k \in 1 .. n + 1 : Callables(gs)[k] = gs[k].ref /\ Coroutines(gs)[k] = gs[k].coro
      BY <1>1, FrameRefs
<1>4. /\ Callables(fs) \in Seq(Item) /\ Len(Callables(fs)) = n
      /\ Coroutines(fs) \in Seq(Item) /\ Len(Coroutines(fs)) = n
      /\ \A k \in 1 .. n : Callables(fs)[k] = fs[k].ref /\ Coroutines(fs)[k] = fs[k].coro
      BY FrameRefs
<1>5. f.ref \in Item /\ f.coro \in Item
      BY ItemSeq DEF Frame
<1> HIDE DEF n
<1>6. ASSUME NEW k \in 1 .. n
       PROVE  Callables(gs)[k] = Callables(fs)[k] /\ Coroutines(gs)[k] = Coroutines(fs)[k]
  <2>1. k \in 1 .. n + 1 /\ gs[k] = fs[k]
        BY <1>1, <1>2
  <2>2. Callables(gs)[k] = gs[k].ref /\ Coroutines(gs)[k] = gs[k].coro
        BY <1>3, <2>1, Zenon
  <2>3. Callables(fs)[k] = fs[k].ref /\ Coroutines(fs)[k] = fs[k].coro
        BY <1>4, Zenon
  <2>4. QED
        BY <2>1, <2>2, <2>3, Zenon
<1>7. Callables(gs) = Append(Callables(fs), f.ref)
  <2> DEFINE s == Append(Callables(fs), f.ref)
  <2>1. /\ s \in Seq(Item) /\ Len(s) = n + 1 /\ s[n + 1] = f.ref
        /\ \A k \in 1 .. n : s[k] = Callables(fs)[k]
        BY <1>4, <1>5, AppendProperties
  <2> HIDE DEF s
  <2>2. \A k \in 1 .. n + 1 : Callables(gs)[k] = s[k]
    <3>1. \A k \in 1 .. n : Callables(gs)[k] = s[k]
          BY <1>6, <2>1, Zenon
    <3>2. Callables(gs)[n + 1] = s[n + 1]
          BY <1>1, <1>2, <1>3, <2>1, Zenon
    <3>3. QED
          BY <1>2, <3>1, <3>2, Zenon
  <2>3. Callables(gs) = s
        BY <1>3, <2>1, <2>2, SeqEqual
  <2>4. QED
        BY <2>3 DEF s
<1>8. Coroutines(gs) = Append(Coroutines(fs), f.coro)
  <2> DEFINE s == Append(Coroutines(fs), f.coro)
  <2>1. /\ s \in Seq(Item) /\ Len(s) = n + 1 /\ s[n + 1] = f.coro
        /\ \A k \in 1 .. n : s[k] = Coroutines(fs)[k]
        BY <1>4, <1>5, AppendProperties
  <2> HIDE DEF s
  <2>2. \A k \in 1 .. n + 1 : Coroutines(gs)[k] = s[k]
    <3>1. \A k \in 1 .. n : Coroutines(gs)[k] = s[k]
          BY <1>6, <2>1, Zenon
    <3>2. Coroutines(gs)[n + 1] = s[n + 1]
          BY <1>1, <1>2, <1>3, <2>1, Zenon
    <3>3. QED
          BY <1>2, <3>1, <3>2, Zenon
  <2>3. Coroutines(gs) = s
        BY <1>3, <2>1, <2>2, SeqEqual
  <2>4. QED
        BY <2>3 DEF s
<1>9. /\ Count(Append(Callables(fs), f.ref), o) = Count(Callables(fs), o) + Is(f.ref, o)
      /\ Count(Append(Coroutines(fs), f.coro), o) = Count(Coroutines(fs), o) + Is(f.coro, o)
      BY <1>4, <1>5, CountAppend
<1>10. QED
      BY <1>7, <1>8, <1>9, Zenon DEF Called, Lent, gs

\* The top frame goes.
LEMMA FramesClosed ==
    ASSUME NEW fs \in Seq(Frame), Len(fs) >= 1, NEW o
    PROVE  /\ Called(fs, o) = Called(Front(fs), o) + Is(Last(fs).ref, o)
           /\ Lent(fs, o) = Lent(Front(fs), o) + Is(Last(fs).coro, o)
           /\ Front(fs) \in Seq(Frame)
<1>1. fs # <<>>
      BY LenProperties
<1>2. Front(fs) \in Seq(Frame) /\ Last(fs) \in Frame
      BY <1>1, CountLast
<1>3. fs = Append(Front(fs), Last(fs))
      BY <1>1 DEF Front, Last
<1> DEFINE g == Front(fs)
           l == Last(fs)
<1> HIDE DEF g, l
<1>4. /\ Called(Append(g, l), o) = Called(g, o) + Is(l.ref, o)
      /\ Lent(Append(g, l), o) = Lent(g, o) + Is(l.coro, o)
      BY <1>2, FramesPushed DEF g, l
<1>5. QED
      BY <1>2, <1>3, <1>4, Zenon DEF g, l

\* One frame is replaced.
LEMMA FramesSwapped ==
    ASSUME NEW fs \in Seq(Frame), NEW n \in 1 .. Len(fs), NEW g \in Frame, NEW o
    PROVE  /\ Called([fs EXCEPT ![n] = g], o) + Is(fs[n].ref, o) = Called(fs, o) + Is(g.ref, o)
           /\ Lent([fs EXCEPT ![n] = g], o) + Is(fs[n].coro, o) = Lent(fs, o) + Is(g.coro, o)
           /\ [fs EXCEPT ![n] = g] \in Seq(Frame)
<1> DEFINE gs == [fs EXCEPT ![n] = g]
<1>1. /\ gs \in Seq(Frame) /\ Len(gs) = Len(fs)
      /\ \A j \in 1 .. Len(fs) : gs[j] = IF j = n THEN g ELSE fs[j]
      BY ExceptSeq
<1> HIDE DEF gs
<1>2. /\ Callables(gs) \in Seq(Item) /\ Len(Callables(gs)) = Len(gs)
      /\ Coroutines(gs) \in Seq(Item) /\ Len(Coroutines(gs)) = Len(gs)
      /\ \A k \in 1 .. Len(gs) : Callables(gs)[k] = gs[k].ref /\ Coroutines(gs)[k] = gs[k].coro
      BY <1>1, FrameRefs
<1>3. /\ Callables(fs) \in Seq(Item) /\ Len(Callables(fs)) = Len(fs)
      /\ Coroutines(fs) \in Seq(Item) /\ Len(Coroutines(fs)) = Len(fs)
      /\ \A k \in 1 .. Len(fs) : Callables(fs)[k] = fs[k].ref /\ Coroutines(fs)[k] = fs[k].coro
      BY FrameRefs
<1>4. ASSUME NEW j \in 1 .. Len(fs), j # n
      PROVE  Callables(gs)[j] = Callables(fs)[j] /\ Coroutines(gs)[j] = Coroutines(fs)[j]
      BY <1>1, <1>2, <1>3, <1>4, Zenon
<1>5. /\ Callables(gs)[n] = g.ref /\ Coroutines(gs)[n] = g.coro
      /\ Callables(fs)[n] = fs[n].ref /\ Coroutines(fs)[n] = fs[n].coro
      BY <1>1, <1>2, <1>3, Zenon
<1>6. Count(Callables(gs), o) + Is(Callables(fs)[n], o)
          = Count(Callables(fs), o) + Is(Callables(gs)[n], o)
      BY <1>1, <1>2, <1>3, <1>4, CountUpdate DEF Is
<1>7. Count(Coroutines(gs), o) + Is(Coroutines(fs)[n], o)
          = Count(Coroutines(fs), o) + Is(Coroutines(gs)[n], o)
      BY <1>1, <1>2, <1>3, <1>4, CountUpdate DEF Is
<1>8. /\ Called(gs, o) + Is(fs[n].ref, o) = Called(fs, o) + Is(g.ref, o)
      /\ Lent(gs, o) + Is(fs[n].coro, o) = Lent(fs, o) + Is(g.coro, o)
      BY <1>5, <1>6, <1>7, Zenon DEF Called, Lent
<1>9. QED
      BY <1>1, <1>8 DEF gs

\* The frames above the k-th go; the k-th holds what it held.
LEMMA FramesLanded ==
    ASSUME NEW fs \in Seq(Frame), NEW k \in 1 .. Len(fs), NEW g \in Frame,
           g.ref = fs[k].ref, g.coro = fs[k].coro, NEW o
    PROVE  LET gs == Append(SubSeq(fs, 1, k - 1), g)
           IN  /\ Called(fs, o) = Called(gs, o) + Count(SubSeq(Callables(fs), k + 1, Len(fs)), o)
               /\ Lent(fs, o) = Lent(gs, o) + Count(SubSeq(Coroutines(fs), k + 1, Len(fs)), o)
               /\ Count(SubSeq(Callables(fs), k + 1, Len(fs)), o) \in Nat
               /\ Count(SubSeq(Coroutines(fs), k + 1, Len(fs)), o) \in Nat
<1> DEFINE low == SubSeq(fs, 1, k - 1)
           gs == Append(low, g)
           m == k - 1
<1>1. /\ Len(fs) \in Nat /\ k \in Nat /\ k <= Len(fs) /\ m \in Nat /\ m <= Len(fs) /\ k = m + 1
      /\ \A j \in 1 .. k : j = k \/ j \in 1 .. m
      /\ \A j \in 1 .. k : j \in 1 .. Len(fs)
      BY LenProperties
<1> HIDE DEF m
<1>2. low \in Seq(Frame) /\ Len(low) = m /\ \A j \in 1 .. m : low[j] = fs[j]
  <2>1. SubSeq(fs, 1, m) \in Seq(Frame) /\ Len(SubSeq(fs, 1, m)) = m
        /\ \A j \in 1 .. m : SubSeq(fs, 1, m)[j] = fs[j]
        BY <1>1, Prefix
  <2>2. QED
        BY <2>1 DEF m
<1> HIDE DEF low
<1>3. /\ gs \in Seq(Frame) /\ Len(gs) = k /\ gs[k] = g
      /\ \A j \in 1 .. m : gs[j] = low[j]
      BY <1>1, <1>2, AppendProperties
<1> HIDE DEF gs
<1>4. \A j \in 1 .. k : gs[j].ref = fs[j].ref /\ gs[j].coro = fs[j].coro
  <2>1. \A j \in 1 .. m : gs[j] = fs[j]
        BY <1>2, <1>3
  <2>2. QED
        BY <1>1, <1>3, <2>1, Zenon
<1>5. /\ Callables(gs) \in Seq(Item) /\ Len(Callables(gs)) = k
      /\ Coroutines(gs) \in Seq(Item) /\ Len(Coroutines(gs)) = k
      /\ \A j \in 1 .. k : Callables(gs)[j] = gs[j].ref /\ Coroutines(gs)[j] = gs[j].coro
      BY <1>3, FrameRefs
<1>6. /\ Callables(fs) \in Seq(Item) /\ Len(Callables(fs)) = Len(fs)
      /\ Coroutines(fs) \in Seq(Item) /\ Len(Coroutines(fs)) = Len(fs)
      /\ \A j \in 1 .. Len(fs) : Callables(fs)[j] = fs[j].ref /\ Coroutines(fs)[j] = fs[j].coro
      BY FrameRefs
<1>7. ASSUME NEW s \in Seq(Item), NEW t \in Seq(Item), Len(t) = Len(fs), Len(s) = k,
             \A j \in 1 .. k : s[j] = t[j]
      PROVE  /\ Count(t, o) = Count(s, o) + Count(SubSeq(t, k + 1, Len(fs)), o)
             /\ Count(SubSeq(t, k + 1, Len(fs)), o) \in Nat
  <2>1. /\ SubSeq(t, 1, k) \in Seq(Item) /\ Len(SubSeq(t, 1, k)) = k
        /\ \A j \in 1 .. k : SubSeq(t, 1, k)[j] = t[j]
        BY <1>1, <1>7, Prefix
  <2> DEFINE u == SubSeq(t, 1, k)
  <2> HIDE DEF u
  <2>2. \A j \in 1 .. k : s[j] = u[j]
        BY <1>7, <2>1 DEF u
  <2>3. s = u
        BY <1>7, <2>1, <2>2, SeqEqual DEF u
  <2>4. /\ Count(t, o) = Count(SubSeq(t, 1, k), o) + Count(SubSeq(t, k + 1, Len(t)), o)
        /\ Count(SubSeq(t, k + 1, Len(t)), o) \in Nat
        BY <1>1, <1>7, CountParts
  <2>5. QED
        BY <1>7, <2>3, <2>4, Zenon DEF u
<1>8. \A j \in 1 .. k : Callables(gs)[j] = Callables(fs)[j] /\ Coroutines(gs)[j] = Coroutines(fs)[j]
  <2>1. ASSUME NEW j \in 1 .. k
        PROVE  Callables(gs)[j] = Callables(fs)[j] /\ Coroutines(gs)[j] = Coroutines(fs)[j]
    <3>1. gs[j].ref = fs[j].ref /\ gs[j].coro = fs[j].coro /\ j \in 1 .. Len(fs)
          BY <1>1, <1>4, Zenon
    <3>2. Callables(gs)[j] = gs[j].ref /\ Coroutines(gs)[j] = gs[j].coro
          BY <1>5, Zenon
    <3>3. Callables(fs)[j] = fs[j].ref /\ Coroutines(fs)[j] = fs[j].coro
          BY <1>6, <3>1, Zenon
    <3>4. QED
          BY <3>1, <3>2, <3>3, Zenon
  <2>2. QED
        BY <2>1, Zenon
<1>9. /\ Count(Callables(fs), o) = Count(Callables(gs), o) + Count(SubSeq(Callables(fs), k + 1, Len(fs)), o)
      /\ Count(SubSeq(Callables(fs), k + 1, Len(fs)), o) \in Nat
      BY <1>5, <1>6, <1>7, <1>8, Zenon
<1>10. /\ Count(Coroutines(fs), o) = Count(Coroutines(gs), o) + Count(SubSeq(Coroutines(fs), k + 1, Len(fs)), o)
       /\ Count(SubSeq(Coroutines(fs), k + 1, Len(fs)), o) \in Nat
      BY <1>5, <1>6, <1>7, <1>8, Zenon
<1>11. QED
      BY <1>9, <1>10, Zenon DEF Called, Lent, gs, low

-----------------------------------------------------------------------------
(***************************************************************************)
(* Occurrences in the heap.                                                *)
(***************************************************************************)
CellsOf(h, S, a) ==
    {e \in S \X (1 .. StackCap + 2) :
        LET fields == Fields(h[e[1]]) IN e[2] \in DOMAIN fields /\ fields[e[2]] = a}
Cells(h, S, a) == Cardinality(CellsOf(h, S, a))

\* An image fits the stack it was cut from.
Fitting(h) == h \in [Obj -> Object] /\ \A o \in Obj : Len(h[o].image) <= StackCap

\* What an object refers to.
LEMMA FieldsSeq ==
    ASSUME NEW v \in Object, NEW a
    PROVE  /\ Fields(v) \in Seq(Item) /\ Len(Fields(v)) = Len(v.image) + 2
           /\ Count(Fields(v), a) = Count(v.image, a) + Is(v.value, a) + Is(v.ref, a)
           /\ Count(Fields(v), a) \in Nat /\ Count(v.image, a) \in Nat
<1> DEFINE img == v.image
           x == v.value
           y == v.ref
           two == <<x, y>>
<1>1. img \in Seq(Item) /\ x \in Item /\ y \in Item
      BY ItemSeq DEF Object
<1> HIDE DEF img, x, y
<1>2. two \in Seq(Item) /\ Len(two) = 2 /\ two = Append(<<x>>, y) /\ <<x>> \in Seq(Item)
      BY <1>1
<1>3. Count(two, a) = Is(x, a) + Is(y, a)
  <2>1. Count(Append(<<x>>, y), a) = Count(<<x>>, a) + Is(y, a)
    <3> DEFINE one == <<x>>
    <3>1. one \in Seq(Item)
          BY <1>2
    <3> HIDE DEF one
    <3>2. Count(Append(one, y), a) = Count(one, a) + Is(y, a)
          BY <3>1, <1>1, CountAppend
    <3>3. QED
          BY <3>2 DEF one
  <2>2. Count(<<x>>, a) = Is(x, a)
        BY CountSingle, Zenon DEF Is
  <2>3. QED
        BY <1>2, <2>1, <2>2, Zenon
<1> HIDE DEF two
<1>4. img \o two \in Seq(Item) /\ Len(img \o two) = Len(img) + 2
      BY <1>1, <1>2, ConcatProperties
<1>5. Count(img \o two, a) = Count(img, a) + Count(two, a) /\ Count(img, a) \in Nat
      BY <1>1, <1>2, CountConcat, CountType
<1>6. Count(img \o two, a) = Count(img, a) + Is(x, a) + Is(y, a)
      BY <1>3, <1>5 DEF One, Is
<1>7. Count(img \o two, a) \in Nat
      BY <1>4, CountType
<1>8. Fields(v) = img \o two
      BY DEF Fields, img, two, x, y
<1>9. QED
      BY <1>4, <1>5, <1>6, <1>7, <1>8, Zenon DEF img, x, y

\* Positions of an object's references.
LEMMA FieldsWidth ==
    ASSUME NEW h, Fitting(h), NEW o \in Obj
    PROVE  /\ h[o] \in Object /\ Fields(h[o]) \in Seq(Item)
           /\ DOMAIN Fields(h[o]) \subseteq 1 .. StackCap + 2
           /\ IsFiniteSet(DOMAIN Fields(h[o]))
<1>1. h[o] \in Object /\ Len(h[o].image) <= StackCap /\ StackCap \in Nat
      BY MachineAssumption DEF Fitting
<1>2. Len(h[o].image) \in Nat
      BY <1>1, LenProperties DEF Object
<1> DEFINE v == h[o]
           l == Len(v.image)
<1>3. Fields(v) \in Seq(Item) /\ Len(Fields(v)) = l + 2
      BY <1>1, FieldsSeq
<1>4. DOMAIN Fields(v) = 1 .. Len(Fields(v)) /\ IsFiniteSet(DOMAIN Fields(v))
      BY <1>3, SeqDomain
<1> HIDE DEF l
<1>5. l \in Nat /\ l <= StackCap
      BY <1>1, <1>2 DEF l
<1>6. DOMAIN Fields(v) = 1 .. l + 2
      BY <1>3, <1>4, Zenon
<1>7. 1 .. l + 2 \subseteq 1 .. StackCap + 2
      BY <1>1, <1>5
<1>8. QED
      BY <1>1, <1>3, <1>4, <1>6, <1>7, Zenon

LEMMA CellsType ==
    ASSUME NEW h, NEW S \in SUBSET Obj, NEW a
    PROVE  Cells(h, S, a) \in Nat /\ IsFiniteSet(CellsOf(h, S, a))
<1>1. StackCap + 2 \in Int /\ 1 \in Int
      BY MachineAssumption
<1>2. IsFiniteSet(S) /\ IsFiniteSet(1 .. StackCap + 2)
      BY <1>1, FS_Interval, FS_Subset, MachineAssumption
<1>3. IsFiniteSet(S \X (1 .. StackCap + 2))
      BY <1>2, FS_Product
<1>4. IsFiniteSet(CellsOf(h, S, a))
      BY <1>3, FS_Subset DEF CellsOf
<1>5. QED
      BY <1>4, FS_CardinalityType DEF Cells

\* The references of one object.
At(c) == {c} \X (1 .. StackCap + 2)

LEMMA CellsAt ==
    ASSUME NEW h, Fitting(h), NEW S \in SUBSET Obj, NEW c \in S, NEW a
    PROVE  Cardinality(CellsOf(h, S, a) \cap At(c)) = Count(Fields(h[c]), a)
<1> DEFINE fields == Fields(h[c])
           K == {k \in DOMAIN fields : fields[k] = a}
           C == CellsOf(h, S, a) \cap At(c)
           F == [k \in K |-> <<c, k>>]
<1>1. DOMAIN fields \subseteq 1 .. StackCap + 2 /\ IsFiniteSet(DOMAIN fields)
      BY FieldsWidth
<1>2. IsFiniteSet(K)
      BY <1>1, FS_Subset
<1>3. C = {e \in At(c) : e[2] \in DOMAIN fields /\ fields[e[2]] = a}
      BY DEF CellsOf, At
<1> HIDE DEF fields, C
<1>4. F \in [K -> C]
  <2>1. ASSUME NEW k \in K
        PROVE  <<c, k>> \in C
    <3>1. <<c, k>> \in At(c)
          BY <1>1 DEF At
    <3>2. QED
          BY <1>3, <3>1
  <2>2. QED
        BY <2>1
<1>5. \A x, y \in K : F[x] = F[y] => x = y
      OBVIOUS
<1>6. \A y \in C : \E x \in K : F[x] = y
  <2>1. TAKE y \in C
  <2>2. y = <<c, y[2]>> /\ y[2] \in K
        BY <1>3 DEF At
  <2>3. QED
        BY <2>2
<1>7. Cardinality(C) = Cardinality(K)
  <2> HIDE DEF K, F
  <2>1. QED
        BY <1>2, <1>4, <1>5, <1>6, CardMoved
<1>8. Count(fields, a) = Cardinality(K)
      BY DEF Count
<1>9. QED
      BY <1>7, <1>8 DEF C, fields

\* An object's references are among those of its heap.
LEMMA CellsHolds ==
    ASSUME NEW h, Fitting(h), NEW S \in SUBSET Obj, NEW c \in S, NEW a
    PROVE  Cells(h, S, a) >= Count(Fields(h[c]), a)
<1>1. /\ Cells(h, S, a) = Cardinality(CellsOf(h, S, a) \cap At(c)) + Cardinality(CellsOf(h, S, a) \ At(c))
      /\ Cardinality(CellsOf(h, S, a) \cap At(c)) \in Nat /\ Cardinality(CellsOf(h, S, a) \ At(c)) \in Nat
      BY CellsType, CardSplit DEF Cells
<1>2. Cardinality(CellsOf(h, S, a) \cap At(c)) = Count(Fields(h[c]), a)
      BY CellsAt
<1>3. QED
      BY <1>1, <1>2

\* One object changes.
LEMMA CellsUpdate ==
    ASSUME NEW h, Fitting(h), NEW g, Fitting(g), NEW S \in SUBSET Obj, NEW c \in S, NEW a,
           \A x \in S \ {c} : g[x] = h[x]
    PROVE  Cells(g, S, a) + Count(Fields(h[c]), a) = Cells(h, S, a) + Count(Fields(g[c]), a)
<1>1. /\ Cells(h, S, a) = Cardinality(CellsOf(h, S, a) \cap At(c)) + Cardinality(CellsOf(h, S, a) \ At(c))
      /\ Cardinality(CellsOf(h, S, a) \cap At(c)) \in Nat /\ Cardinality(CellsOf(h, S, a) \ At(c)) \in Nat
      BY CellsType, CardSplit DEF Cells
<1>2. /\ Cells(g, S, a) = Cardinality(CellsOf(g, S, a) \cap At(c)) + Cardinality(CellsOf(g, S, a) \ At(c))
      /\ Cardinality(CellsOf(g, S, a) \cap At(c)) \in Nat
      BY CellsType, CardSplit DEF Cells
<1>3. CellsOf(g, S, a) \ At(c) = CellsOf(h, S, a) \ At(c)
  <2>1. ASSUME NEW e \in S \X (1 .. StackCap + 2), e \notin At(c)
        PROVE  g[e[1]] = h[e[1]]
        BY <2>1 DEF At
  <2>2. \A e \in S \X (1 .. StackCap + 2) : e \notin At(c) => Fields(g[e[1]]) = Fields(h[e[1]])
        BY <2>1
  <2>3. QED
        BY <2>2 DEF CellsOf
<1>4. Cardinality(CellsOf(h, S, a) \cap At(c)) = Count(Fields(h[c]), a)
      BY CellsAt
<1>5. Cardinality(CellsOf(g, S, a) \cap At(c)) = Count(Fields(g[c]), a)
      BY CellsAt
<1>6. Cardinality(CellsOf(g, S, a) \ At(c)) = Cardinality(CellsOf(h, S, a) \ At(c))
      BY <1>3
<1>7. QED
      BY <1>1, <1>2, <1>4, <1>5, <1>6

\* A heap in two parts.
LEMMA CellsSplit ==
    ASSUME NEW h, NEW S \in SUBSET Obj, NEW D \in SUBSET S, NEW a
    PROVE  Cells(h, S, a) = Cells(h, D, a) + Cells(h, S \ D, a)
<1> DEFINE P == D \X (1 .. StackCap + 2)
<1>1. /\ Cells(h, S, a) = Cardinality(CellsOf(h, S, a) \cap P) + Cardinality(CellsOf(h, S, a) \ P)
      BY CellsType, CardSplit DEF Cells
<1>2. CellsOf(h, S, a) \cap P = CellsOf(h, D, a)
      BY DEF CellsOf
<1>3. CellsOf(h, S, a) \ P = CellsOf(h, S \ D, a)
      BY DEF CellsOf
<1>4. QED
      BY <1>1, <1>2, <1>3 DEF Cells

\* Objects that do not change, or hold no a.
LEMMA CellsSame ==
    ASSUME NEW h, NEW g, NEW S, NEW a, \A x \in S : g[x] = h[x]
    PROVE  Cells(g, S, a) = Cells(h, S, a)
<1>1. \A e \in S \X (1 .. StackCap + 2) : Fields(g[e[1]]) = Fields(h[e[1]])
      OBVIOUS
<1>2. CellsOf(g, S, a) = CellsOf(h, S, a)
      BY <1>1 DEF CellsOf
<1>3. QED
      BY <1>2 DEF Cells

LEMMA CellsNone ==
    ASSUME NEW h, NEW S, NEW a,
           \A x \in S : \A k \in DOMAIN Fields(h[x]) : Fields(h[x])[k] # a
    PROVE  Cells(h, S, a) = 0
<1>1. CellsOf(h, S, a) = {}
      BY DEF CellsOf
<1>2. QED
      BY <1>1, FS_EmptySet DEF Cells

-----------------------------------------------------------------------------
(***************************************************************************)
(* The invariant.                                                          *)
(***************************************************************************)
Typed ==
    /\ FrameInv
    /\ rc \in [Obj -> Nat] /\ todo \in [Obj -> Nat]
    /\ Fitting(obj)

\* No function returns more than one value.
Short == \A k \in 1 .. Len(frames) : frames[k].returns <= 1

\* A free address is blank and has no count.
Sound(v, n) == v.returns <= 1 /\ (v.kind = "free" => v = Blank /\ n = 0)

\* What is in n frames as their coroutine is in one at most, and holds nothing there;
\* a coroutine that is done holds its result only.
Lending(v, n) ==
    /\ n <= 1
    /\ n > 0 \/ v.done => v.image = <<>> /\ v.ref = None
    /\ n > 0 => ~v.done /\ v.value = Num

Counted(o) ==
    /\ rc[o] >= Owners(o)
    /\ Sound(obj[o], rc[o])
    /\ Lending(obj[o], Lent(frames, o))

OwnInv == Typed /\ Short /\ \A o \in Obj : Counted(o)

\* What happens to the counts nobody owns: they stay as many, or do not get fewer.
Exact == \A o \in Obj : rc'[o] + Owners(o) = rc[o] + Owners(o)'
Covers == \A o \in Obj : rc[o] + Owners(o)' <= rc'[o] + Owners(o)

\* Owners as a sum of natural numbers.
Summed(o) ==
    /\ Owners(o) = Cells(obj, Obj, o) + Count(stack, o) + todo[o] + Is(global, o)
                     + Called(frames, o) + Lent(frames, o)
    /\ Held(o) = Cells(obj, Obj, o)
    /\ Cells(obj, Obj, o) \in Nat /\ Count(stack, o) \in Nat /\ todo[o] \in Nat
    /\ Is(global, o) \in Nat /\ Called(frames, o) \in Nat /\ Lent(frames, o) \in Nat
    /\ rc[o] \in Nat /\ Owners(o) \in Nat

AllSummed == \A o \in Obj : Summed(o)

LEMMA OwnersSum == Typed => AllSummed
<1> SUFFICES ASSUME Typed, NEW o \in Obj
             PROVE  Summed(o)
    BY DEF AllSummed
<1>1. Held(o) = Cells(obj, Obj, o)
      BY DEF Held, HeldBy, Cells, CellsOf
<1>2. Cells(obj, Obj, o) \in Nat
      BY CellsType
<1>3. Count(stack, o) \in Nat /\ Called(frames, o) \in Nat /\ Lent(frames, o) \in Nat
      BY CountType, FrameCounts DEF Typed, FrameInv
<1>4. todo[o] \in Nat /\ rc[o] \in Nat
      BY DEF Typed
<1>5. Is(global, o) \in Nat
      BY DEF One, Is
<1>6. External(o) = Count(stack, o) + todo[o] + Is(global, o) + Called(frames, o) + Lent(frames, o)
      BY DEF External, Called, Lent, Is
<1> DEFINE a == Cells(obj, Obj, o)
           b == Count(stack, o)
           c == todo[o]
           d == Is(global, o)
           e == Called(frames, o)
           f == Lent(frames, o)
<1>7. /\ a \in Nat /\ b \in Nat /\ c \in Nat /\ d \in Nat /\ e \in Nat /\ f \in Nat
      BY <1>2, <1>3, <1>4, <1>5
<1>8. Owners(o) = a + (b + c + d + e + f)
      BY <1>1, <1>6 DEF Owners
<1> HIDE DEF a, b, c, d, e, f
<1>9. Owners(o) = a + b + c + d + e + f /\ Owners(o) \in Nat
      BY <1>7, <1>8
<1>10. QED
      BY <1>1, <1>4, <1>7, <1>9, Zenon DEF Summed, a, b, c, d, e, f

LEMMA OwnersSumNext == Typed' => AllSummed'
BY OwnersSum, PTL

\* The terms of both sums, for a step.
LEMMA Terms ==
    ASSUME OwnInv, Typed', NEW o \in Obj
    PROVE  /\ Summed(o) /\ Summed(o)' /\ rc[o] >= Owners(o)
BY OwnersSum, OwnersSumNext DEF OwnInv, Counted, AllSummed

\* A step that takes no owned count away keeps every reference counted.
LEMMA CoversOwned ==
    ASSUME OwnInv, Typed', Covers
    PROVE  \A o \in Obj : rc'[o] >= Owners(o)'
<1> SUFFICES ASSUME NEW o \in Obj
             PROVE  rc'[o] >= Owners(o)'
    OBVIOUS
<1>1. Summed(o) /\ Summed(o)' /\ rc[o] >= Owners(o)
      BY Terms
<1>2. rc[o] \in Nat /\ Owners(o) \in Nat /\ rc'[o] \in Nat /\ Owners(o)' \in Nat
      BY <1>1 DEF Summed
<1>3. rc[o] + Owners(o)' <= rc'[o] + Owners(o)
      BY DEF Covers
<1>4. QED
      BY <1>1, <1>2, <1>3

LEMMA ExactCovers ==
    ASSUME OwnInv, Typed', Exact
    PROVE  Covers
<1> SUFFICES ASSUME NEW o \in Obj
             PROVE  rc[o] + Owners(o)' <= rc'[o] + Owners(o)
    BY DEF Covers
<1>1. Summed(o) /\ Summed(o)'
      BY Terms
<1>2. rc[o] \in Nat /\ Owners(o) \in Nat /\ rc'[o] \in Nat /\ Owners(o)' \in Nat
      BY <1>1 DEF Summed
<1>3. rc'[o] + Owners(o) = rc[o] + Owners(o)'
      BY DEF Exact
<1>4. QED
      BY <1>2, <1>3

\* An object in fewer frames than before is still lent to one at most.
LEMMA LendingLess ==
    ASSUME NEW v, NEW n \in Nat, NEW m \in Nat, m <= n, Lending(v, n)
    PROVE  Lending(v, m)
<1>1. m <= 1 /\ (m > 0 => n > 0)
      BY DEF Lending
<1>2. QED
      BY <1>1 DEF Lending

\* Steps that leave the objects alone.
LEMMA PlainInv ==
    ASSUME OwnInv, Typed', Short', Covers, obj' = obj,
           \A o \in Obj : Lent(frames', o) <= Lent(frames, o),
           \A o \in Obj : rc[o] = 0 => rc'[o] = 0
    PROVE  OwnInv'
<1>1. ASSUME NEW o \in Obj
      PROVE  Counted(o)'
  <2>1. rc'[o] >= Owners(o)'
        BY CoversOwned
  <2>2. Sound(obj'[o], rc'[o])
    <3>1. Sound(obj[o], rc[o])
          BY DEF OwnInv, Counted
    <3>2. QED
          BY <3>1 DEF Sound
  <2>3. Lending(obj'[o], Lent(frames', o))
    <3>1. Lent(frames, o) \in Nat /\ Lent(frames', o) \in Nat
          BY Terms DEF Summed
    <3>2. Lending(obj[o], Lent(frames, o))
          BY DEF OwnInv, Counted
    <3>3. QED
          BY <3>1, <3>2, LendingLess
  <2>4. QED
        BY <2>1, <2>2, <2>3 DEF Counted
<1>2. QED
      BY <1>1 DEF OwnInv

\* What nobody counts holds no reference.
LEMMA Unowned ==
    ASSUME OwnInv, NEW o \in Obj, rc[o] = 0
    PROVE  /\ Owners(o) = 0 /\ Cells(obj, Obj, o) = 0 /\ Count(stack, o) = 0 /\ todo[o] = 0
           /\ Is(global, o) = 0 /\ Called(frames, o) = 0 /\ Lent(frames, o) = 0
<1> DEFINE a == Cells(obj, Obj, o)
           b == Count(stack, o)
           c == todo[o]
           d == Is(global, o)
           e == Called(frames, o)
           f == Lent(frames, o)
<1>1. Summed(o) /\ rc[o] >= Owners(o)
      BY OwnersSum DEF OwnInv, Counted, AllSummed
<1>2. /\ a \in Nat /\ b \in Nat /\ c \in Nat /\ d \in Nat /\ e \in Nat /\ f \in Nat
      /\ Owners(o) = a + b + c + d + e + f /\ 0 >= Owners(o)
      BY <1>1, Zenon DEF Summed
<1> HIDE DEF a, b, c, d, e, f
<1>3. Owners(o) = 0 /\ a = 0 /\ b = 0 /\ c = 0 /\ d = 0 /\ e = 0 /\ f = 0
      BY <1>2
<1>4. QED
      BY <1>3 DEF a, b, c, d, e, f

\* Releases for what a sequence holds.
LEMMA ReleasesType ==
    ASSUME NEW s \in Seq(Item)
    PROVE  Releases(s) \in [Obj -> Nat] /\ \A o \in Obj : Releases(s)[o] = Count(s, o)
BY CountType DEF Releases

\* While an instruction runs nothing is left to release.
LEMMA NothingLeft ==
    ASSUME Running, NEW o \in Obj
    PROVE  todo[o] = 0 /\ Nothing \in [Obj -> Nat] /\ Nothing[o] = 0
BY DEF Running, Nothing

\* An instruction that leaves frames, heap and counts to these terms.
LEMMA TypedNext ==
    ASSUME OwnInv, FrameInv', rc' \in [Obj -> Nat], todo' \in [Obj -> Nat], Fitting(obj')
    PROVE  Typed'
BY DEF Typed

\* A sum whose term for the objects changes by x, and the others by as much as the count.
LEMMA SumShift ==
    ASSUME NEW h \in Nat, NEW s \in Nat, NEW t \in Nat, NEW g \in Nat, NEW c \in Nat, NEW l \in Nat,
           NEW h2 \in Nat, NEW s2 \in Nat, NEW t2 \in Nat, NEW g2 \in Nat, NEW c2 \in Nat,
           NEW l2 \in Nat, NEW r \in Nat, NEW r2 \in Nat
    PROVE  /\ r2 + h + (s + t + g + c + l) = r + h2 + (s2 + t2 + g2 + c2 + l2)
                => r2 + (h + s + t + g + c + l) = r + (h2 + s2 + t2 + g2 + c2 + l2)
           /\ r2 + h + (s + t + g + c + l) >= r + h2 + (s2 + t2 + g2 + c2 + l2)
                => r + (h2 + s2 + t2 + g2 + c2 + l2) <= r2 + (h + s + t + g + c + l)
OBVIOUS

\* The references from outside the heap.
Outside(st, td, gl, fs, o) == Count(st, o) + td[o] + Is(gl, o) + Called(fs, o) + Lent(fs, o)

\* It is enough to balance the counts, the references from the heap and those from outside.
LEMMA ExactFrom ==
    ASSUME OwnInv, Typed',
           \A o \in Obj : rc'[o] + Cells(obj, Obj, o) + Outside(stack, todo, global, frames, o)
                        = rc[o] + Cells(obj', Obj, o) + Outside(stack', todo', global', frames', o)
    PROVE  Exact
<1> SUFFICES ASSUME NEW o \in Obj
             PROVE  rc'[o] + Owners(o) = rc[o] + Owners(o)'
    BY DEF Exact
<1> DEFINE h == Cells(obj, Obj, o)
           s == Count(stack, o)
           t == todo[o]
           g == Is(global, o)
           c == Called(frames, o)
           l == Lent(frames, o)
           h2 == Cells(obj', Obj, o)
           s2 == Count(stack', o)
           t2 == todo'[o]
           g2 == Is(global', o)
           c2 == Called(frames', o)
           l2 == Lent(frames', o)
<1>1. Summed(o) /\ Summed(o)'
      BY Terms
<1>2. /\ h \in Nat /\ s \in Nat /\ t \in Nat /\ g \in Nat /\ c \in Nat /\ l \in Nat /\ rc[o] \in Nat
      /\ Owners(o) = h + s + t + g + c + l
      BY <1>1, Zenon DEF Summed
<1>3. /\ h2 \in Nat /\ s2 \in Nat /\ t2 \in Nat /\ g2 \in Nat /\ c2 \in Nat /\ l2 \in Nat
      /\ rc'[o] \in Nat
      /\ Owners(o)' = h2 + s2 + t2 + g2 + c2 + l2
      BY <1>1, Zenon DEF Summed
<1>4. rc'[o] + h + (s + t + g + c + l) = rc[o] + h2 + (s2 + t2 + g2 + c2 + l2)
      BY Zenon DEF Outside
<1> HIDE DEF h, s, t, g, c, l, h2, s2, t2, g2, c2, l2
<1>5. rc'[o] + (h + s + t + g + c + l) = rc[o] + (h2 + s2 + t2 + g2 + c2 + l2)
      BY <1>2, <1>3, <1>4, SumShift
<1>6. QED
      BY <1>2, <1>3, <1>5, Zenon

LEMMA CoversFrom ==
    ASSUME OwnInv, Typed',
           \A o \in Obj : rc'[o] + Cells(obj, Obj, o) + Outside(stack, todo, global, frames, o)
                        >= rc[o] + Cells(obj', Obj, o) + Outside(stack', todo', global', frames', o)
    PROVE  Covers
<1> SUFFICES ASSUME NEW o \in Obj
             PROVE  rc[o] + Owners(o)' <= rc'[o] + Owners(o)
    BY DEF Covers
<1> DEFINE h == Cells(obj, Obj, o)
           s == Count(stack, o)
           t == todo[o]
           g == Is(global, o)
           c == Called(frames, o)
           l == Lent(frames, o)
           h2 == Cells(obj', Obj, o)
           s2 == Count(stack', o)
           t2 == todo'[o]
           g2 == Is(global', o)
           c2 == Called(frames', o)
           l2 == Lent(frames', o)
<1>1. Summed(o) /\ Summed(o)'
      BY Terms
<1>2. /\ h \in Nat /\ s \in Nat /\ t \in Nat /\ g \in Nat /\ c \in Nat /\ l \in Nat /\ rc[o] \in Nat
      /\ Owners(o) = h + s + t + g + c + l
      BY <1>1, Zenon DEF Summed
<1>3. /\ h2 \in Nat /\ s2 \in Nat /\ t2 \in Nat /\ g2 \in Nat /\ c2 \in Nat /\ l2 \in Nat
      /\ rc'[o] \in Nat
      /\ Owners(o)' = h2 + s2 + t2 + g2 + c2 + l2
      BY <1>1, Zenon DEF Summed
<1>4. rc'[o] + h + (s + t + g + c + l) >= rc[o] + h2 + (s2 + t2 + g2 + c2 + l2)
      BY Zenon DEF Outside
<1> HIDE DEF h, s, t, g, c, l, h2, s2, t2, g2, c2, l2
<1>5. rc[o] + (h2 + s2 + t2 + g2 + c2 + l2) <= rc'[o] + (h + s + t + g + c + l)
      BY <1>2, <1>3, <1>4, SumShift
<1>6. QED
      BY <1>2, <1>3, <1>5, Zenon

\* The references from outside are a natural number of each kind.
LEMMA OutsideTerms ==
    ASSUME Typed, NEW o \in Obj
    PROVE  /\ Count(stack, o) \in Nat /\ todo[o] \in Nat /\ Is(global, o) \in Nat
           /\ Called(frames, o) \in Nat /\ Lent(frames, o) \in Nat /\ rc[o] \in Nat
           /\ Cells(obj, Obj, o) \in Nat
BY OwnersSum DEF AllSummed, Summed

LEMMA OutsideTermsNext ==
    ASSUME Typed', NEW o \in Obj
    PROVE  /\ Count(stack', o) \in Nat /\ todo'[o] \in Nat /\ Is(global', o) \in Nat
           /\ Called(frames', o) \in Nat /\ Lent(frames', o) \in Nat /\ rc'[o] \in Nat
           /\ Cells(obj', Obj, o) \in Nat
<1>1. Summed(o)'
      BY OwnersSumNext DEF AllSummed
<1>2. QED
      BY <1>1 DEF Summed

LEMMA OutsideType ==
    ASSUME Typed, Typed', NEW o \in Obj
    PROVE  /\ Outside(stack, todo, global, frames, o) \in Nat
           /\ Outside(stack', todo', global', frames', o) \in Nat
<1>1. ASSUME NEW a \in Nat, NEW b \in Nat, NEW c \in Nat, NEW d \in Nat, NEW e \in Nat
      PROVE  a + b + c + d + e \in Nat
      OBVIOUS
<1>2. Outside(stack, todo, global, frames, o) \in Nat
      BY <1>1, OutsideTerms, Zenon DEF Outside
<1>3. Outside(stack', todo', global', frames', o) \in Nat
      BY <1>1, OutsideTermsNext, Zenon DEF Outside
<1>4. QED
      BY <1>2, <1>3

\* The steps that leave the objects alone, by what they do to the references from outside.
Plain ==
    /\ FrameInv' /\ rc' \in [Obj -> Nat] /\ todo' \in [Obj -> Nat] /\ obj' = obj /\ Short'
    /\ \A o \in Obj : Lent(frames', o) <= Lent(frames, o)
    /\ \A o \in Obj : rc[o] = 0 => rc'[o] = 0

LEMMA PlainTyped ==
    ASSUME OwnInv, Plain
    PROVE  Typed'
BY DEF Plain, OwnInv, Typed

LEMMA PlainExact ==
    ASSUME OwnInv, Plain,
           \A o \in Obj : rc'[o] + Outside(stack, todo, global, frames, o)
                        = rc[o] + Outside(stack', todo', global', frames', o)
    PROVE  OwnInv' /\ Exact
<1>1. Typed'
      BY PlainTyped
<1>2. ASSUME NEW o \in Obj
      PROVE  rc'[o] + Cells(obj, Obj, o) + Outside(stack, todo, global, frames, o)
                 = rc[o] + Cells(obj', Obj, o) + Outside(stack', todo', global', frames', o)
  <2>1. obj' = obj
        BY DEF Plain
  <2>2. Cells(obj, Obj, o) \in Nat /\ rc[o] \in Nat /\ rc'[o] \in Nat
        BY <1>1, OutsideTerms, OutsideTermsNext DEF OwnInv
  <2>3. /\ Outside(stack, todo, global, frames, o) \in Nat
        /\ Outside(stack', todo', global', frames', o) \in Nat
        BY <1>1, OutsideType DEF OwnInv
  <2>4. QED
        BY <2>1, <2>2, <2>3
<1>3. Exact
      BY <1>1, <1>2, ExactFrom
<1>4. Covers
      BY <1>1, <1>3, ExactCovers
<1>5. QED
      BY <1>1, <1>3, <1>4, PlainInv DEF Plain

LEMMA PlainCovers ==
    ASSUME OwnInv, Plain,
           \A o \in Obj : rc'[o] + Outside(stack, todo, global, frames, o)
                        >= rc[o] + Outside(stack', todo', global', frames', o)
    PROVE  OwnInv'
<1>1. Typed'
      BY PlainTyped
<1>2. ASSUME NEW o \in Obj
      PROVE  rc'[o] + Cells(obj, Obj, o) + Outside(stack, todo, global, frames, o)
                 >= rc[o] + Cells(obj', Obj, o) + Outside(stack', todo', global', frames', o)
  <2>1. obj' = obj
        BY DEF Plain
  <2>2. Cells(obj, Obj, o) \in Nat /\ rc[o] \in Nat /\ rc'[o] \in Nat
        BY <1>1, OutsideTerms, OutsideTermsNext DEF OwnInv
  <2>3. /\ Outside(stack, todo, global, frames, o) \in Nat
        /\ Outside(stack', todo', global', frames', o) \in Nat
        BY <1>1, OutsideType DEF OwnInv
  <2>4. QED
        BY <2>1, <2>2, <2>3
<1>3. Covers
      BY <1>1, <1>2, CoversFrom
<1>4. QED
      BY <1>1, <1>3, PlainInv DEF Plain

-----------------------------------------------------------------------------
(***************************************************************************)
(* Instructions that move single references.                               *)
(***************************************************************************)
\* A push, and the topmost operand popped.
LEMMA PushCounts ==
    ASSUME FrameInv, NEW v \in Value, stack' = Append(stack, v), NEW o
    PROVE  Count(stack', o) = Count(stack, o) + Is(v, o)
BY CountAppend DEF FrameInv

LEMMA PopCounts ==
    ASSUME FrameInv, Operands(1), NEW o
    PROVE  /\ Count(stack, o) = Count(Front(stack), o) + Is(Last(stack), o)
           /\ Last(stack) \in Value /\ Front(stack) \in Seq(Value)
           /\ Count(Front(stack), o) \in Nat
<1>1. stack \in Seq(Value) /\ stack # <<>>
  <2>1. 1 \in Nat
        OBVIOUS
  <2>2. Height - 1 \in Nat /\ Height \in Nat
        BY <2>1, Popped, Shape
  <2>3. Len(stack) # 0
        BY <2>2 DEF Height
  <2>4. QED
        BY <2>3 DEF FrameInv
<1>2. /\ Count(stack, o) = Count(Front(stack), o) + One(Last(stack) = o)
      /\ Last(stack) \in Value /\ Front(stack) \in Seq(Value)
      BY <1>1, CountLast
<1>3. QED
      BY <1>2, CountType DEF Is

\* Frames, heap and pending releases as they were.
LEMMA StillPlain ==
    ASSUME OwnInv, FrameInv', UNCHANGED <<frames, obj>>,
           rc' \in [Obj -> Nat], todo' \in [Obj -> Nat], \A o \in Obj : rc[o] = 0 => rc'[o] = 0
    PROVE  Plain
<1>1. \A o \in Obj : Lent(frames', o) <= Lent(frames, o)
      BY OutsideTerms DEF OwnInv
<1>2. Short'
      BY DEF OwnInv, Short
<1>3. QED
      BY <1>1, <1>2 DEF Plain

\* I32_CONST and its kin.
LEMMA ConstOwn ==
    ASSUME OwnInv, Const
    PROVE  OwnInv' /\ Exact
<1>1. /\ FrameInv /\ FrameInv' /\ stack' = Append(stack, Num)
      /\ UNCHANGED <<frames, obj, rc, global, todo>>
      BY ConstInv DEF OwnInv, Typed, Const, Push
<1>2. Plain
      BY <1>1, StillPlain DEF OwnInv, Typed
<1>3. ASSUME NEW o \in Obj
      PROVE  rc'[o] + Outside(stack, todo, global, frames, o)
                 = rc[o] + Outside(stack', todo', global', frames', o)
  <2>1. Count(stack', o) = Count(stack, o) + Is(Num, o) /\ Is(Num, o) = 0
        BY <1>1, BlankObject, PushCounts, NoReference
  <2>2. Count(stack, o) \in Nat
        BY OutsideTerms DEF OwnInv
  <2>3. Count(stack', o) = Count(stack, o)
        BY <2>1, <2>2
  <2>4. QED
        BY <1>1, <2>3, Zenon DEF Outside
<1>4. QED
      BY <1>2, <1>3, PlainExact

\* retainBox, of a value something refers to.
LEMMA RetainCounts ==
    ASSUME OwnInv, NEW v, Retain(v), v \in Obj => rc[v] > 0
    PROVE  /\ rc' \in [Obj -> Nat]
           /\ \A o \in Obj : rc'[o] = rc[o] + Is(v, o) /\ (rc[o] = 0 => rc'[o] = 0)
<1>1. rc \in [Obj -> Nat]
      BY DEF OwnInv, Typed
<1>2. CASE v \in Obj
  <2>1. rc' = [rc EXCEPT ![v] = @ + 1]
        BY <1>2 DEF Retain
  <2>2. rc' \in [Obj -> Nat]
        BY <1>1, <1>2, <2>1
  <2>3. ASSUME NEW o \in Obj
        PROVE  rc'[o] = rc[o] + Is(v, o) /\ (rc[o] = 0 => rc'[o] = 0)
    <3>1. CASE o = v
          BY <1>1, <1>2, <2>1, <3>1, IsType
    <3>2. CASE o # v
          BY <1>1, <1>2, <2>1, <3>2, IsType
    <3>3. QED
          BY <3>1, <3>2, Zenon
  <2>4. QED
        BY <2>2, <2>3
<1>3. CASE v \notin Obj
  <2>1. rc' = rc
        BY <1>3 DEF Retain
  <2>2. ASSUME NEW o \in Obj
        PROVE  rc'[o] = rc[o] + Is(v, o) /\ (rc[o] = 0 => rc'[o] = 0)
    <3>1. Is(v, o) = 0 /\ rc[o] \in Nat
          BY <1>1, <1>3, IsType
    <3>2. QED
          BY <2>1, <3>1
  <2>3. QED
        BY <1>1, <2>1, <2>2, Zenon
<1>4. QED
      BY <1>2, <1>3, Zenon

\* A reference from outside gained with its count.
LEMMA CopyExact ==
    ASSUME OwnInv, FrameInv', NEW v \in Value, v \in Obj => rc[v] > 0, Retain(v),
           stack' = Append(stack, v), UNCHANGED <<frames, obj, global, todo>>
    PROVE  OwnInv' /\ Exact
<1>1. /\ rc' \in [Obj -> Nat]
      /\ \A o \in Obj : rc'[o] = rc[o] + Is(v, o) /\ (rc[o] = 0 => rc'[o] = 0)
      BY RetainCounts
<1>2. Plain
      BY <1>1, StillPlain DEF OwnInv, Typed
<1>3. ASSUME NEW o \in Obj
      PROVE  rc'[o] + Outside(stack, todo, global, frames, o)
                 = rc[o] + Outside(stack', todo', global', frames', o)
  <2>1. Count(stack', o) = Count(stack, o) + Is(v, o)
        BY PushCounts DEF OwnInv, Typed
  <2>2. /\ Count(stack, o) \in Nat /\ todo[o] \in Nat /\ Is(global, o) \in Nat /\ Is(v, o) \in Nat
        /\ Called(frames, o) \in Nat /\ Lent(frames, o) \in Nat /\ rc[o] \in Nat
        BY OutsideTerms, IsType DEF OwnInv
  <2>3. rc'[o] = rc[o] + Is(v, o)
        BY <1>1
  <2> DEFINE s == Count(stack, o)
             t == todo[o]
             z == Is(global, o)
             b == Called(frames, o)
             l == Lent(frames, o)
             x == Is(v, o)
             r == rc[o]
  <2>4. /\ Outside(stack, todo, global, frames, o) = s + t + z + b + l
        /\ Outside(stack', todo', global', frames', o) = (s + x) + t + z + b + l
        BY <2>1, Zenon DEF Outside
  <2>5. /\ s \in Nat /\ t \in Nat /\ z \in Nat /\ b \in Nat /\ l \in Nat /\ x \in Nat /\ r \in Nat
        BY <2>2
  <2> HIDE DEF s, t, z, b, l, x, r
  <2>6. (r + x) + (s + t + z + b + l) = r + ((s + x) + t + z + b + l)
        BY <2>5
  <2>7. QED
        BY <2>3, <2>4, <2>6, Zenon DEF x, r
<1>4. QED
      BY <1>2, <1>3, PlainExact

\* What is on the stack is counted.
LEMMA StackOwned ==
    ASSUME OwnInv, NEW k \in 1 .. Len(stack), stack[k] \in Obj
    PROVE  rc[stack[k]] > 0
<1> DEFINE o == stack[k]
<1>1. Count(stack, o) >= 1
  <2>1. stack \in Seq(Value) /\ k \in DOMAIN stack
        BY LenProperties DEF OwnInv, Typed, FrameInv
  <2>2. QED
        BY <2>1, CountHolds
<1> HIDE DEF o
<1>2. o \in Obj /\ rc[o] \in Nat
      BY OutsideTerms DEF OwnInv, o
<1>3. rc[o] # 0
      BY <1>1, <1>2, Unowned
<1>4. QED
      BY <1>2, <1>3 DEF o

\* DUP and LOCAL_GET.
LEMMA CopyOwn ==
    ASSUME OwnInv, NEW k \in 1 .. StackCap, Copy(k)
    PROVE  OwnInv' /\ Exact
<1>1. FrameInv /\ FrameInv'
      BY CopyInv DEF OwnInv, Typed
<1>2. k \in 1 .. Len(stack)
      BY <1>1, Shape DEF Copy, Height
<1>3. stack[k] \in Value
      BY <1>1, <1>2, Shape
<1>4. stack[k] \in Obj => rc[stack[k]] > 0
      BY <1>2, StackOwned
<1> DEFINE v == stack[k]
<1>5. Retain(v) /\ stack' = Append(stack, v) /\ UNCHANGED <<frames, obj, global, todo>>
      BY DEF Copy, Push
<1> HIDE DEF v
<1>6. v \in Value /\ (v \in Obj => rc[v] > 0)
      BY <1>3, <1>4 DEF v
<1>7. QED
      BY <1>1, <1>5, <1>6, CopyExact

\* GLOBAL_GET.
LEMMA GlobalGetOwn ==
    ASSUME OwnInv, GlobalGet
    PROVE  OwnInv' /\ Exact
<1>1. FrameInv /\ FrameInv' /\ global \in Value
      BY GlobalGetInv DEF OwnInv, Typed, FrameInv
<1>2. ASSUME global \in Obj
      PROVE  rc[global] > 0
  <2>1. Is(global, global) = 1 /\ rc[global] \in Nat
        BY <1>2, IsType, OutsideTerms DEF OwnInv
  <2>2. rc[global] # 0
    <3>1. SUFFICES ASSUME rc[global] = 0 PROVE FALSE
          OBVIOUS
    <3>2. Is(global, global) = 0
          BY <1>2, <3>1, Unowned
    <3>3. QED
          BY <2>1, <3>2
  <2>3. QED
        BY <2>1, <2>2
<1>3. Retain(global) /\ stack' = Append(stack, global) /\ UNCHANGED <<frames, obj, global, todo>>
      BY DEF GlobalGet, Push
<1>4. QED
      BY <1>1, <1>2, <1>3, CopyExact

\* An instruction that takes references from the stack and releases some of them.
LEMMA MoveExact ==
    ASSUME OwnInv, FrameInv', todo' \in [Obj -> Nat], UNCHANGED <<frames, obj, rc, global>>,
           Running, \A o \in Obj : Count(stack', o) + todo'[o] = Count(stack, o)
    PROVE  OwnInv' /\ Exact
<1>1. Plain
      BY StillPlain DEF OwnInv, Typed
<1>2. ASSUME NEW o \in Obj
      PROVE  rc'[o] + Outside(stack, todo, global, frames, o)
                 = rc[o] + Outside(stack', todo', global', frames', o)
  <2>1. /\ Count(stack, o) \in Nat /\ todo[o] = 0 /\ Is(global, o) \in Nat
        /\ Called(frames, o) \in Nat /\ Lent(frames, o) \in Nat /\ rc[o] \in Nat
        BY OutsideTerms, NothingLeft DEF OwnInv
  <2>2. Count(stack', o) \in Nat /\ todo'[o] \in Nat
        BY <1>1, PlainTyped, OutsideTermsNext
  <2>3. Count(stack', o) + todo'[o] = Count(stack, o)
        OBVIOUS
  <2>4. QED
        BY <2>1, <2>2, <2>3 DEF Outside
<1>3. QED
      BY <1>1, <1>2, PlainExact

\* A reference that is released or forgotten: nothing is counted that is not owned.
LEMMA MoveCovers ==
    ASSUME OwnInv, FrameInv', todo' \in [Obj -> Nat], UNCHANGED <<frames, obj, rc, global>>,
           Running, \A o \in Obj : Count(stack', o) + todo'[o] <= Count(stack, o)
    PROVE  OwnInv'
<1>1. Plain
      BY StillPlain DEF OwnInv, Typed
<1>2. ASSUME NEW o \in Obj
      PROVE  rc'[o] + Outside(stack, todo, global, frames, o)
                 >= rc[o] + Outside(stack', todo', global', frames', o)
  <2>1. /\ Count(stack, o) \in Nat /\ todo[o] = 0 /\ Is(global, o) \in Nat
        /\ Called(frames, o) \in Nat /\ Lent(frames, o) \in Nat /\ rc[o] \in Nat
        BY OutsideTerms, NothingLeft DEF OwnInv
  <2>2. Count(stack', o) \in Nat /\ todo'[o] \in Nat
        BY <1>1, PlainTyped, OutsideTermsNext
  <2>3. Count(stack', o) + todo'[o] <= Count(stack, o)
        OBVIOUS
  <2>4. QED
        BY <2>1, <2>2, <2>3 DEF Outside
<1>3. QED
      BY <1>1, <1>2, PlainCovers

\* Releasing one value.
LEMMA ReleaseOne ==
    ASSUME NEW v \in Item
    PROVE  /\ Releases(<<v>>) \in [Obj -> Nat]
           /\ \A o \in Obj : Releases(<<v>>)[o] = Is(v, o)
<1>1. <<v>> \in Seq(Item)
      OBVIOUS
<1>2. \A o \in Obj : Count(<<v>>, o) = Is(v, o)
      BY CountSingle DEF Is
<1>3. QED
      BY <1>1, <1>2, ReleasesType

\* DROP.
LEMMA DropOwn ==
    ASSUME OwnInv, Drop
    PROVE  OwnInv' /\ Exact
<1>1. /\ FrameInv /\ FrameInv' /\ Operands(1) /\ Running
      /\ stack' = Front(stack) /\ todo' = Releases(<<Last(stack)>>)
      /\ UNCHANGED <<frames, obj, rc, global>>
      BY DropInv DEF OwnInv, Typed, Drop
<1>2. Last(stack) \in Item
      BY <1>1, TopOperand, ItemSeq
<1>3. /\ todo' \in [Obj -> Nat]
      /\ \A o \in Obj : todo'[o] = Is(Last(stack), o)
      BY <1>1, <1>2, ReleaseOne
<1>4. ASSUME NEW o \in Obj
      PROVE  Count(stack', o) + todo'[o] = Count(stack, o)
      BY <1>1, <1>3, PopCounts
<1>5. QED
      BY <1>1, <1>3, <1>4, MoveExact

\* CORO_DONE: the handle's count is lost.
LEMMA CoroDoneOwn ==
    ASSUME OwnInv, CoroDone
    PROVE  OwnInv'
<1>1. /\ FrameInv /\ FrameInv' /\ Operands(1) /\ Running
      /\ stack' = Append(Front(stack), Num)
      /\ UNCHANGED <<frames, obj, rc, global, todo>>
      BY CoroAnswerInv DEF OwnInv, Typed, CoroDone
<1>2. todo' \in [Obj -> Nat]
      BY <1>1 DEF OwnInv, Typed
<1>3. ASSUME NEW o \in Obj
      PROVE  Count(stack', o) + todo'[o] <= Count(stack, o)
  <2>1. /\ Count(stack, o) = Count(Front(stack), o) + Is(Last(stack), o)
        /\ Front(stack) \in Seq(Value) /\ Count(Front(stack), o) \in Nat
        BY <1>1, PopCounts
  <2>2. Count(Append(Front(stack), Num), o) = Count(Front(stack), o) + Is(Num, o)
        BY <2>1, BlankObject, CountAppend
  <2>3. Is(Num, o) = 0 /\ Is(Last(stack), o) \in Nat
        BY NoReference, IsType
  <2>4. todo'[o] = 0
        BY <1>1, NothingLeft
  <2>5. QED
        BY <1>1, <2>1, <2>2, <2>3, <2>4
<1>4. QED
      BY <1>1, <1>2, <1>3, MoveCovers

\* GLOBAL_SET.
LEMMA GlobalSetOwn ==
    ASSUME OwnInv, GlobalSet
    PROVE  OwnInv' /\ (global' # global => Exact)
<1>1. /\ FrameInv /\ FrameInv' /\ Operands(1) /\ Running /\ global' = Last(stack)
      /\ stack' = Front(stack)
      /\ todo' = IF global = global' THEN Nothing ELSE Releases(<<global>>)
      /\ UNCHANGED <<frames, obj, rc>>
      BY GlobalSetInv DEF OwnInv, Typed, GlobalSet
<1>2. global \in Item
      BY ItemSeq DEF OwnInv, Typed, FrameInv
<1>3. /\ Releases(<<global>>) \in [Obj -> Nat] /\ Nothing \in [Obj -> Nat]
      /\ \A o \in Obj : Releases(<<global>>)[o] = Is(global, o) /\ Nothing[o] = 0
      BY <1>2, ReleaseOne DEF Nothing
<1>4. Plain
      BY <1>1, <1>3, StillPlain DEF OwnInv, Typed
<1>5. ASSUME NEW o \in Obj
      PROVE  /\ Count(stack, o) \in Nat /\ todo[o] = 0 /\ Is(global, o) \in Nat
             /\ Called(frames, o) \in Nat /\ Lent(frames, o) \in Nat /\ rc[o] \in Nat
             /\ Count(stack', o) \in Nat /\ Is(global', o) \in Nat
             /\ Count(stack, o) = Count(stack', o) + Is(global', o)
             /\ UNCHANGED <<frames, rc>>
      BY <1>1, OutsideTerms, NothingLeft, PopCounts, IsType DEF OwnInv
<1>6. CASE global = global'
  <2>1. ASSUME NEW o \in Obj
        PROVE  rc'[o] + Outside(stack, todo, global, frames, o)
                   >= rc[o] + Outside(stack', todo', global', frames', o)
    <3>1. todo'[o] = 0
          BY <1>1, <1>3, <1>6
    <3>2. QED
          BY <1>5, <1>6, <3>1 DEF Outside
  <2>2. QED
        BY <1>4, <1>6, <2>1, PlainCovers
<1>7. CASE global # global'
  <2>1. ASSUME NEW o \in Obj
        PROVE  rc'[o] + Outside(stack, todo, global, frames, o)
                   = rc[o] + Outside(stack', todo', global', frames', o)
    <3>1. todo'[o] = Is(global, o)
          BY <1>1, <1>3, <1>7
    <3>2. QED
          BY <1>5, <3>1 DEF Outside
  <2>2. QED
        BY <1>4, <2>1, PlainExact
<1>8. QED
      BY <1>6, <1>7

\* What an object refers to is counted.
LEMMA FieldOwned ==
    ASSUME OwnInv, NEW c \in Obj, NEW v \in Obj, Count(Fields(obj[c]), v) >= 1
    PROVE  rc[v] > 0
<1>1. Cells(obj, Obj, v) >= Count(Fields(obj[c]), v)
      BY CellsHolds DEF OwnInv, Typed
<1>2. Cells(obj, Obj, v) \in Nat /\ rc[v] \in Nat /\ Count(Fields(obj[c]), v) \in Nat
      BY OutsideTerms, FieldsSeq DEF OwnInv, Typed, Fitting
<1>3. rc[v] # 0
      BY <1>1, <1>2, Unowned
<1>4. QED
      BY <1>2, <1>3

\* CORO_VALUE.
LEMMA CoroValueOwn ==
    ASSUME OwnInv, CoroValue
    PROVE  OwnInv' /\ Exact
<1> DEFINE c == Last(stack)
           v == obj[c].value
<1>1. /\ FrameInv /\ FrameInv' /\ Operands(1) /\ Running /\ c \in Obj
      /\ stack' = Append(Front(stack), v) /\ todo' = Releases(<<c>>) /\ Retain(v)
      /\ UNCHANGED <<frames, obj, global>>
      BY CoroAnswerInv DEF OwnInv, Typed, CoroValue, IsCoroutine
<1> HIDE DEF c
<1>2. obj[c] \in Object /\ v \in Value /\ c \in Item
      BY <1>1, ItemSeq DEF OwnInv, Typed, Fitting, Object
<1>3. ASSUME v \in Obj
      PROVE  rc[v] > 0
  <2>1. /\ Count(Fields(obj[c]), v) = Count(obj[c].image, v) + Is(v, v) + Is(obj[c].ref, v)
        /\ Count(obj[c].image, v) \in Nat
        BY <1>2, FieldsSeq
  <2>2. Is(v, v) = 1 /\ Is(obj[c].ref, v) \in Nat
        BY IsType
  <2>3. Count(Fields(obj[c]), v) >= 1
        BY <2>1, <2>2
  <2>4. QED
        BY <1>1, <1>3, <2>3, FieldOwned
<1> HIDE DEF v
<1>4. /\ rc' \in [Obj -> Nat]
      /\ \A o \in Obj : rc'[o] = rc[o] + Is(v, o) /\ (rc[o] = 0 => rc'[o] = 0)
      BY <1>1, <1>3, RetainCounts
<1>5. todo' \in [Obj -> Nat] /\ \A o \in Obj : todo'[o] = Is(c, o)
      BY <1>1, <1>2, ReleaseOne
<1>6. Plain
      BY <1>1, <1>4, <1>5, StillPlain
<1>7. ASSUME NEW o \in Obj
      PROVE  rc'[o] + Outside(stack, todo, global, frames, o)
                 = rc[o] + Outside(stack', todo', global', frames', o)
  <2>1. /\ Count(stack, o) \in Nat /\ todo[o] = 0 /\ Is(global, o) \in Nat
        /\ Called(frames, o) \in Nat /\ Lent(frames, o) \in Nat /\ rc[o] \in Nat
        BY <1>1, OutsideTerms, NothingLeft DEF OwnInv
  <2>2. /\ Count(stack, o) = Count(Front(stack), o) + Is(c, o)
        /\ Front(stack) \in Seq(Value) /\ Count(Front(stack), o) \in Nat
        BY <1>1, PopCounts DEF c
  <2>3. Count(stack', o) = Count(Front(stack), o) + Is(v, o)
        BY <1>1, <1>2, <2>2, CountAppend
  <2>4. /\ rc'[o] = rc[o] + Is(v, o) /\ todo'[o] = Is(c, o) /\ global' = global /\ frames' = frames
        /\ Is(v, o) \in Nat /\ Is(c, o) \in Nat
        BY <1>1, <1>4, <1>5, IsType
  <2>5. Count(Front(stack), o) \in Nat
        BY <2>2
  <2>6. (rc[o] + Is(v, o))
            + ((Count(Front(stack), o) + Is(c, o)) + 0 + Is(global, o) + Called(frames, o) + Lent(frames, o))
        = rc[o] + ((Count(Front(stack), o) + Is(v, o)) + Is(c, o) + Is(global, o)
                     + Called(frames, o) + Lent(frames, o))
        BY <2>1, <2>4, <2>5
  <2>7. QED
        BY <2>1, <2>2, <2>3, <2>4, <2>6, Zenon DEF Outside
<1>8. QED
      BY <1>6, <1>7, PlainExact

\* CALL of a host function: every argument is released, but for the one it answers.
LEMMA HostCallOwn ==
    ASSUME OwnInv, NEW r \in Value, HostCall(r)
    PROVE  OwnInv' /\ (Exact \/ (r \in Obj /\ Count(stack, r) > Count(stack', r)))
<1> DEFINE n == Height - 2
           low == SubSeq(stack, 1, n)
           args == SubSeq(stack, n + 1, Height)
<1>1. /\ FrameInv /\ FrameInv' /\ Operands(2) /\ Running
      /\ UNCHANGED <<frames, obj, rc, global>>
      BY HostCallInv DEF OwnInv, Typed, HostCall
<1>2. Height \in Nat /\ n \in Nat /\ n <= Height /\ n + 1 = Height - 1 /\ Height = Len(stack)
  <2>1. 2 \in Nat
        OBVIOUS
  <2>2. QED
        BY <1>1, <2>1, Popped, Shape DEF Height
<1>3. /\ r \in Range(args) \cup {Num} /\ stack' = Append(low, r)
      /\ todo' = [o \in Obj |-> IF o = r THEN 0 ELSE Count(args, o)]
      BY <1>2 DEF HostCall
<1> HIDE DEF n
<1>4. stack \in Seq(Value)
      BY <1>1 DEF FrameInv
<1>5. low \in Seq(Value)
      BY <1>2, <1>4, Prefix
<1>6. args \in Seq(Value)
      BY <1>2, <1>4, Segment
<1>7. ASSUME NEW o
      PROVE  /\ Count(stack, o) = Count(low, o) + Count(args, o)
             /\ Count(low, o) \in Nat /\ Count(args, o) \in Nat
      BY <1>2, <1>4, CountParts
<1> HIDE DEF low, args
<1>8. todo' \in [Obj -> Nat]
      BY <1>3, <1>7
<1>9. ASSUME NEW o \in Obj
      PROVE  /\ Count(stack', o) = Count(low, o) + Is(r, o)
             /\ o # r => Is(r, o) = 0 /\ todo'[o] = Count(args, o)
             /\ o = r => Is(r, o) = 1 /\ todo'[o] = 0 /\ Count(args, o) >= 1
  <2>1. Count(stack', o) = Count(low, o) + Is(r, o)
        BY <1>3, <1>5, CountAppend
  <2>2. o = r => Count(args, o) >= 1
    <3>1. SUFFICES ASSUME o = r PROVE Count(args, o) >= 1
          OBVIOUS
    <3>2. r # Num
          BY <3>1, MachineAssumption
    <3>3. PICK k \in DOMAIN args : args[k] = r
          BY <1>3, <3>2 DEF Range
    <3>4. Count(args, args[k]) >= 1
          BY <1>6, CountHolds
    <3>5. QED
          BY <3>1, <3>3, <3>4
  <2>3. QED
        BY <1>3, <2>1, <2>2, IsType
<1>10. \A o \in Obj : Count(stack', o) + todo'[o] <= Count(stack, o)
  <2>1. TAKE o \in Obj
  <2>2. CASE o = r
        BY <1>7, <1>9, <2>2
  <2>3. CASE o # r
        BY <1>7, <1>9, <2>3
  <2>4. QED
        BY <2>2, <2>3
<1>11. OwnInv'
      BY <1>1, <1>8, <1>10, MoveCovers
<1>12. ASSUME r \in Obj => ~(Count(stack, r) > Count(stack', r))
       PROVE  Exact
  <2>1. \A o \in Obj : Count(stack', o) + todo'[o] = Count(stack, o)
    <3>1. TAKE o \in Obj
    <3>2. CASE o = r
          BY <1>7, <1>9, <1>12, <3>2
    <3>3. CASE o # r
          BY <1>7, <1>9, <3>3
    <3>4. QED
          BY <3>2, <3>3
  <2>2. QED
        BY <1>1, <1>8, <2>1, MoveExact
<1>13. QED
      BY <1>11, <1>12

\* Steps of the instruction pointer and of Run that move no reference.
LEMMA StillExact ==
    ASSUME OwnInv, FrameInv', Short', UNCHANGED <<stack, obj, rc, global, todo>>,
           \A o \in Obj : Called(frames', o) = Called(frames, o) /\ Lent(frames', o) = Lent(frames, o)
    PROVE  OwnInv' /\ Exact
<1>1. Plain
  <2>1. \A o \in Obj : Lent(frames', o) <= Lent(frames, o)
        BY OutsideTerms DEF OwnInv
  <2>2. QED
        BY <2>1 DEF Plain, OwnInv, Typed
<1>2. \A o \in Obj : rc'[o] + Outside(stack, todo, global, frames, o)
                   = rc[o] + Outside(stack', todo', global', frames', o)
      BY Zenon DEF Outside
<1>3. QED
      BY <1>1, <1>2, PlainExact

\* The region of the current frame changes.
LEMMA RegionOwn ==
    ASSUME OwnInv, Enter \/ Leave
    PROVE  OwnInv' /\ Exact
<1>1. FrameInv /\ FrameInv'
      BY EnterInv, LeaveInv DEF OwnInv, Typed
<1>2. /\ \E r \in Nat \cup {NoRegion} : frames' = [frames EXCEPT ![Len(frames)].region = r]
      /\ UNCHANGED <<stack, obj, rc, global, todo>>
  <2>1. CASE Enter
    <3>1. Height \in Nat /\ Top \in Frame /\ Whole(Top, Height)
          BY <1>1, Shape
    <3>2. Top.bp \in Nat /\ Top.slots \in Nat /\ Top.bp + Top.slots <= Height
          BY <3>1 DEF Whole, Frame
    <3>3. Height - Top.bp \in Nat
          BY <3>1, <3>2
    <3>4. QED
          BY <2>1, <3>3 DEF Enter
  <2>2. CASE Leave
        BY <2>2 DEF Leave
  <2>3. QED
        BY <2>1, <2>2
<1>3. PICK r \in Nat \cup {NoRegion} : frames' = [frames EXCEPT ![Len(frames)].region = r]
      BY <1>2
<1> DEFINE n == Len(frames)
           g == [frames[n] EXCEPT !.region = r]
<1>4. n \in 1 .. Len(frames) /\ frames \in Seq(Frame) /\ frames[n] \in Frame
      BY <1>1, Shape DEF FrameInv
<1>5. /\ frames' = [frames EXCEPT ![n] = g] /\ g \in Frame /\ g.ref = frames[n].ref
      /\ g.coro = frames[n].coro /\ g.returns = frames[n].returns
      BY <1>3, <1>4 DEF Frame
<1> HIDE DEF g
<1>6. Short'
  <2>1. /\ Len(frames') = Len(frames)
        /\ \A j \in 1 .. Len(frames) : frames'[j] = IF j = n THEN g ELSE frames[j]
        BY <1>4, <1>5, ExceptSeq
  <2>2. \A j \in 1 .. Len(frames') : frames'[j].returns = frames[j].returns /\ j \in 1 .. Len(frames)
        BY <1>5, <2>1, Zenon
  <2>3. QED
        BY <2>2 DEF OwnInv, Short
<1> HIDE DEF n
<1>7. ASSUME NEW o \in Obj
      PROVE  Called(frames', o) = Called(frames, o) /\ Lent(frames', o) = Lent(frames, o)
  <2>1. /\ Called(frames', o) + Is(frames[n].ref, o) = Called(frames, o) + Is(g.ref, o)
        /\ Lent(frames', o) + Is(frames[n].coro, o) = Lent(frames, o) + Is(g.coro, o)
        /\ frames' \in Seq(Frame)
        BY <1>4, <1>5, FramesSwapped
  <2>2. /\ Called(frames', o) \in Nat /\ Lent(frames', o) \in Nat
        /\ Called(frames, o) \in Nat /\ Lent(frames, o) \in Nat
        /\ Is(g.ref, o) \in Nat /\ Is(g.coro, o) \in Nat
        BY <1>4, <2>1, FrameCounts, IsType
  <2>3. QED
        BY <1>5, <2>1, <2>2
<1>8. QED
      BY <1>1, <1>2, <1>6, <1>7, StillExact

\* Whatever leaves all that is counted alone.
LEMMA StillOwn ==
    ASSUME OwnInv, UNCHANGED <<frames, stack, obj, rc, global, todo>>
    PROVE  OwnInv' /\ Exact
<1>1. FrameInv'
      BY StillInv DEF OwnInv, Typed
<1>2. Short'
      BY DEF OwnInv, Short
<1>3. QED
      BY <1>1, <1>2, StillExact

\* Run, seen from the host.
LEMMA StatusOwn ==
    ASSUME OwnInv, YieldMain \/ Interrupt \/ Run \/ Finish \/ Panic
    PROVE  OwnInv' /\ Exact
BY StillOwn DEF YieldMain, Interrupt, Run, Finish, Panic

-----------------------------------------------------------------------------
(***************************************************************************)
(* Calls and returns.                                                      *)
(***************************************************************************)
\* However the frames change, none returns more than one value.
LEMMA ShortPushed ==
    ASSUME OwnInv, NEW g \in Frame, g.returns <= 1, frames' = Append(frames, g)
    PROVE  Short'
<1>1. frames \in Seq(Frame) /\ Len(frames) \in Nat
      BY LenProperties DEF OwnInv, Typed, FrameInv
<1>2. /\ Len(frames') = Len(frames) + 1 /\ frames'[Len(frames) + 1] = g
      /\ \A j \in 1 .. Len(frames) : frames'[j] = frames[j]
      BY <1>1, AppendProperties
<1>3. \A j \in 1 .. Len(frames) : frames[j].returns <= 1
      BY DEF OwnInv, Short
<1>4. ASSUME NEW j \in 1 .. Len(frames')
      PROVE  frames'[j].returns <= 1
  <2>1. j = Len(frames) + 1 \/ j \in 1 .. Len(frames)
        BY <1>1, <1>2
  <2>2. QED
        BY <1>2, <1>3, <2>1
<1>5. QED
      BY <1>4 DEF Short

LEMMA ShortClosed ==
    ASSUME OwnInv, Len(frames) > 1, frames' = Front(frames)
    PROVE  Short'
<1> DEFINE l == Len(frames) - 1
<1>1. frames \in Seq(Frame) /\ l \in Nat /\ l <= Len(frames) /\ \A j \in 1 .. l : j \in 1 .. Len(frames)
      BY LenProperties DEF OwnInv, Typed, FrameInv
<1> HIDE DEF l
<1>2. Len(frames') = l /\ \A j \in 1 .. l : frames'[j] = frames[j]
      BY <1>1, Prefix DEF Front, l
<1>3. \A j \in 1 .. Len(frames') : frames'[j].returns <= 1
      BY <1>1, <1>2 DEF OwnInv, Short
<1>4. QED
      BY <1>3 DEF Short

LEMMA ShortSwapped ==
    ASSUME OwnInv, NEW g \in Frame, g.returns <= 1, frames' = [frames EXCEPT ![Len(frames)] = g]
    PROVE  Short'
<1>1. frames \in Seq(Frame) /\ Len(frames) \in 1 .. Len(frames)
      BY Shape DEF OwnInv, Typed, FrameInv
<1>2. /\ Len(frames') = Len(frames)
      /\ \A j \in 1 .. Len(frames) : frames'[j] = IF j = Len(frames) THEN g ELSE frames[j]
      BY <1>1, ExceptSeq
<1>3. ASSUME NEW j \in 1 .. Len(frames')
      PROVE  frames'[j].returns <= 1
  <2>1. j \in 1 .. Len(frames) /\ frames[j].returns <= 1
        BY <1>2 DEF OwnInv, Short
  <2>2. frames'[j] = IF j = Len(frames) THEN g ELSE frames[j]
        BY <1>2, <2>1, Zenon
  <2>3. QED
        BY <2>1, <2>2
<1>4. QED
      BY <1>3 DEF Short

LEMMA ShortLanded ==
    ASSUME OwnInv, NEW k \in 1 .. Len(frames), NEW g \in Frame, g.returns = frames[k].returns,
           frames' = Append(SubSeq(frames, 1, k - 1), g)
    PROVE  Short'
<1> DEFINE m == k - 1
           low == SubSeq(frames, 1, m)
<1>1. /\ frames \in Seq(Frame) /\ m \in Nat /\ m <= Len(frames) /\ k = m + 1
      /\ \A j \in 1 .. m : j \in 1 .. Len(frames)
      BY LenProperties DEF OwnInv, Typed, FrameInv
<1> HIDE DEF m
<1>2. low \in Seq(Frame) /\ Len(low) = m /\ \A j \in 1 .. m : low[j] = frames[j]
      BY <1>1, Prefix
<1>3. frames' = Append(low, g)
      BY DEF m
<1> HIDE DEF low
<1>4. /\ Len(frames') = m + 1 /\ frames'[m + 1] = g
      /\ \A j \in 1 .. m : frames'[j] = low[j]
      BY <1>2, <1>3, AppendProperties
<1>5. \A j \in 1 .. Len(frames) : frames[j].returns <= 1
      BY DEF OwnInv, Short
<1>6. ASSUME NEW j \in 1 .. Len(frames')
      PROVE  frames'[j].returns <= 1
  <2>1. j = m + 1 \/ j \in 1 .. m
        BY <1>1, <1>4
  <2>2. QED
        BY <1>1, <1>2, <1>4, <1>5, <2>1
<1>7. QED
      BY <1>6 DEF Short

\* A call consumes its callable, or takes none.
Consumed(ref, n) == (n = 1 /\ ref = Last(stack)) \/ (n = 0 /\ ref = None)

\* What is left of the stack below a callable the call consumes.
LEMMA BelowCallable ==
    ASSUME FrameInv, NEW ref, NEW n, Consumed(ref, n), NEW p \in Nat, Height - n - p >= Top.bp + Top.slots,
           NEW o \in Obj
    PROVE  /\ n \in Nat /\ Height - n \in Nat /\ Height - n <= Len(stack) /\ Height - n - p \in Nat
           /\ Count(stack, o) = Count(SubSeq(stack, 1, Height - n), o) + Is(ref, o)
           /\ SubSeq(stack, 1, Height - n) \in Seq(Value)
           /\ Count(SubSeq(stack, 1, Height - n), o) \in Nat
           /\ ref \in Item
<1>1. n \in Nat /\ (n = 0 \/ n = 1)
      BY DEF Consumed
<1>2. Height \in Nat /\ Top.bp \in Nat /\ Top.slots \in Nat /\ Height = Len(stack)
      BY Shape DEF Frame, Height
<1>3. Height - n \in Nat /\ Height - n <= Len(stack) /\ Height - n - p \in Nat /\ (n = 1 => Height >= 1)
      BY <1>1, <1>2
<1>4. stack \in Seq(Value)
      BY DEF FrameInv
<1> DEFINE a == Height - n
<1>5. a \in Nat /\ a <= Len(stack)
      BY <1>3
<1> HIDE DEF a
<1>6. SubSeq(stack, 1, a) \in Seq(Value)
      BY <1>4, <1>5, Prefix
<1>7. Count(SubSeq(stack, 1, a), o) \in Nat
      BY <1>6, CountType
<1>8. Count(stack, o) = Count(SubSeq(stack, 1, a), o) + Is(ref, o) /\ ref \in Item
  <2>1. CASE n = 0 /\ ref = None
    <3>1. a = Len(stack)
          BY <1>2, <2>1 DEF a
    <3>2. SubSeq(stack, 1, a) = stack
          BY <1>4, <3>1, SubSeqFull
    <3>3. Is(ref, o) = 0
          BY <2>1, NoReference
    <3>4. Count(stack, o) = Count(stack, o) + 0
      <4>1. Count(stack, o) \in Nat
            BY <1>4, CountType
      <4>2. QED
            BY <4>1
    <3>5. QED
          BY <2>1, <3>2, <3>3, <3>4, ItemSeq, Zenon
  <2>2. CASE n = 1 /\ ref = Last(stack)
    <3>1. stack # <<>>
          BY <1>2, <1>3, <2>2
    <3>2. SubSeq(stack, 1, a) = Front(stack)
          BY <1>2, <2>2 DEF Front, a
    <3>3. Count(stack, o) = Count(Front(stack), o) + One(Last(stack) = o) /\ Last(stack) \in Value
          BY <1>4, <3>1, CountLast
    <3>4. QED
          BY <2>2, <3>2, <3>3, ItemSeq DEF Is
  <2>3. QED
        BY <2>1, <2>2 DEF Consumed
<1>9. QED
      BY <1>1, <1>3, <1>6, <1>7, <1>8 DEF a

\* CALL: the reference moves from the stack to the frame.
LEMMA PushedCounts ==
    ASSUME OwnInv, NEW f \in Fn, NEW ref \in Obj \cup {None}, NEW coro \in Obj \cup {None},
           NEW n, Consumed(ref, n), Pushed(f, ref, coro, n)
    PROVE  /\ Short'
           /\ \A o \in Obj : /\ Count(stack', o) + Is(ref, o) = Count(stack, o)
                             /\ Called(frames', o) = Called(frames, o) + Is(ref, o)
                             /\ Lent(frames', o) = Lent(frames, o) + Is(coro, o)
<1> DEFINE p == Sig[f].params
           l == Sig[f].locals
           bp == Height - n - p
           g == [fn |-> f, bp |-> bp, slots |-> p + l, returns |-> Sig[f].returns,
                 region |-> NoRegion, ref |-> ref, coro |-> coro]
           low == SubSeq(stack, 1, Height - n)
           top == Nums(l)
<1>1. p \in Nat /\ l \in Nat /\ Sig[f].returns \in Nat /\ Sig[f].returns <= 1
  <2>1. Sig[f] \in [params : Nat, locals : Nat, returns : 0 .. 1, yields : BOOLEAN]
        BY MachineAssumption
  <2>2. QED
        BY <2>1
<1>2. /\ Operands(n + p) /\ stack' = low \o top /\ frames' = Append(frames, g)
      BY Zenon DEF Pushed
<1>3. FrameInv /\ frames \in Seq(Frame)
      BY DEF OwnInv, Typed, FrameInv
<1> HIDE DEF p, l
<1>4. Height - n - p >= Top.bp + Top.slots /\ bp \in Nat
  <2>1. n \in Nat
        BY DEF Consumed
  <2>2. n + p \in Nat
        BY <1>1, <2>1
  <2>3. /\ Height - (n + p) \in Nat /\ Top.bp + Top.slots <= Height - (n + p)
        BY <1>2, <1>3, <2>2, Popped
  <2>4. Height \in Nat /\ Top.bp \in Nat /\ Top.slots \in Nat
        BY <1>3, Shape DEF Frame
  <2>5. QED
        BY <1>1, <2>1, <2>3, <2>4
<1> HIDE DEF bp
<1>5. g \in Frame /\ g.ref = ref /\ g.coro = coro /\ g.returns <= 1
      BY <1>1, <1>4 DEF Frame
<1> HIDE DEF g
<1>6. Short'
      BY <1>2, <1>5, ShortPushed
<1>7. ASSUME NEW o \in Obj
      PROVE  /\ Count(stack', o) + Is(ref, o) = Count(stack, o)
             /\ Called(frames', o) = Called(frames, o) + Is(ref, o)
             /\ Lent(frames', o) = Lent(frames, o) + Is(coro, o)
  <2>1. /\ Count(stack, o) = Count(low, o) + Is(ref, o) /\ low \in Seq(Value)
        /\ Count(low, o) \in Nat
        BY <1>1, <1>3, <1>4, BelowCallable
  <2>2. top \in Seq(Value) /\ Count(top, o) = 0
        BY <1>1, NumsSeq, NoReference
  <2> HIDE DEF low, top
  <2>3. Count(low \o top, o) = Count(low, o) + Count(top, o)
        BY <2>1, <2>2, CountConcat
  <2>4. Count(stack', o) = Count(low, o)
        BY <1>2, <2>1, <2>2, <2>3
  <2>5. /\ Called(Append(frames, g), o) = Called(frames, o) + Is(g.ref, o)
        /\ Lent(Append(frames, g), o) = Lent(frames, o) + Is(g.coro, o)
        BY <1>3, <1>5, FramesPushed
  <2>6. QED
        BY <1>2, <1>5, <2>1, <2>4, <2>5, Zenon
<1>8. QED
      BY <1>6, <1>7

\* CALL of a function that does not yield, and RETURN_CALL from the module body.
LEMMA CallOwn ==
    ASSUME OwnInv, NEW f \in Fn, Call(f) \/ CallDirect(f) \/ TailFromMain(f)
    PROVE  OwnInv' /\ Exact
<1>1. FrameInv /\ FrameInv'
      BY CallInv DEF OwnInv, Typed
<1>2. /\ \E ref \in Obj \cup {None} : \E n \in {0, 1} : Consumed(ref, n) /\ Pushed(f, ref, None, n)
      /\ UNCHANGED <<obj, rc, global, todo>>
  <2>1. CASE Call(f) \/ TailFromMain(f)
    <3>1. Last(stack) \in Obj /\ Pushed(f, Last(stack), None, 1) /\ UNCHANGED <<obj, rc, global, todo>>
          BY <1>1, <2>1, CalleeTyped, Zenon DEF Call, TailFromMain
    <3>2. Consumed(Last(stack), 1)
          BY DEF Consumed
    <3>3. QED
          BY <3>1, <3>2
  <2>2. CASE CallDirect(f)
    <3>1. Pushed(f, None, None, 0) /\ UNCHANGED <<obj, rc, global, todo>>
          BY <2>2, Zenon DEF CallDirect
    <3>2. Consumed(None, 0)
          BY DEF Consumed
    <3>3. QED
          BY <3>1, <3>2
  <2>3. QED
        BY <2>1, <2>2
<1>3. PICK ref \in Obj \cup {None} : \E n \in {0, 1} : Consumed(ref, n) /\ Pushed(f, ref, None, n)
      BY <1>2, Zenon
<1>4. PICK n \in {0, 1} : Consumed(ref, n) /\ Pushed(f, ref, None, n)
      BY <1>3, Zenon
<1>5. /\ Short'
      /\ \A o \in Obj : /\ Count(stack', o) + Is(ref, o) = Count(stack, o)
                        /\ Called(frames', o) = Called(frames, o) + Is(ref, o)
                        /\ Lent(frames', o) = Lent(frames, o) + Is(None, o)
  <2>1. None \in Obj \cup {None}
        OBVIOUS
  <2>2. QED
        BY <1>4, <2>1, PushedCounts
<1>6. ASSUME NEW o \in Obj
      PROVE  /\ Lent(frames', o) = Lent(frames, o)
             /\ Count(stack', o) + Is(ref, o) = Count(stack, o)
             /\ Called(frames', o) = Called(frames, o) + Is(ref, o)
             /\ Lent(frames, o) \in Nat
  <2>1. Is(None, o) = 0 /\ Lent(frames, o) \in Nat
        BY NoReference, OutsideTerms DEF OwnInv
  <2>2. Lent(frames', o) = Lent(frames, o) + Is(None, o)
        BY <1>5
  <2>3. QED
        BY <1>5, <2>1, <2>2
<1>7. Plain
      BY <1>1, <1>2, <1>5, <1>6 DEF Plain, OwnInv, Typed
<1>8. ASSUME NEW o \in Obj
      PROVE  rc'[o] + Outside(stack, todo, global, frames, o)
                 = rc[o] + Outside(stack', todo', global', frames', o)
  <2>1. /\ Count(stack, o) \in Nat /\ todo[o] \in Nat /\ Is(global, o) \in Nat
        /\ Called(frames, o) \in Nat /\ rc[o] \in Nat /\ Is(ref, o) \in Nat
        BY OutsideTerms, IsType DEF OwnInv
  <2>2. Count(stack', o) \in Nat
        BY <1>7, PlainTyped, OutsideTermsNext
  <2>3. QED
        BY <1>2, <1>6, <2>1, <2>2 DEF Outside
<1>9. QED
      BY <1>7, <1>8, PlainExact

\* References that move between stack, frames and pending releases.
LEMMA ShiftExact ==
    ASSUME OwnInv, FrameInv', Short', Running, todo' \in [Obj -> Nat], UNCHANGED <<obj, rc, global>>,
           \A o \in Obj : /\ Lent(frames', o) <= Lent(frames, o)
                          /\ Count(stack', o) + todo'[o] + Called(frames', o) + Lent(frames', o)
                                 = Count(stack, o) + Called(frames, o) + Lent(frames, o)
    PROVE  OwnInv' /\ Exact
<1>1. Plain
      BY DEF Plain, OwnInv, Typed
<1>2. ASSUME NEW o \in Obj
      PROVE  rc'[o] + Outside(stack, todo, global, frames, o)
                 = rc[o] + Outside(stack', todo', global', frames', o)
  <2>1. /\ Count(stack, o) \in Nat /\ todo[o] = 0 /\ Is(global, o) \in Nat
        /\ Called(frames, o) \in Nat /\ Lent(frames, o) \in Nat /\ rc[o] \in Nat
        BY OutsideTerms, NothingLeft DEF OwnInv
  <2>2. /\ Count(stack', o) \in Nat /\ todo'[o] \in Nat
        /\ Called(frames', o) \in Nat /\ Lent(frames', o) \in Nat
        BY <1>1, PlainTyped, OutsideTermsNext
  <2>3. Count(stack', o) + todo'[o] + Called(frames', o) + Lent(frames', o)
            = Count(stack, o) + Called(frames, o) + Lent(frames, o)
        OBVIOUS
  <2>4. QED
        BY <2>1, <2>2, <2>3 DEF Outside
<1>3. QED
      BY <1>1, <1>2, PlainExact

\* Releasing a stretch of the stack, then a frame's callable.
LEMMA ReleaseWith ==
    ASSUME NEW s \in Seq(Value), NEW x \in Item
    PROVE  /\ Releases(s \o <<x>>) \in [Obj -> Nat]
           /\ \A o \in Obj : Releases(s \o <<x>>)[o] = Count(s, o) + Is(x, o) /\ Count(s, o) \in Nat
<1> DEFINE one == <<x>>
<1>1. s \in Seq(Item) /\ one \in Seq(Item)
      BY ItemSeq
<1>2. \A o \in Obj : Count(one, o) = Is(x, o)
      BY CountSingle DEF Is
<1> HIDE DEF one
<1>3. s \o one \in Seq(Item)
      BY <1>1, ConcatProperties
<1>4. \A o \in Obj : Count(s \o one, o) = Count(s, o) + Count(one, o) /\ Count(s, o) \in Nat
      BY <1>1, CountConcat, CountType
<1>5. Releases(s \o one) \in [Obj -> Nat] /\ \A o \in Obj : Releases(s \o one)[o] = Count(s \o one, o)
      BY <1>3, ReleasesType
<1>6. QED
      BY <1>2, <1>4, <1>5, Zenon DEF one

\* RETURN_CALL: arguments and callable move, everything else the frame had is released.
LEMMA ReplacedCounts ==
    ASSUME OwnInv, NEW f \in Fn, NEW ref \in Obj \cup {None}, NEW n, Consumed(ref, n),
           Replaced(f, ref, n)
    PROVE  /\ Short' /\ todo' \in [Obj -> Nat]
           /\ \A o \in Obj :
                 /\ Lent(frames', o) = Lent(frames, o)
                 /\ Count(stack', o) + todo'[o] + Called(frames', o) = Count(stack, o) + Called(frames, o)
<1> DEFINE p == Sig[f].params
           l == Sig[f].locals
           bp == Top.bp
           args == Height - n - p
           end == Height - n
           m == Len(frames)
           g == [Top EXCEPT !.fn = f, !.ref = ref, !.slots = p + l,
                            !.returns = Sig[f].returns, !.region = NoRegion]
           low == SubSeq(stack, 1, bp)
           old == SubSeq(stack, bp + 1, args)
           mid == SubSeq(stack, args + 1, end)
           top == Nums(l)
<1>1. p \in Nat /\ l \in Nat /\ Sig[f].returns \in Nat /\ Sig[f].returns <= 1
  <2>1. Sig[f] \in [params : Nat, locals : Nat, returns : 0 .. 1, yields : BOOLEAN]
        BY MachineAssumption
  <2>2. QED
        BY <2>1
<1>2. FrameInv /\ frames \in Seq(Frame) /\ stack \in Seq(Value) /\ Top = frames[m] /\ m \in 1 .. Len(frames)
      BY Shape DEF OwnInv, Typed, FrameInv
<1>3. /\ args >= Top.bp + Top.slots /\ stack' = low \o mid \o top
      /\ frames' = [frames EXCEPT ![m] = g] /\ todo' = Releases(old \o <<Top.ref>>)
      BY <1>2 DEF Replaced
<1> HIDE DEF p, l, m
<1>4. Top \in Frame /\ Top.bp \in Nat /\ Top.slots \in Nat /\ Top.ref \in Item
      BY <1>2, Shape, ItemSeq DEF Frame
<1>5. /\ n \in Nat /\ end \in Nat /\ end <= Len(stack) /\ args \in Nat
      /\ \A o \in Obj : Count(stack, o) = Count(SubSeq(stack, 1, end), o) + Is(ref, o)
  <2>1. Height - n - p >= Top.bp + Top.slots
        BY <1>3
  <2>2. \A o \in Obj :
            /\ n \in Nat /\ Height - n \in Nat /\ Height - n <= Len(stack) /\ Height - n - p \in Nat
            /\ Count(stack, o) = Count(SubSeq(stack, 1, Height - n), o) + Is(ref, o)
        BY <1>1, <1>2, <2>1, BelowCallable
  <2>3. n \in Nat /\ (n = 0 \/ n = 1)
        BY DEF Consumed
  <2>4. Height \in Nat /\ Height = Len(stack)
        BY <1>2, Shape DEF Height
  <2>5. end \in Nat /\ end <= Len(stack) /\ args \in Nat
        BY <1>1, <1>4, <2>1, <2>3, <2>4
  <2>6. QED
        BY <2>2, <2>3, <2>5
<1>6. bp \in Nat /\ bp <= args /\ args <= end /\ args <= Len(stack) /\ bp <= Len(stack)
  <2> DEFINE s == Top.slots
  <2>1. args = end - p /\ args >= bp + s /\ bp \in Nat /\ s \in Nat
        BY <1>3, <1>4
  <2>2. end \in Nat /\ end <= Len(stack) /\ args \in Nat /\ Len(stack) \in Nat
        BY <1>2, <1>5, LenProperties
  <2> HIDE DEF args, end, bp, s
  <2>3. QED
        BY <1>1, <2>1, <2>2
<1> HIDE DEF args, end, bp
<1>7. g \in Frame /\ g.ref = ref /\ g.coro = Top.coro /\ g.returns <= 1
  <2>1. p + l \in Nat
        BY <1>1
  <2>2. QED
        BY <1>1, <1>4, <2>1 DEF Frame
<1> HIDE DEF g
<1>8. Short'
      BY <1>3, <1>7, ShortSwapped DEF m
<1>9. low \in Seq(Value) /\ mid \in Seq(Value) /\ old \in Seq(Value) /\ top \in Seq(Value)
  <2>1. low \in Seq(Value)
        BY <1>2, <1>6, Prefix
  <2>2. mid \in Seq(Value)
        BY <1>2, <1>5, <1>6, Segment
  <2>3. old \in Seq(Value)
        BY <1>2, <1>5, <1>6, Segment
  <2>4. top \in Seq(Value)
        BY <1>1, NumsSeq
  <2>5. QED
        BY <2>1, <2>2, <2>3, <2>4
<1>10. ASSUME NEW o \in Obj
       PROVE  /\ Count(SubSeq(stack, 1, end), o) = Count(low, o) + Count(old, o) + Count(mid, o)
              /\ Count(low, o) \in Nat /\ Count(old, o) \in Nat /\ Count(mid, o) \in Nat
  <2>1. /\ Count(SubSeq(stack, 1, end), o) = Count(SubSeq(stack, 1, args), o) + Count(mid, o)
        BY <1>2, <1>5, <1>6, CountCut
  <2>2. /\ Count(SubSeq(stack, 1, args), o) = Count(low, o) + Count(old, o)
        BY <1>2, <1>5, <1>6, CountCut
  <2>3. QED
        BY <1>9, <2>1, <2>2, CountType, Zenon
<1> HIDE DEF low, old, mid, top
<1>11. /\ todo' \in [Obj -> Nat]
       /\ \A o \in Obj : todo'[o] = Count(old, o) + Is(Top.ref, o)
       BY <1>3, <1>4, <1>9, ReleaseWith
<1>12. ASSUME NEW o \in Obj
       PROVE  Count(stack', o) = Count(low, o) + Count(mid, o)
  <2>1. low \o mid \in Seq(Value) /\ Count(low \o mid, o) = Count(low, o) + Count(mid, o)
        BY <1>9, ConcatProperties, CountConcat
  <2> DEFINE two == low \o mid
  <2>8. two \in Seq(Value)
        BY <2>1
  <2> HIDE DEF two
  <2>2. Count(two \o top, o) = Count(two, o) + Count(top, o)
        BY <1>9, <2>8, CountConcat
  <2>3. Count(top, o) = 0
        BY <1>1, NoReference DEF top
  <2>4. Count(two, o) \in Nat
        BY <2>1, CountType DEF two
  <2>5. stack' = two \o top
        BY <1>3 DEF two
  <2>6. Count(two \o top, o) = Count(two, o)
        BY <2>2, <2>3, <2>4
  <2>7. QED
        BY <2>1, <2>5, <2>6, Zenon DEF two
<1>13. ASSUME NEW o \in Obj
       PROVE  /\ Called(frames', o) + Is(Top.ref, o) = Called(frames, o) + Is(ref, o)
              /\ Lent(frames', o) = Lent(frames, o)
              /\ Called(frames', o) \in Nat /\ Called(frames, o) \in Nat
  <2>1. /\ Called(frames', o) + Is(frames[m].ref, o) = Called(frames, o) + Is(g.ref, o)
        /\ Lent(frames', o) + Is(frames[m].coro, o) = Lent(frames, o) + Is(g.coro, o)
        /\ frames' \in Seq(Frame)
        BY <1>2, <1>3, <1>7, FramesSwapped
  <2>2. /\ Called(frames', o) \in Nat /\ Lent(frames', o) \in Nat
        /\ Called(frames, o) \in Nat /\ Lent(frames, o) \in Nat /\ Is(g.coro, o) \in Nat
        BY <1>2, <2>1, FrameCounts, IsType
  <2>3. frames[m] = Top /\ g.ref = ref /\ g.coro = Top.coro
        BY <1>2, <1>7
  <2>4. QED
        BY <2>1, <2>2, <2>3
<1>14. ASSUME NEW o \in Obj
       PROVE  Count(stack', o) + todo'[o] + Called(frames', o) = Count(stack, o) + Called(frames, o)
  <2>1. Is(Top.ref, o) \in Nat /\ Is(ref, o) \in Nat
        BY IsType
  <2>2. /\ Count(SubSeq(stack, 1, end), o) = Count(low, o) + Count(old, o) + Count(mid, o)
        /\ Count(low, o) \in Nat /\ Count(old, o) \in Nat /\ Count(mid, o) \in Nat
        BY <1>10
  <2>3. Count(stack, o) = Count(SubSeq(stack, 1, end), o) + Is(ref, o)
        BY <1>5
  <2>4. todo'[o] = Count(old, o) + Is(Top.ref, o)
        BY <1>11
  <2>5. Count(stack', o) = Count(low, o) + Count(mid, o)
        BY <1>12
  <2>6. QED
        BY <1>13, <2>1, <2>2, <2>3, <2>4, <2>5
<1>15. QED
      BY <1>8, <1>11, <1>13, <1>14

\* RETURN_CALL.
LEMMA ReturnCallOwn ==
    ASSUME OwnInv, NEW f \in Fn, ReturnCall(f) \/ ReturnCallDirect(f)
    PROVE  OwnInv' /\ Exact
<1>1. FrameInv /\ FrameInv'
      BY ReturnCallInv DEF OwnInv, Typed
<1>2. /\ \E ref \in Obj \cup {None} : \E n \in {0, 1} : Consumed(ref, n) /\ Replaced(f, ref, n)
      /\ Running /\ UNCHANGED <<obj, rc, global>>
  <2>1. CASE ReturnCall(f)
    <3>1. Last(stack) \in Obj /\ Replaced(f, Last(stack), 1) /\ Running /\ UNCHANGED <<obj, rc, global>>
          BY <1>1, <2>1, CalleeTyped, Zenon DEF ReturnCall
    <3>2. Consumed(Last(stack), 1)
          BY DEF Consumed
    <3>3. QED
          BY <3>1, <3>2
  <2>2. CASE ReturnCallDirect(f)
    <3>1. Replaced(f, None, 0) /\ Running /\ UNCHANGED <<obj, rc, global>>
          BY <2>2, Zenon DEF ReturnCallDirect
    <3>2. Consumed(None, 0)
          BY DEF Consumed
    <3>3. QED
          BY <3>1, <3>2
  <2>3. QED
        BY <2>1, <2>2
<1>3. PICK ref \in Obj \cup {None} : \E n \in {0, 1} : Consumed(ref, n) /\ Replaced(f, ref, n)
      BY <1>2, Zenon
<1>4. PICK n \in {0, 1} : Consumed(ref, n) /\ Replaced(f, ref, n)
      BY <1>3, Zenon
<1>5. /\ Short' /\ todo' \in [Obj -> Nat]
      /\ \A o \in Obj :
            /\ Lent(frames', o) = Lent(frames, o)
            /\ Count(stack', o) + todo'[o] + Called(frames', o) = Count(stack, o) + Called(frames, o)
      BY <1>4, ReplacedCounts
<1>6. ASSUME NEW o \in Obj
      PROVE  /\ Lent(frames', o) <= Lent(frames, o)
             /\ Count(stack', o) + todo'[o] + Called(frames', o) + Lent(frames', o)
                    = Count(stack, o) + Called(frames, o) + Lent(frames, o)
  <2>1. Lent(frames, o) \in Nat /\ Lent(frames', o) = Lent(frames, o)
        BY <1>5, OutsideTerms DEF OwnInv
  <2>2. Count(stack', o) + todo'[o] + Called(frames', o) = Count(stack, o) + Called(frames, o)
        BY <1>5
  <2>3. QED
        BY <2>1, <2>2
<1>7. QED
      BY <1>1, <1>2, <1>5, <1>6, ShiftExact

\* What a returning frame leaves and what it releases.
Returning ==
    /\ Len(frames) > 1 /\ Height >= Top.bp + Top.slots + Top.returns
    /\ todo' = Releases(SubSeq(stack, Top.bp + 1, Height - Top.returns) \o <<Top.ref>>)
    /\ frames' = Front(frames)

LEMMA ReturnCounts ==
    ASSUME OwnInv, Returning
    PROVE  LET low == SubSeq(stack, 1, Top.bp)
               res == SubSeq(stack, Height - Top.returns + 1, Height)
           IN  /\ Short' /\ todo' \in [Obj -> Nat]
               /\ low \in Seq(Value) /\ res \in Seq(Value) /\ Len(res) = Top.returns
               /\ Top.returns \in Nat /\ Top.returns <= 1 /\ Top \in Frame
               /\ \A o \in Obj :
                     /\ Lent(frames, o) = Lent(frames', o) + Is(Top.coro, o)
                     /\ Count(low, o) + Count(res, o) + todo'[o] + Called(frames', o)
                            = Count(stack, o) + Called(frames, o)
                     /\ Count(low, o) \in Nat /\ Count(res, o) \in Nat /\ todo'[o] \in Nat
                     /\ Called(frames', o) \in Nat /\ Lent(frames', o) \in Nat
<1> DEFINE bp == Top.bp
           r == Top.returns
           ref == Top.ref
           a == Height - r
           end == Height
           low == SubSeq(stack, 1, bp)
           old == SubSeq(stack, bp + 1, a)
           res == SubSeq(stack, a + 1, end)
<1>1. /\ frames \in Seq(Frame) /\ stack \in Seq(Value) /\ Top \in Frame
      /\ Top = frames[Len(frames)] /\ Len(frames) \in 1 .. Len(frames) /\ Len(frames) \in Nat
      /\ end = Len(stack) /\ end \in Nat
      BY Shape DEF OwnInv, Typed, FrameInv, Height
<1>2. /\ bp \in Nat /\ Top.slots \in Nat /\ r \in Nat /\ ref \in Item /\ Top.coro \in Item
      /\ r <= 1 /\ end >= bp + Top.slots + r
      BY <1>1, ItemSeq DEF Frame, OwnInv, Short, Returning
<1>3. a \in Nat /\ bp <= a /\ a <= end /\ end - a = r /\ end <= Len(stack) /\ bp <= Len(stack) /\ a <= Len(stack)
  <2> DEFINE s == Top.slots
  <2>1. a = end - r /\ end \in Nat /\ bp \in Nat /\ s \in Nat /\ r \in Nat /\ end >= bp + s + r
        BY <1>1, <1>2
  <2>2. end = Len(stack)
        BY <1>1
  <2> HIDE DEF s, a, end, bp, r
  <2>3. QED
        BY <2>1, <2>2
<1>4. todo' = Releases(old \o <<ref>>) /\ frames' = Front(frames) /\ Len(frames) > 1
      BY DEF Returning
<1> HIDE DEF a, end, bp, r, ref
<1>5. low \in Seq(Value)
      BY <1>1, <1>2, <1>3, Prefix
<1>6. old \in Seq(Value)
      BY <1>1, <1>2, <1>3, Segment
<1>7. res \in Seq(Value) /\ Len(res) = r
  <2>1. res \in Seq(Value) /\ Len(res) = end - a
        BY <1>1, <1>3, Segment
  <2>2. QED
        BY <2>1, <1>3
<1>8. ASSUME NEW o \in Obj
      PROVE  /\ Count(stack, o) = Count(low, o) + Count(old, o) + Count(res, o)
             /\ Count(low, o) \in Nat /\ Count(old, o) \in Nat /\ Count(res, o) \in Nat
  <2>5. /\ stack \in Seq(Value) /\ a \in Nat /\ end \in Nat /\ bp \in Nat /\ a <= end
        /\ end <= Len(stack) /\ bp <= a /\ a <= Len(stack)
        BY <1>1, <1>2, <1>3
  <2>1. Count(SubSeq(stack, 1, end), o) = Count(SubSeq(stack, 1, a), o) + Count(res, o)
        BY <2>5, CountCut
  <2>2. Count(SubSeq(stack, 1, a), o) = Count(low, o) + Count(old, o)
        BY <2>5, CountCut
  <2>3. SubSeq(stack, 1, end) = stack
        BY <1>1, SubSeqFull
  <2>4. QED
        BY <1>5, <1>6, <1>7, <2>1, <2>2, <2>3, CountType, Zenon
<1> HIDE DEF low, old, res
<1>9. /\ todo' \in [Obj -> Nat]
      /\ \A o \in Obj : todo'[o] = Count(old, o) + Is(ref, o)
      BY <1>2, <1>4, <1>6, ReleaseWith
<1>10. Short'
      BY <1>4, ShortClosed
<1>11. ASSUME NEW o \in Obj
       PROVE  /\ Lent(frames, o) = Lent(frames', o) + Is(Top.coro, o)
              /\ Called(frames, o) = Called(frames', o) + Is(ref, o)
              /\ Called(frames', o) \in Nat /\ Lent(frames', o) \in Nat
  <2>1. Len(frames) >= 1 /\ Last(frames) = Top
        BY <1>1 DEF Top
  <2>2. /\ Called(frames, o) = Called(Front(frames), o) + Is(Last(frames).ref, o)
        /\ Lent(frames, o) = Lent(Front(frames), o) + Is(Last(frames).coro, o)
        /\ Front(frames) \in Seq(Frame)
        BY <1>1, <2>1, FramesClosed
  <2>3. Called(Front(frames), o) \in Nat /\ Lent(Front(frames), o) \in Nat
        BY <2>2, FrameCounts
  <2>4. QED
        BY <1>4, <2>1, <2>2, <2>3, Zenon DEF ref
<1>12. ASSUME NEW o \in Obj
       PROVE  /\ Count(low, o) + Count(res, o) + todo'[o] + Called(frames', o)
                     = Count(stack, o) + Called(frames, o)
              /\ todo'[o] \in Nat
  <2>1. Is(ref, o) \in Nat
        BY IsType
  <2>2. /\ Count(stack, o) = Count(low, o) + Count(old, o) + Count(res, o)
        /\ Count(low, o) \in Nat /\ Count(old, o) \in Nat /\ Count(res, o) \in Nat
        BY <1>8
  <2>3. todo'[o] = Count(old, o) + Is(ref, o)
        BY <1>9
  <2>4. Called(frames, o) = Called(frames', o) + Is(ref, o) /\ Called(frames', o) \in Nat
        BY <1>11
  <2>5. QED
        BY <2>1, <2>2, <2>3, <2>4
<1>13. QED
  <2>1. /\ low = SubSeq(stack, 1, Top.bp)
        /\ res = SubSeq(stack, Height - Top.returns + 1, Height)
        /\ r = Top.returns
        BY DEF low, res, bp, a, r, end
  <2>2. r \in Nat /\ r <= 1
        BY <1>2
  <2>3. QED
        BY <1>1, <1>5, <1>7, <1>8, <1>9, <1>10, <1>11, <1>12, <2>1, <2>2, Zenon

\* RETURN.
LEMMA ReturnOwn ==
    ASSUME OwnInv, Return
    PROVE  OwnInv' /\ Exact
<1> DEFINE low == SubSeq(stack, 1, Top.bp)
           res == SubSeq(stack, Height - Top.returns + 1, Height)
<1>1. FrameInv' /\ Running /\ UNCHANGED <<obj, rc, global>>
      BY ReturnInv DEF OwnInv, Typed, Return
<1>2. /\ Len(frames) > 1 /\ Top.coro = None /\ Height >= Top.bp + Top.slots + Top.returns
      /\ todo' = Releases(SubSeq(stack, Top.bp + 1, Height - Top.returns) \o <<Top.ref>>)
      /\ frames' = Front(frames) /\ stack' = low \o res
      BY DEF Return
<1>3. /\ Short' /\ todo' \in [Obj -> Nat] /\ low \in Seq(Value) /\ res \in Seq(Value)
      /\ \A o \in Obj :
            /\ Lent(frames, o) = Lent(frames', o) + Is(Top.coro, o)
            /\ Count(low, o) + Count(res, o) + todo'[o] + Called(frames', o)
                   = Count(stack, o) + Called(frames, o)
            /\ Count(low, o) \in Nat /\ Count(res, o) \in Nat /\ todo'[o] \in Nat
            /\ Called(frames', o) \in Nat /\ Lent(frames', o) \in Nat
      BY <1>2, ReturnCounts DEF Returning
<1> HIDE DEF low, res
<1>4. ASSUME NEW o \in Obj
      PROVE  /\ Lent(frames', o) <= Lent(frames, o)
             /\ Count(stack', o) + todo'[o] + Called(frames', o) + Lent(frames', o)
                    = Count(stack, o) + Called(frames, o) + Lent(frames, o)
  <2>1. Count(stack', o) = Count(low, o) + Count(res, o)
        BY <1>2, <1>3, CountConcat
  <2>2. Is(Top.coro, o) = 0
        BY <1>2, NoReference
  <2>3. /\ Lent(frames, o) = Lent(frames', o) + Is(Top.coro, o)
        /\ Count(low, o) + Count(res, o) + todo'[o] + Called(frames', o)
               = Count(stack, o) + Called(frames, o)
        /\ Count(low, o) \in Nat /\ Count(res, o) \in Nat /\ todo'[o] \in Nat
        /\ Called(frames', o) \in Nat /\ Lent(frames', o) \in Nat
        BY <1>3
  <2>4. Count(stack, o) \in Nat /\ Called(frames, o) \in Nat
        BY OutsideTerms DEF OwnInv
  <2>5. QED
        BY <2>1, <2>2, <2>3, <2>4
<1>5. QED
      BY <1>1, <1>3, <1>4, ShiftExact

-----------------------------------------------------------------------------
(***************************************************************************)
(* Exceptions.                                                             *)
(***************************************************************************)
\* A handler's base is no higher than what the current frame's instructions leave alone.
LEMMA BaseBelow ==
    ASSUME FrameInv, NEW k \in 1 .. Len(frames), frames[k].region # NoRegion
    PROVE  Base(k) \in Nat /\ Base(k) <= Floor(Top) /\ Floor(Top) \in Nat
<1>1. /\ Top \in Frame /\ Whole(Top, Height) /\ Height \in Nat /\ Top = frames[Len(frames)]
      /\ Len(frames) \in 1 .. Len(frames) /\ Len(frames) \in Nat
      /\ frames[k] \in Frame /\ Base(k) \in Nat
      BY Shape, Protected
<1>2. /\ Top.bp \in Nat /\ Floor(Top) \in Nat /\ Top.slots \in Nat /\ Top.bp + Top.slots <= Floor(Top)
      /\ (Top.region # NoRegion => Floor(Top) = Top.bp + Top.region)
      BY <1>1, WholeSpans
<1>3. CASE k = Len(frames)
      BY <1>1, <1>2, <1>3 DEF Base
<1>4. CASE k # Len(frames)
  <2>1. k < Len(frames)
        BY <1>1, <1>4
  <2>2. Whole(frames[k], Top.bp)
        BY <1>1, <2>1 DEF FrameInv, Nested
  <2>3. Base(k) <= Top.bp
        BY <2>2 DEF Whole, Base
  <2>4. QED
        BY <1>1, <1>2, <2>3
<1>5. QED
      BY <1>3, <1>4

\* The sum for land.
LEMMA LandSum ==
    ASSUME NEW w \in Nat, NEW t \in Nat, NEW x \in Nat, NEW c \in Nat, NEW l \in Nat,
           NEW r \in Nat, NEW d \in Nat
    PROVE  (w + x) + (r + d + t) + c + l = (w + t) + x + (c + r) + (l + d) /\ l <= l + d
OBVIOUS

\* land: what the unwound frames and the stack above the base held is released, but
\* for the exception.
LEMMA LandCounts ==
    ASSUME OwnInv, NEW k \in 1 .. Len(frames), frames[k].region # NoRegion, NEW n \in Nat,
           Base(k) <= n, n <= Height, NEW exc \in Value, Land(k, n, exc)
    PROVE  /\ Short' /\ todo' \in [Obj -> Nat]
           /\ \A o \in Obj :
                 /\ Lent(frames', o) <= Lent(frames, o)
                 /\ Count(stack', o) + todo'[o] + Called(frames', o) + Lent(frames', o)
                        = Count(SubSeq(stack, 1, n), o) + Is(exc, o) + Called(frames, o) + Lent(frames, o)
<1> DEFINE b == Base(k)
           low == SubSeq(stack, 1, b)
           top == SubSeq(stack, b + 1, n)
           g == [frames[k] EXCEPT !.region = NoRegion]
           refs == SubSeq(Callables(frames), k + 1, Len(frames))
           coros == SubSeq(Coroutines(frames), k + 1, Len(frames))
<1>1. /\ FrameInv /\ frames \in Seq(Frame) /\ stack \in Seq(Value) /\ Height = Len(stack)
      /\ frames[k] \in Frame /\ Len(frames) \in Nat /\ Height \in Nat
      BY Shape DEF OwnInv, Typed, FrameInv, Height
<1>2. b \in Nat /\ b <= n /\ n <= Len(stack) /\ b <= Len(stack)
  <2>1. b \in Nat /\ b <= n
        BY <1>1, Protected
  <2> HIDE DEF b
  <2>2. QED
        BY <1>1, <2>1
<1>3. /\ stack' = Append(low, exc) /\ todo' = Releases((refs \o coros) \o top)
      /\ frames' = Append(SubSeq(frames, 1, k - 1), g)
      BY DEF Land, Discarded
<1>4. /\ g \in Frame /\ g.ref = frames[k].ref /\ g.coro = frames[k].coro
      /\ g.returns = frames[k].returns
      BY <1>1 DEF Frame
<1> HIDE DEF b, g
<1>5. Short'
      BY <1>3, <1>4, ShortLanded
<1>6. low \in Seq(Value) /\ top \in Seq(Value) /\ top \in Seq(Item)
  <2>1. low \in Seq(Value)
        BY <1>1, <1>2, Prefix
  <2>2. top \in Seq(Value)
        BY <1>1, <1>2, Segment
  <2>3. QED
        BY <2>1, <2>2, ItemSeq
<1>7. refs \in Seq(Item) /\ coros \in Seq(Item)
  <2>1. /\ Callables(frames) \in Seq(Item) /\ Len(Callables(frames)) = Len(frames)
        /\ Coroutines(frames) \in Seq(Item) /\ Len(Coroutines(frames)) = Len(frames)
        BY <1>1, FrameRefs
  <2>2. k \in Nat /\ k <= Len(frames)
        BY <1>1
  <2> DEFINE m == Len(frames)
             cs == Callables(frames)
             ds == Coroutines(frames)
  <2>3. /\ cs \in Seq(Item) /\ ds \in Seq(Item) /\ m \in Nat /\ k <= m /\ m <= Len(cs) /\ m <= Len(ds)
        BY <1>1, <2>1, <2>2
  <2> HIDE DEF m, cs, ds
  <2>4. SubSeq(cs, k + 1, m) \in Seq(Item) /\ SubSeq(ds, k + 1, m) \in Seq(Item)
        BY <2>2, <2>3, Segment
  <2>5. QED
        BY <2>4 DEF m, cs, ds
<1>8. ASSUME NEW o \in Obj
      PROVE  /\ Called(frames, o) = Called(frames', o) + Count(refs, o)
             /\ Lent(frames, o) = Lent(frames', o) + Count(coros, o)
             /\ Count(refs, o) \in Nat /\ Count(coros, o) \in Nat
  <2> DEFINE gs == Append(SubSeq(frames, 1, k - 1), g)
  <2>1. /\ Called(frames, o) = Called(gs, o) + Count(refs, o)
        /\ Lent(frames, o) = Lent(gs, o) + Count(coros, o)
        /\ Count(refs, o) \in Nat /\ Count(coros, o) \in Nat
        BY <1>1, <1>4, FramesLanded
  <2> HIDE DEF refs, coros
  <2>2. QED
        BY <1>3, <2>1, Zenon
<1>9. ASSUME NEW o \in Obj
      PROVE  /\ Count(SubSeq(stack, 1, n), o) = Count(low, o) + Count(top, o)
             /\ Count(low, o) \in Nat /\ Count(top, o) \in Nat
      BY <1>1, <1>2, CountCut
<1> HIDE DEF low, top, refs, coros
<1>10. ASSUME NEW o \in Obj
       PROVE  Count(stack', o) = Count(low, o) + Is(exc, o)
       BY <1>3, <1>6, CountAppend
<1>11. /\ todo' \in [Obj -> Nat]
       /\ \A o \in Obj : todo'[o] = Count(refs, o) + Count(coros, o) + Count(top, o)
  <2> DEFINE two == refs \o coros
  <2>1. two \in Seq(Item) /\ \A o \in Obj : Count(two, o) = Count(refs, o) + Count(coros, o)
        BY <1>7, ConcatProperties, CountConcat
  <2> HIDE DEF two
  <2>2. two \o top \in Seq(Item) /\ \A o \in Obj : Count(two \o top, o) = Count(two, o) + Count(top, o)
        BY <1>6, <2>1, ConcatProperties, CountConcat
  <2> DEFINE all == two \o top
  <2>3. all \in Seq(Item) /\ todo' = Releases(all)
        BY <1>3, <2>2 DEF two
  <2>4. \A o \in Obj : Count(all, o) = Count(refs, o) + Count(coros, o) + Count(top, o)
        BY <2>1, <2>2, Zenon
  <2> HIDE DEF all
  <2>5. QED
        BY <2>3, <2>4, ReleasesType, Zenon
<1>12. ASSUME NEW o \in Obj
       PROVE  /\ Lent(frames', o) <= Lent(frames, o)
              /\ Count(stack', o) + todo'[o] + Called(frames', o) + Lent(frames', o)
                     = Count(SubSeq(stack, 1, n), o) + Is(exc, o) + Called(frames, o) + Lent(frames, o)
  <2>1. /\ Called(frames, o) = Called(frames', o) + Count(refs, o)
        /\ Lent(frames, o) = Lent(frames', o) + Count(coros, o)
        /\ Count(refs, o) \in Nat /\ Count(coros, o) \in Nat
        BY <1>8
  <2>2. /\ Count(SubSeq(stack, 1, n), o) = Count(low, o) + Count(top, o)
        /\ Count(low, o) \in Nat /\ Count(top, o) \in Nat
        BY <1>9
  <2>3. Count(stack', o) = Count(low, o) + Is(exc, o) /\ Is(exc, o) \in Nat
        BY <1>10, IsType
  <2>4. todo'[o] = Count(refs, o) + Count(coros, o) + Count(top, o)
        BY <1>11
  <2>5. /\ Called(frames', o) \in Nat /\ Lent(frames', o) \in Nat
    <3>1. frames' \in Seq(Frame)
      <4>1. k - 1 \in Nat /\ k - 1 <= Len(frames)
            BY <1>1
      <4>2. SubSeq(frames, 1, k - 1) \in Seq(Frame)
            BY <1>1, <4>1, Prefix
      <4>3. QED
            BY <1>3, <1>4, <4>2, AppendProperties
    <3>2. QED
          BY <3>1, FrameCounts
  <2> DEFINE w == Count(low, o)
             t == Count(top, o)
             x == Is(exc, o)
             c == Called(frames', o)
             l == Lent(frames', o)
             r == Count(refs, o)
             d == Count(coros, o)
  <2>6. /\ w \in Nat /\ t \in Nat /\ x \in Nat /\ c \in Nat /\ l \in Nat /\ r \in Nat /\ d \in Nat
        /\ Count(stack', o) = w + x /\ todo'[o] = r + d + t
        /\ Count(SubSeq(stack, 1, n), o) = w + t /\ Called(frames, o) = c + r /\ Lent(frames, o) = l + d
        BY <2>1, <2>2, <2>3, <2>4, <2>5, Zenon
  <2>7. /\ Count(stack', o) + todo'[o] + c + l = (w + x) + (r + d + t) + c + l
        /\ Count(SubSeq(stack, 1, n), o) + x + Called(frames, o) + Lent(frames, o)
               = (w + t) + x + (c + r) + (l + d)
        BY <2>6, Zenon
  <2> HIDE DEF w, t, x, c, l, r, d
  <2>8. (w + x) + (r + d + t) + c + l = (w + t) + x + (c + r) + (l + d) /\ l <= l + d
    <3>1. /\ w \in Nat /\ t \in Nat /\ x \in Nat /\ c \in Nat /\ l \in Nat /\ r \in Nat /\ d \in Nat
          BY <2>6, Zenon
    <3>2. QED
          BY <3>1, LandSum
  <2>9. l <= Lent(frames, o)
        BY <2>6, <2>8, Zenon
  <2>10. QED
        BY <2>7, <2>8, <2>9, Zenon DEF x, c, l
<1>13. QED
      BY <1>5, <1>11, <1>12

\* dispatch returns an error with m operands off the stack.
LEMMA FailOwn ==
    ASSUME OwnInv, Running, NEW m \in Nat, Operands(m), Fail(Height - m)
    PROVE  OwnInv'
<1> DEFINE n == Height - m
<1>1. /\ FrameInv' /\ stack' = SubSeq(stack, 1, n) /\ UNCHANGED <<frames, obj, rc, global, todo>>
      BY FailInv DEF OwnInv, Typed, Fail
<1>2. n \in Nat /\ n <= Len(stack) /\ stack \in Seq(Value)
      BY Popped DEF OwnInv, Typed, FrameInv, Height
<1> HIDE DEF n
<1>3. todo' \in [Obj -> Nat]
      BY <1>1 DEF OwnInv, Typed
<1>4. ASSUME NEW o \in Obj
      PROVE  Count(stack', o) + todo'[o] <= Count(stack, o)
  <2>1. /\ Count(stack, o) = Count(SubSeq(stack, 1, n), o) + Count(SubSeq(stack, n + 1, Len(stack)), o)
        /\ Count(SubSeq(stack, 1, n), o) \in Nat /\ Count(SubSeq(stack, n + 1, Len(stack)), o) \in Nat
        BY <1>2, CountParts
  <2>2. todo'[o] = 0 /\ Count(stack', o) = Count(SubSeq(stack, 1, n), o)
        BY <1>1, NothingLeft
  <2>3. QED
        BY <2>1, <2>2
<1>5. QED
      BY <1>1, <1>3, <1>4, MoveCovers

\* THROW, of an operand the region does not protect.
LEMMA ThrowOwn ==
    ASSUME OwnInv, ~EntryThrows, Throw
    PROVE  OwnInv' /\ (status' # "failed" => Exact)
<1> DEFINE S == Covering(Len(frames))
           k == Innermost(S)
           exc == Last(stack)
           n == Height - 1
<1>1. /\ Running /\ Operands(1)
      /\ \/ Fail(Height - 1)
         \/ Panic
         \/ /\ S # {} /\ Base(k) < StackCap
            /\ Land(k, n, exc)
            /\ UNCHANGED <<obj, rc, global, status>>
      BY Zenon DEF Throw
<1>2. FrameInv /\ FrameInv' /\ 1 \in Nat
      BY ThrowInv DEF OwnInv, Typed
<1>3. CASE Fail(Height - 1)
  <2>1. OwnInv'
        BY <1>1, <1>2, <1>3, FailOwn
  <2>2. status' = "failed"
        BY <1>3 DEF Fail
  <2>3. QED
        BY <2>1, <2>2
<1>4. CASE Panic
      BY <1>4, StatusOwn
<1>5. CASE /\ S # {} /\ Base(k) < StackCap
           /\ Land(k, n, exc)
           /\ UNCHANGED <<obj, rc, global, status>>
  <2>1. k \in 1 .. Len(frames) /\ frames[k].region # NoRegion
        BY <1>2, <1>5, NoOperand, CoveringSome
  <2> HIDE DEF k, S
  <2>2. Base(k) \in Nat /\ Base(k) <= Floor(Top) /\ Floor(Top) \in Nat
        BY <1>2, <2>1, BaseBelow
  <2>3. n \in Nat /\ n <= Height /\ Floor(Top) <= n
        BY <1>1, <1>2, Popped
  <2>4. exc \in Value /\ Front(stack) = SubSeq(stack, 1, n)
        BY <1>1, <1>2, TopOperand
  <2>5. Base(k) <= n
        BY <2>2, <2>3
  <2>6. \A o \in Obj : Count(stack, o) = Count(Front(stack), o) + Is(exc, o)
        BY <1>1, <1>2, PopCounts
  <2>7. Land(k, n, exc) /\ UNCHANGED <<obj, rc, global>>
        BY <1>5
  <2> HIDE DEF n, exc
  <2>8. /\ Short' /\ todo' \in [Obj -> Nat]
        /\ \A o \in Obj :
              /\ Lent(frames', o) <= Lent(frames, o)
              /\ Count(stack', o) + todo'[o] + Called(frames', o) + Lent(frames', o)
                     = Count(SubSeq(stack, 1, n), o) + Is(exc, o) + Called(frames, o) + Lent(frames, o)
        BY <2>1, <2>3, <2>4, <2>5, <2>7, LandCounts
  <2>9. \A o \in Obj : Count(SubSeq(stack, 1, n), o) + Is(exc, o) = Count(stack, o)
        BY <2>4, <2>6, Zenon
  <2>10. \A o \in Obj :
            /\ Lent(frames', o) <= Lent(frames, o)
            /\ Count(stack', o) + todo'[o] + Called(frames', o) + Lent(frames', o)
                   = Count(stack, o) + Called(frames, o) + Lent(frames, o)
        BY <2>8, <2>9, Zenon
  <2>11. QED
        BY <1>1, <1>2, <2>7, <2>8, <2>10, ShiftExact
<1>6. QED
      BY <1>1, <1>3, <1>4, <1>5, Zenon

-----------------------------------------------------------------------------
(***************************************************************************)
(* Allocation, and the collection that may come before it.                 *)
(***************************************************************************)
\* A blank object refers to nothing.
Hollow(v) == v.image = <<>> /\ v.value = Num /\ v.ref = None

LEMMA HollowFields ==
    ASSUME NEW v \in Object, Hollow(v), NEW o \in Obj
    PROVE  /\ Count(Fields(v), o) = 0
           /\ \A k \in DOMAIN Fields(v) : Fields(v)[k] # o
<1>1. Num # o /\ None # o
      BY MachineAssumption
<1>2. Fields(v) \in Seq(Item) /\ Len(Fields(v)) = Len(v.image) + 2
      BY FieldsSeq
<1>3. Fields(v) = <<>> \o <<Num, None>>
      BY DEF Fields, Hollow
<1>4. Fields(v) = <<Num, None>>
      BY <1>3
<1>5. \A k \in DOMAIN Fields(v) : Fields(v)[k] # o
      BY <1>1, <1>4
<1>6. {k \in DOMAIN Fields(v) : Fields(v)[k] = o} = {}
      BY <1>5
<1>7. QED
      BY <1>5, <1>6, FS_EmptySet DEF Count

LEMMA BlankHollow ==
    /\ Blank \in Object /\ Hollow(Blank) /\ Len(Blank.image) = 0
    /\ Sound(Blank, 0) /\ \A n \in {0, 1} : Lending(Blank, n)
BY BlankObject DEF Blank, Hollow, Sound, Lending

\* What is free.
LEMMA FreeBlank ==
    ASSUME OwnInv, NEW p \in Free
    PROVE  p \in Obj /\ obj[p] = Blank /\ rc[p] = 0
BY DEF Free, OwnInv, Counted, Sound

\* What is garbage is held by the heap only, and by other garbage only.
LEMMA GarbageOwned ==
    ASSUME OwnInv, NEW p \in Garbage
    PROVE  /\ p \in Obj /\ rc[p] = Cells(obj, Obj, p) /\ Lent(frames, p) = 0
           /\ \A q \in Obj \ Garbage : \A k \in DOMAIN Fields(obj[q]) : Fields(obj[q])[k] # p
<1> DEFINE rooted == {o \in Obj : rc[o] > Held(o)}
           Shut(S) == \A o \in S : Range(Fields(obj[o])) \cap Obj \subseteq S
<1>1. p \in Obj /\ p \notin Reached
      BY DEF Garbage
<1>2. Reached = {o \in Obj : \A S \in SUBSET Obj : rooted \subseteq S /\ Shut(S) => o \in S}
      BY Zenon DEF Reached
<1>3. ~(rc[p] > Held(p))
  <2>1. p \in rooted => p \in Reached
        BY <1>1, <1>2
  <2>2. QED
        BY <1>1, <2>1
<1>4. rc[p] = Cells(obj, Obj, p) /\ Lent(frames, p) = 0
  <2> DEFINE a == Cells(obj, Obj, p)
             b == Count(stack, p)
             c == todo[p]
             d == Is(global, p)
             e == Called(frames, p)
             f == Lent(frames, p)
             r == rc[p]
  <2>1. Summed(p) /\ rc[p] >= Owners(p)
        BY <1>1, OwnersSum DEF OwnInv, Counted, AllSummed
  <2>2. /\ a \in Nat /\ b \in Nat /\ c \in Nat /\ d \in Nat /\ e \in Nat /\ f \in Nat /\ r \in Nat
        /\ Owners(p) = a + b + c + d + e + f /\ r >= Owners(p) /\ ~(r > a)
        BY <1>3, <2>1, Zenon DEF Summed
  <2> HIDE DEF a, b, c, d, e, f, r
  <2>3. r = a /\ f = 0
        BY <2>2
  <2>4. QED
        BY <2>3 DEF r, a, f
<1>5. ASSUME NEW q \in Obj \ Garbage, NEW k \in DOMAIN Fields(obj[q]), Fields(obj[q])[k] = p
      PROVE  FALSE
  <2>1. q \in Free \/ q \in Reached
        BY <1>5 DEF Garbage
  <2>2. CASE q \in Free
    <3>1. obj[q] = Blank
          BY <2>2, FreeBlank
    <3>2. \A j \in DOMAIN Fields(Blank) : Fields(Blank)[j] # p
          BY <1>1, BlankHollow, HollowFields
    <3>3. QED
          BY <1>5, <3>1, <3>2
  <2>3. CASE q \in Reached
    <3>1. p \in Range(Fields(obj[q])) \cap Obj
          BY <1>1, <1>5 DEF Range
    <3>2. ASSUME NEW S \in SUBSET Obj, rooted \subseteq S, Shut(S)
          PROVE  p \in S
      <4>1. q \in S
            BY <1>2, <2>3, <3>2, Zenon
      <4>2. Range(Fields(obj[q])) \cap Obj \subseteq S
            BY <3>2, <4>1, Zenon
      <4>3. QED
            BY <3>1, <4>2
    <3>3. p \in Reached
      <4> HIDE DEF rooted, Shut
      <4>1. QED
            BY <1>1, <1>2, <3>2, Zenon
    <3>4. QED
          BY <1>1, <3>3
  <2>4. QED
        BY <2>1, <2>2, <2>3
<1>6. QED
      BY <1>1, <1>4, <1>5

\* What an allocation leaves: the address it answers has one count, that nothing owns
\* yet, and is in no frame.
Allocated(o, v) ==
    /\ rc' \in [Obj -> Nat] /\ Fitting(obj') /\ Lent(frames, o) = 0
    /\ \A p \in Obj : /\ rc'[p] + Cells(obj, Obj, p) = rc[p] + Cells(obj', Obj, p) + Is(o, p)
                      /\ Sound(obj'[p], rc'[p])
                      /\ Lending(obj'[p], Lent(frames, p))
                      /\ p = o => obj'[p] = v

LEMMA AllocOwn ==
    ASSUME OwnInv, NEW o \in Obj, NEW v \in Object, Hollow(v), v.kind # "free", v.returns <= 1,
           v.done = FALSE, Alloc(o, v)
    PROVE  Allocated(o, v)
<1>1. PICK dead \in {{}, Garbage} :
        /\ o \in Free \cup dead
        /\ obj' = [p \in Obj |-> IF p = o THEN v ELSE IF p \in dead THEN Blank ELSE obj[p]]
        /\ rc' = [p \in Obj |-> IF p = o THEN 1
                               ELSE IF p \in dead THEN 0 ELSE rc[p] - HeldBy(dead, p)]
      BY Zenon DEF Alloc
<1> DEFINE gone == dead \cup {o}
           kept == Obj \ gone
<1>2. /\ gone \in SUBSET Obj /\ dead \in SUBSET gone /\ gone \ dead \in SUBSET Obj
      /\ dead \in SUBSET Obj /\ kept \in SUBSET Obj /\ o \in gone
      BY DEF Garbage
<1>3. ASSUME NEW p \in dead
      PROVE  /\ p \in Obj /\ rc[p] = Cells(obj, Obj, p) /\ Lent(frames, p) = 0
             /\ \A q \in kept : \A k \in DOMAIN Fields(obj[q]) : Fields(obj[q])[k] # p
  <2>1. p \in Garbage /\ \A q \in kept : q \in Obj \ Garbage
        BY <1>1
  <2>2. QED
        BY <2>1, GarbageOwned
<1>4. Lent(frames, o) = 0
  <2>1. CASE o \in Free
        BY <2>1, FreeBlank, Unowned
  <2>2. CASE o \in dead
        BY <2>2, <1>3
  <2>3. QED
        BY <1>1, <2>1, <2>2
<1>5. obj' \in [Obj -> Object] /\ Fitting(obj')
  <2>1. obj' \in [Obj -> Object]
        BY <1>1, BlankObject DEF OwnInv, Typed, Fitting
  <2>2. Len(v.image) = 0 /\ Len(Blank.image) = 0 /\ StackCap \in Nat
        BY BlankHollow, MachineAssumption DEF Hollow
  <2>3. ASSUME NEW p \in Obj
        PROVE  Len(obj'[p].image) <= StackCap
    <3>1. obj'[p] = v \/ obj'[p] = Blank \/ obj'[p] = obj[p]
          BY <1>1
    <3>2. Len(obj[p].image) <= StackCap
          BY DEF OwnInv, Typed, Fitting
    <3>3. QED
          BY <2>2, <3>1, <3>2
  <2>4. QED
        BY <2>1, <2>3 DEF Fitting
<1>6. ASSUME NEW p \in Obj
      PROVE  /\ Cells(obj, Obj, p) = Cells(obj, dead, p) + Cells(obj, kept, p)
             /\ Cells(obj', Obj, p) = Cells(obj, kept, p)
             /\ Cells(obj, dead, p) \in Nat /\ Cells(obj, kept, p) \in Nat
             /\ HeldBy(dead, p) = Cells(obj, dead, p)
  <2>1. Cells(obj, dead, p) \in Nat /\ Cells(obj, kept, p) \in Nat
        BY <1>2, CellsType
  <2>2. Cells(obj, Obj, p) = Cells(obj, gone, p) + Cells(obj, kept, p)
        BY <1>2, CellsSplit
  <2>3. Cells(obj, gone, p) = Cells(obj, dead, p) + Cells(obj, gone \ dead, p)
        BY <1>2, CellsSplit
  <2>4. Cells(obj, gone \ dead, p) = 0
    <3>1. ASSUME NEW x \in gone \ dead
          PROVE  \A k \in DOMAIN Fields(obj[x]) : Fields(obj[x])[k] # p
      <4>1. x \in Free
            BY <1>1
      <4>2. obj[x] = Blank
            BY <4>1, FreeBlank
      <4>3. QED
            BY <4>2, BlankHollow, HollowFields
    <3>2. QED
          BY <3>1, CellsNone
  <2>5. Cells(obj', Obj, p) = Cells(obj', gone, p) + Cells(obj', kept, p)
        BY <1>2, CellsSplit
  <2>6. Cells(obj', gone, p) = 0
    <3>1. ASSUME NEW x \in gone
          PROVE  \A k \in DOMAIN Fields(obj'[x]) : Fields(obj'[x])[k] # p
      <4>1. obj'[x] = v \/ obj'[x] = Blank
            BY <1>1, <1>2
      <4>2. QED
            BY <4>1, BlankHollow, HollowFields
    <3>2. QED
          BY <3>1, CellsNone
  <2>7. Cells(obj', kept, p) = Cells(obj, kept, p)
    <3>1. \A x \in kept : obj'[x] = obj[x]
          BY <1>1
    <3> HIDE DEF kept
    <3>2. QED
          BY <3>1, CellsSame
  <2>8. HeldBy(dead, p) = Cells(obj, dead, p)
        BY DEF HeldBy, Cells, CellsOf
  <2> DEFINE a == Cells(obj, dead, p)
             b == Cells(obj, kept, p)
  <2>9. /\ a \in Nat /\ b \in Nat /\ Cells(obj, Obj, p) = a + 0 + b
        /\ Cells(obj', Obj, p) = 0 + b
        BY <2>1, <2>2, <2>3, <2>4, <2>5, <2>6, <2>7, Zenon
  <2> HIDE DEF a, b
  <2>10. a + 0 + b = a + b /\ 0 + b = b
        BY <2>9
  <2>11. QED
        BY <2>1, <2>8, <2>9, <2>10, Zenon DEF a, b
<1>7. ASSUME NEW p \in Obj
      PROVE  /\ rc[p] \in Nat /\ Cells(obj, Obj, p) \in Nat /\ rc[p] >= Cells(obj, Obj, p)
             /\ Lent(frames, p) \in Nat
  <2>1. Summed(p) /\ rc[p] >= Owners(p)
        BY OwnersSum DEF OwnInv, Counted, AllSummed
  <2> DEFINE a == Cells(obj, Obj, p)
             b == Count(stack, p)
             c == todo[p]
             d == Is(global, p)
             e == Called(frames, p)
             f == Lent(frames, p)
             r == rc[p]
  <2>2. /\ a \in Nat /\ b \in Nat /\ c \in Nat /\ d \in Nat /\ e \in Nat /\ f \in Nat /\ r \in Nat
        /\ Owners(p) = a + b + c + d + e + f /\ r >= Owners(p)
        BY <2>1, Zenon DEF Summed
  <2> HIDE DEF a, b, c, d, e, f, r
  <2>3. r >= a
        BY <2>2
  <2>4. QED
        BY <2>2, <2>3 DEF a, f, r
<1>8. ASSUME NEW p \in Obj
      PROVE  rc'[p] = IF p = o THEN 1 ELSE IF p \in dead THEN 0 ELSE rc[p] - Cells(obj, dead, p)
      BY <1>1, <1>6
<1>9. ASSUME NEW p \in Obj
      PROVE  rc'[p] \in Nat /\ (p # o => rc'[p] <= rc[p])
  <2>1. CASE p = o
        BY <1>8, <2>1
  <2>2. CASE p # o /\ p \in dead
        BY <1>7, <1>8, <2>2
  <2>3. CASE p # o /\ p \notin dead
    <3>1. rc'[p] = rc[p] - Cells(obj, dead, p)
          BY <1>8, <2>3
    <3>2. /\ Cells(obj, Obj, p) = Cells(obj, dead, p) + Cells(obj, kept, p)
          /\ Cells(obj, dead, p) \in Nat /\ Cells(obj, kept, p) \in Nat
          BY <1>6
    <3>3. rc[p] \in Nat /\ rc[p] >= Cells(obj, Obj, p)
          BY <1>7
    <3> HIDE DEF kept
    <3>4. QED
          BY <3>1, <3>2, <3>3
  <2>4. QED
        BY <2>1, <2>2, <2>3
<1>10. rc' \in [Obj -> Nat]
  <2>1. DOMAIN rc' = Obj /\ rc' = [p \in Obj |-> rc'[p]]
        BY <1>1
  <2>2. QED
        BY <1>9, <2>1
<1>11. ASSUME NEW p \in dead
       PROVE  rc[p] = Cells(obj, dead, p) /\ Cells(obj, kept, p) = 0
  <2>1. Cells(obj, kept, p) = 0
        BY <1>3, CellsNone
  <2>2. p \in Obj /\ rc[p] = Cells(obj, Obj, p)
        BY <1>3
  <2>3. Cells(obj, Obj, p) = Cells(obj, dead, p) + Cells(obj, kept, p) /\ Cells(obj, dead, p) \in Nat
        BY <1>6, <2>2
  <2> HIDE DEF kept
  <2>4. QED
        BY <2>1, <2>2, <2>3
<1>12. ASSUME NEW p \in Obj
       PROVE  rc'[p] + Cells(obj, Obj, p) = rc[p] + Cells(obj', Obj, p) + Is(o, p)
  <2>1. /\ Cells(obj, Obj, p) = Cells(obj, dead, p) + Cells(obj, kept, p)
        /\ Cells(obj', Obj, p) = Cells(obj, kept, p)
        /\ Cells(obj, dead, p) \in Nat /\ Cells(obj, kept, p) \in Nat /\ rc[p] \in Nat
        BY <1>6, <1>7
  <2>2. CASE p = o
    <3>1. rc'[p] = 1 /\ Is(o, p) = 1
          BY <1>8, <2>2, IsType
    <3>2. rc[p] = Cells(obj, Obj, p)
      <4>1. CASE p \in Free
            BY <4>1, FreeBlank, Unowned
      <4>2. CASE p \in dead
            BY <4>2, <1>3
      <4>3. QED
            BY <1>1, <2>2, <4>1, <4>2
    <3>3. Cells(obj, kept, p) = 0
      <4>1. CASE p \in Free
        <5>1. Cells(obj, Obj, p) = 0
              BY <4>1, FreeBlank, Unowned
        <5> HIDE DEF kept
        <5>2. QED
              BY <2>1, <5>1
      <4>2. CASE p \in dead
            BY <4>2, <1>11
      <4>3. QED
            BY <1>1, <2>2, <4>1, <4>2
    <3> HIDE DEF kept
    <3>4. QED
          BY <2>1, <3>1, <3>2, <3>3
  <2>3. CASE p # o /\ p \in dead
    <3>1. rc'[p] = 0 /\ Is(o, p) = 0
          BY <1>8, <2>3, IsType
    <3>2. rc[p] = Cells(obj, dead, p) /\ Cells(obj, kept, p) = 0
          BY <2>3, <1>11
    <3> HIDE DEF kept
    <3>3. QED
          BY <2>1, <3>1, <3>2
  <2>4. CASE p # o /\ p \notin dead
    <3>1. rc'[p] = rc[p] - Cells(obj, dead, p) /\ Is(o, p) = 0
          BY <1>8, <2>4, IsType
    <3> HIDE DEF kept
    <3>2. QED
          BY <2>1, <3>1
  <2>5. QED
        BY <2>2, <2>3, <2>4
<1>13. ASSUME NEW p \in Obj
       PROVE  Sound(obj'[p], rc'[p]) /\ Lending(obj'[p], Lent(frames, p))
  <2>1. CASE p = o
    <3>1. obj'[p] = v
          BY <1>1, <2>1
    <3>2. Sound(v, rc'[p]) /\ Lending(v, 0)
          BY DEF Sound, Lending, Hollow
    <3>3. QED
          BY <1>4, <2>1, <3>1, <3>2
  <2>2. CASE p # o /\ p \in dead
    <3>1. obj'[p] = Blank /\ rc'[p] = 0 /\ Lent(frames, p) = 0
          BY <1>1, <1>3, <2>2
    <3>2. QED
          BY <3>1, BlankHollow
  <2>3. CASE p # o /\ p \notin dead
    <3>1. obj'[p] = obj[p]
          BY <1>1, <2>3
    <3>2. Sound(obj[p], rc[p]) /\ Lending(obj[p], Lent(frames, p))
          BY DEF OwnInv, Counted
    <3>3. rc[p] = 0 => rc'[p] = 0
          BY <1>9, <2>3
    <3>4. QED
          BY <3>1, <3>2, <3>3 DEF Sound
  <2>4. QED
        BY <2>1, <2>2, <2>3
<1>14. obj'[o] = v
       BY <1>1
<1>15. QED
       BY <1>4, <1>5, <1>10, <1>12, <1>13, <1>14 DEF Allocated

\* The invariant, part by part.
LEMMA OwnNext ==
    ASSUME OwnInv, Typed', Short', Covers,
           \A p \in Obj : Sound(obj'[p], rc'[p]) /\ Lending(obj'[p], Lent(frames', p))
    PROVE  OwnInv'
<1>1. \A p \in Obj : rc'[p] >= Owners(p)'
      BY CoversOwned
<1>2. \A p \in Obj : Counted(p)'
      BY <1>1 DEF Counted
<1>3. QED
      BY <1>2 DEF OwnInv

\* An allocation whose address is put where one reference more is counted.
LEMMA AllocTyped ==
    ASSUME FrameInv', todo' \in [Obj -> Nat], NEW o, NEW v, Allocated(o, v)
    PROVE  Typed'
BY DEF Typed, Allocated

LEMMA AllocExact ==
    ASSUME OwnInv, FrameInv', Short', todo' \in [Obj -> Nat], NEW o \in Obj, NEW v, Allocated(o, v),
           \A p \in Obj : Lending(obj'[p], Lent(frames', p)),
           \A p \in Obj : Outside(stack', todo', global', frames', p)
                              = Outside(stack, todo, global, frames, p) + Is(o, p)
    PROVE  OwnInv' /\ Exact
<1>1. Typed' /\ Typed
      BY AllocTyped DEF OwnInv
<1>2. ASSUME NEW p \in Obj
      PROVE  rc'[p] + Cells(obj, Obj, p) + Outside(stack, todo, global, frames, p)
                 = rc[p] + Cells(obj', Obj, p) + Outside(stack', todo', global', frames', p)
  <2>1. rc'[p] + Cells(obj, Obj, p) = rc[p] + Cells(obj', Obj, p) + Is(o, p)
        BY DEF Allocated
  <2>2. /\ rc[p] \in Nat /\ rc'[p] \in Nat /\ Cells(obj, Obj, p) \in Nat /\ Cells(obj', Obj, p) \in Nat
        /\ Outside(stack, todo, global, frames, p) \in Nat /\ Is(o, p) \in Nat
        BY <1>1, OutsideTerms, OutsideTermsNext, OutsideType, IsType
  <2>3. Outside(stack', todo', global', frames', p) = Outside(stack, todo, global, frames, p) + Is(o, p)
        OBVIOUS
  <2>4. QED
        BY <2>1, <2>2, <2>3
<1>3. Exact
      BY <1>1, <1>2, ExactFrom
<1>4. Covers
      BY <1>1, <1>3, ExactCovers
<1>5. \A p \in Obj : Sound(obj'[p], rc'[p])
      BY DEF Allocated
<1>6. QED
      BY <1>1, <1>3, <1>4, <1>5, OwnNext

LEMMA AllocCovers ==
    ASSUME OwnInv, FrameInv', Short', todo' \in [Obj -> Nat], NEW o \in Obj, NEW v, Allocated(o, v),
           \A p \in Obj : Lending(obj'[p], Lent(frames', p)),
           \A p \in Obj : Outside(stack', todo', global', frames', p)
                              <= Outside(stack, todo, global, frames, p) + Is(o, p)
    PROVE  OwnInv'
<1>1. Typed' /\ Typed
      BY AllocTyped DEF OwnInv
<1>2. ASSUME NEW p \in Obj
      PROVE  rc'[p] + Cells(obj, Obj, p) + Outside(stack, todo, global, frames, p)
                 >= rc[p] + Cells(obj', Obj, p) + Outside(stack', todo', global', frames', p)
  <2>1. rc'[p] + Cells(obj, Obj, p) = rc[p] + Cells(obj', Obj, p) + Is(o, p)
        BY DEF Allocated
  <2>2. /\ rc[p] \in Nat /\ rc'[p] \in Nat /\ Cells(obj, Obj, p) \in Nat /\ Cells(obj', Obj, p) \in Nat
        /\ Outside(stack, todo, global, frames, p) \in Nat /\ Is(o, p) \in Nat
        /\ Outside(stack', todo', global', frames', p) \in Nat
        BY <1>1, OutsideTerms, OutsideTermsNext, OutsideType, IsType
  <2>3. Outside(stack', todo', global', frames', p) <= Outside(stack, todo, global, frames, p) + Is(o, p)
        OBVIOUS
  <2>4. QED
        BY <2>1, <2>2, <2>3
<1>3. Covers
      BY <1>1, <1>2, CoversFrom
<1>4. \A p \in Obj : Sound(obj'[p], rc'[p])
      BY DEF Allocated
<1>5. QED
      BY <1>1, <1>3, <1>4, OwnNext

\* CLOSURE_NEW.
LEMMA ClosureNewOwn ==
    ASSUME OwnInv, NEW f \in Fn, NEW o \in Obj, ClosureNew(f, o)
    PROVE  OwnInv' /\ Exact
<1> DEFINE v == [Blank EXCEPT !.kind = "closure", !.fn = f]
<1>1. /\ v \in Object /\ Hollow(v) /\ v.kind # "free" /\ v.returns <= 1 /\ v.done = FALSE
  <2>1. v \in Object
        BY BlankObject DEF Object, Blank
  <2>2. Hollow(v) /\ v.kind # "free" /\ v.returns <= 1 /\ v.done = FALSE
        BY DEF Blank, Hollow
  <2>3. QED
        BY <2>1, <2>2
<1>2. /\ Alloc(o, v) /\ stack' = Append(stack, o) /\ UNCHANGED <<frames, global, todo>>
      BY DEF ClosureNew, Push
<1> HIDE DEF v
<1>3. Allocated(o, v)
      BY <1>1, <1>2, AllocOwn
<1>4. FrameInv /\ FrameInv' /\ todo' \in [Obj -> Nat] /\ o \in Value
      BY <1>2, ClosureNewInv DEF OwnInv, Typed, Value
<1>5. Short'
      BY <1>2 DEF OwnInv, Short
<1>6. \A p \in Obj : Lending(obj'[p], Lent(frames', p))
      BY <1>2, <1>3 DEF Allocated
<1>7. ASSUME NEW p \in Obj
      PROVE  Outside(stack', todo', global', frames', p)
                 = Outside(stack, todo, global, frames, p) + Is(o, p)
  <2>1. Count(stack', p) = Count(stack, p) + Is(o, p)
        BY <1>2, <1>4, PushCounts
  <2>2. /\ Count(stack, p) \in Nat /\ todo[p] \in Nat /\ Is(global, p) \in Nat
        /\ Called(frames, p) \in Nat /\ Lent(frames, p) \in Nat /\ Is(o, p) \in Nat
        BY OutsideTerms, IsType DEF OwnInv
  <2>3. global' = global /\ todo' = todo /\ frames' = frames
        BY <1>2
  <2>4. QED
        BY <2>1, <2>2, <2>3 DEF Outside
<1>8. QED
      BY <1>3, <1>4, <1>5, <1>6, <1>7, AllocExact

\* CALL of a function that yields.
LEMMA CallCoroutineOwn ==
    ASSUME OwnInv, NEW f \in Fn, NEW o \in Obj, CallCoroutine(f, o)
    PROVE  OwnInv' /\ Exact
<1> DEFINE v == [Blank EXCEPT !.kind = "coroutine"]
           ref == Last(stack)
<1>1. /\ v \in Object /\ Hollow(v) /\ v.kind # "free" /\ v.returns <= 1 /\ v.done = FALSE
  <2>1. v \in Object
        BY BlankObject DEF Object, Blank
  <2>2. Hollow(v) /\ v.kind # "free" /\ v.returns <= 1 /\ v.done = FALSE
        BY DEF Blank, Hollow
  <2>3. QED
        BY <2>1, <2>2
<1>2. /\ FrameInv /\ FrameInv' /\ Alloc(o, v) /\ Pushed(f, ref, o, 1) /\ UNCHANGED <<global, todo>>
      /\ ref \in Obj /\ Consumed(ref, 1)
      BY CallCoroutineInv, CalleeTyped DEF OwnInv, Typed, CallCoroutine, Consumed
<1> HIDE DEF v, ref
<1>3. Allocated(o, v)
      BY <1>1, <1>2, AllocOwn
<1>4. todo' \in [Obj -> Nat]
      BY <1>2 DEF OwnInv, Typed
<1>5. /\ Short'
      /\ \A p \in Obj : /\ Count(stack', p) + Is(ref, p) = Count(stack, p)
                        /\ Called(frames', p) = Called(frames, p) + Is(ref, p)
                        /\ Lent(frames', p) = Lent(frames, p) + Is(o, p)
  <2>1. ref \in Obj \cup {None} /\ o \in Obj \cup {None}
        BY <1>2
  <2>2. QED
        BY <1>2, <2>1, PushedCounts
<1>6. ASSUME NEW p \in Obj
      PROVE  Lending(obj'[p], Lent(frames', p))
  <2>1. Lent(frames', p) = Lent(frames, p) + Is(o, p) /\ Lent(frames, p) \in Nat
        BY <1>5, OutsideTerms DEF OwnInv
  <2>2. CASE p = o
    <3>1. Is(o, p) = 1 /\ Lent(frames, p) = 0 /\ obj'[p] = v
          BY <1>3, <2>2, IsType DEF Allocated
    <3>2. Lending(v, 1)
          BY <1>1 DEF Hollow, Lending
    <3>3. QED
          BY <2>1, <3>1, <3>2
  <2>3. CASE p # o
    <3>1. Is(o, p) = 0 /\ Lending(obj'[p], Lent(frames, p))
          BY <1>3, <2>3, IsType DEF Allocated
    <3>2. Lent(frames', p) = Lent(frames, p)
          BY <2>1, <3>1
    <3>3. QED
          BY <3>1, <3>2, Zenon
  <2>4. QED
        BY <2>2, <2>3
<1>7. Typed'
      BY <1>2, <1>3, <1>4, AllocTyped
<1>8. ASSUME NEW p \in Obj
      PROVE  Outside(stack', todo', global', frames', p)
                 = Outside(stack, todo, global, frames, p) + Is(o, p)
  <2>1. /\ Count(stack, p) \in Nat /\ todo[p] \in Nat /\ Is(global, p) \in Nat
        /\ Called(frames, p) \in Nat /\ Lent(frames, p) \in Nat /\ Is(o, p) \in Nat /\ Is(ref, p) \in Nat
        BY OutsideTerms, IsType DEF OwnInv
  <2>2. Count(stack', p) \in Nat
        BY <1>7, OutsideTermsNext
  <2>3. /\ Count(stack', p) + Is(ref, p) = Count(stack, p)
        /\ Called(frames', p) = Called(frames, p) + Is(ref, p)
        /\ Lent(frames', p) = Lent(frames, p) + Is(o, p)
        BY <1>5
  <2>4. global' = global /\ todo' = todo
        BY <1>2
  <2>5. QED
        BY <2>1, <2>2, <2>3, <2>4 DEF Outside
<1>9. QED
      BY <1>2, <1>3, <1>4, <1>5, <1>6, <1>8, AllocExact

\* handle, with m operands off the stack: they are lost, and nothing else.
LEMMA TrappedOwn ==
    ASSUME OwnInv, Running, NEW m \in Nat, Operands(m), NEW top \in Nat, top <= Len(frames),
           Trapped(Height - m, top)
    PROVE  OwnInv' /\ (m = 0 /\ status' # "failed" => Exact)
<1> DEFINE S == Covering(top)
           k == Innermost(S)
           n == Height - m
           v == [Blank EXCEPT !.kind = "error"]
<1>1. \/ Fail(Height - m)
      \/ Panic
      \/ /\ S # {} /\ Base(k) < StackCap
         /\ \E o \in Obj : Alloc(o, v) /\ Land(k, n, o)
         /\ UNCHANGED <<global, status>>
      BY Zenon DEF Trapped
<1>2. FrameInv /\ FrameInv'
      BY TrappedInv DEF OwnInv, Typed
<1>3. ASSUME Fail(Height - m)
      PROVE  OwnInv' /\ status' = "failed"
      BY <1>3, FailOwn DEF Fail
<1>4. ASSUME Panic
      PROVE  OwnInv' /\ Exact
      BY <1>4, StatusOwn
<1>5. ASSUME S # {}, Base(k) < StackCap, NEW o \in Obj, Alloc(o, v), Land(k, n, o), UNCHANGED global
      PROVE  OwnInv' /\ (m = 0 => Exact)
  <2>1. k \in 1 .. Len(frames) /\ frames[k].region # NoRegion
        BY <1>2, <1>5, CoveringSome
  <2> HIDE DEF k, S
  <2>2. Base(k) \in Nat /\ Base(k) <= Floor(Top) /\ Floor(Top) \in Nat
        BY <1>2, <2>1, BaseBelow
  <2>3. n \in Nat /\ n <= Height /\ Floor(Top) <= n
        BY <1>2, Popped
  <2>4. o \in Value /\ stack \in Seq(Value) /\ Height = Len(stack)
        BY <1>2 DEF Value, FrameInv, Height
  <2>5. Base(k) <= n
        BY <2>2, <2>3
  <2>6. Land(k, n, o)
        BY <1>5
  <2>7. Allocated(o, v)
    <3>1. v \in Object
          BY BlankObject DEF Object, Blank
    <3>2. Hollow(v) /\ v.kind # "free" /\ v.returns <= 1 /\ v.done = FALSE
          BY DEF Blank, Hollow
    <3>3. Alloc(o, v)
          BY <1>5
    <3> HIDE DEF v
    <3>4. QED
          BY <3>1, <3>2, <3>3, AllocOwn
  <2>8. m = 0 => n = Len(stack)
        BY <2>4, <1>2, Shape
  <2> HIDE DEF n, v
  <2>9. /\ Short' /\ todo' \in [Obj -> Nat]
        /\ \A p \in Obj :
              /\ Lent(frames', p) <= Lent(frames, p)
              /\ Count(stack', p) + todo'[p] + Called(frames', p) + Lent(frames', p)
                     = Count(SubSeq(stack, 1, n), p) + Is(o, p) + Called(frames, p) + Lent(frames, p)
        BY <2>1, <2>3, <2>4, <2>5, <2>6, LandCounts
  <2>10. Typed'
        BY <1>2, <2>7, <2>9, AllocTyped
  <2>11. ASSUME NEW p \in Obj
         PROVE  Lending(obj'[p], Lent(frames', p))
    <3>1. Lent(frames, p) \in Nat /\ Lent(frames', p) \in Nat
          BY <2>10, OutsideTerms, OutsideTermsNext DEF OwnInv
    <3>2. Lending(obj'[p], Lent(frames, p))
          BY <2>7 DEF Allocated
    <3>3. Lent(frames', p) <= Lent(frames, p)
          BY <2>9
    <3>4. QED
          BY <3>1, <3>2, <3>3, LendingLess
  <2>12. ASSUME NEW p \in Obj
         PROVE  /\ Count(SubSeq(stack, 1, n), p) <= Count(stack, p)
                /\ m = 0 => Count(SubSeq(stack, 1, n), p) = Count(stack, p)
                /\ Count(SubSeq(stack, 1, n), p) \in Nat
    <3>1. n <= Len(stack)
          BY <2>3, <2>4
    <3>2. /\ Count(stack, p) = Count(SubSeq(stack, 1, n), p) + Count(SubSeq(stack, n + 1, Len(stack)), p)
          /\ Count(SubSeq(stack, 1, n), p) \in Nat /\ Count(SubSeq(stack, n + 1, Len(stack)), p) \in Nat
          BY <2>3, <2>4, <3>1, CountParts
    <3>3. m = 0 => SubSeq(stack, 1, n) = stack
          BY <2>4, <2>8, SubSeqFull
    <3> DEFINE a == Count(SubSeq(stack, 1, n), p)
               b == Count(SubSeq(stack, n + 1, Len(stack)), p)
    <3>4. Count(stack, p) = a + b /\ a \in Nat /\ b \in Nat /\ (m = 0 => Count(stack, p) = a)
          BY <3>2, <3>3, Zenon
    <3> HIDE DEF a, b
    <3>5. a <= Count(stack, p)
          BY <3>4
    <3>6. QED
          BY <3>4, <3>5, Zenon DEF a
  <2>13. ASSUME NEW p \in Obj
         PROVE  /\ Outside(stack', todo', global', frames', p)
                       <= Outside(stack, todo, global, frames, p) + Is(o, p)
                /\ m = 0 => Outside(stack', todo', global', frames', p)
                                = Outside(stack, todo, global, frames, p) + Is(o, p)
    <3>1. /\ Count(stack, p) \in Nat /\ todo[p] = 0 /\ Is(global, p) \in Nat
          /\ Called(frames, p) \in Nat /\ Lent(frames, p) \in Nat /\ Is(o, p) \in Nat
          BY OutsideTerms, NothingLeft, IsType DEF OwnInv
    <3>2. /\ Count(stack', p) \in Nat /\ todo'[p] \in Nat
          /\ Called(frames', p) \in Nat /\ Lent(frames', p) \in Nat
          BY <2>10, OutsideTermsNext
    <3>3. global' = global
          BY <1>5
    <3> DEFINE a == Count(SubSeq(stack, 1, n), p)
               s == Count(stack, p)
               g == Is(global, p)
               c == Called(frames, p)
               l == Lent(frames, p)
               x == Is(o, p)
               s2 == Count(stack', p)
               t2 == todo'[p]
               c2 == Called(frames', p)
               l2 == Lent(frames', p)
    <3>4. /\ s2 + t2 + c2 + l2 = a + x + c + l /\ a \in Nat /\ a <= s /\ (m = 0 => a = s)
          /\ s \in Nat /\ g \in Nat /\ c \in Nat /\ l \in Nat /\ x \in Nat
          /\ s2 \in Nat /\ t2 \in Nat /\ c2 \in Nat /\ l2 \in Nat
          BY <2>9, <2>12, <3>1, <3>2, Zenon
    <3>5. /\ Outside(stack', todo', global', frames', p) = s2 + t2 + g + c2 + l2
          /\ Outside(stack, todo, global, frames, p) + Is(o, p) = (s + 0 + g + c + l) + x
          BY <3>1, <3>3, Zenon DEF Outside
    <3> HIDE DEF a, s, g, c, l, x, s2, t2, c2, l2
    <3>6. /\ s2 + t2 + g + c2 + l2 <= (s + 0 + g + c + l) + x
          /\ m = 0 => s2 + t2 + g + c2 + l2 = (s + 0 + g + c + l) + x
          BY <3>4
    <3>7. QED
          BY <3>5, <3>6, Zenon
  <2>14. OwnInv'
        BY <1>2, <2>7, <2>9, <2>11, <2>13, AllocCovers
  <2>15. m = 0 => Exact
        BY <1>2, <2>7, <2>9, <2>11, <2>13, AllocExact
  <2>16. QED
        BY <2>14, <2>15
<1>6. QED
      BY <1>1, <1>3, <1>4, <1>5, Zenon

\* Traps, the one at the end of a region included.
LEMMA TrapOwn ==
    ASSUME OwnInv, Trap \/ Unreachable
    PROVE  OwnInv' /\ (status' # "failed" => Exact)
<1>1. Running /\ (Trapped(Height - 0, Len(frames)) \/ Trapped(Height - 0, Len(frames) - 1))
      BY NoOperand DEF OwnInv, Typed, Trap, Unreachable
<1>2. /\ 0 \in Nat /\ Operands(0) /\ Len(frames) \in Nat /\ Len(frames) <= Len(frames)
      /\ Len(frames) - 1 \in Nat /\ Len(frames) - 1 <= Len(frames)
      BY NoOperand DEF OwnInv, Typed
<1>3. CASE Trapped(Height - 0, Len(frames))
      BY <1>1, <1>2, <1>3, TrappedOwn
<1>4. CASE Trapped(Height - 0, Len(frames) - 1)
      BY <1>1, <1>2, <1>4, TrappedOwn
<1>5. QED
      BY <1>1, <1>3, <1>4

\* RESUME of an image that does not fit: the counts of both operands are lost.
LEMMA ResumeOverflowOwn ==
    ASSUME OwnInv, NEW o \in Obj, ResumeOverflow(o)
    PROVE  OwnInv'
<1>1. Running /\ Operands(2) /\ Trapped(Height - 2, Len(frames)) /\ 2 \in Nat
      BY DEF ResumeOverflow, Resumable
<1>2. Len(frames) \in Nat /\ Len(frames) <= Len(frames)
      BY NoOperand DEF OwnInv, Typed
<1>3. QED
      BY <1>1, <1>2, TrappedOwn

-----------------------------------------------------------------------------
(***************************************************************************)
(* Suspension and resumption write a coroutine.                            *)
(***************************************************************************)
Written(c, v) ==
    /\ c \in Obj /\ v \in Object /\ obj' = [obj EXCEPT ![c] = v] /\ rc' = rc /\ global' = global
    /\ Len(v.image) <= StackCap /\ v.returns <= 1 /\ v.kind = obj[c].kind /\ obj[c].kind # "free"
    /\ Lending(v, Lent(frames', c))
    /\ \A p \in Obj : p # c => Lent(frames', p) = Lent(frames, p)

\* What the instruction puts in the coroutine it takes elsewhere.
Balanced(c, v) ==
    \A o \in Obj : Count(Fields(v), o) + Outside(stack', todo', global', frames', o)
                       = Count(Fields(obj[c]), o) + Outside(stack, todo, global, frames, o)

LEMMA StoreExact ==
    ASSUME OwnInv, FrameInv', Short', todo' \in [Obj -> Nat], NEW c, NEW v, Written(c, v),
           Balanced(c, v)
    PROVE  OwnInv' /\ Exact
<1>1. /\ c \in Obj /\ v \in Object /\ obj' = [obj EXCEPT ![c] = v] /\ rc' = rc
      /\ Fitting(obj) /\ rc \in [Obj -> Nat] /\ Typed
      BY DEF Written, OwnInv, Typed
<1>2. obj'[c] = v /\ \A x \in Obj \ {c} : obj'[x] = obj[x]
      BY <1>1 DEF Fitting
<1>3. Fitting(obj')
  <2>1. obj' \in [Obj -> Object]
        BY <1>1 DEF Fitting
  <2>2. \A x \in Obj : Len(obj'[x].image) <= StackCap
        BY <1>1, <1>2 DEF Fitting, Written
  <2>3. QED
        BY <2>1, <2>2 DEF Fitting
<1>4. Typed'
      BY <1>1, <1>3, TypedNext
<1> DEFINE h == obj
           g == obj'
<1>4a. /\ Fitting(h) /\ Fitting(g) /\ Obj \in SUBSET Obj /\ c \in Obj
       /\ \A x \in Obj \ {c} : g[x] = h[x]
       BY <1>1, <1>2, <1>3
<1> HIDE DEF h, g
<1>4b. \A o \in Obj : Cells(g, Obj, o) + Count(Fields(h[c]), o) = Cells(h, Obj, o) + Count(Fields(g[c]), o)
       BY <1>4a, CellsUpdate
<1>5. ASSUME NEW o \in Obj
      PROVE  rc'[o] + Cells(obj, Obj, o) + Outside(stack, todo, global, frames, o)
                 = rc[o] + Cells(obj', Obj, o) + Outside(stack', todo', global', frames', o)
  <2> DEFINE here == Count(Fields(obj[c]), o)
             there == Count(Fields(v), o)
             out == Outside(stack, todo, global, frames, o)
             out2 == Outside(stack', todo', global', frames', o)
             in == Cells(obj, Obj, o)
             in2 == Cells(obj', Obj, o)
  <2>1. in2 + here = in + there
    <3>1. Cells(obj', Obj, o) + Count(Fields(obj[c]), o) = Cells(obj, Obj, o) + Count(Fields(obj'[c]), o)
          BY <1>4b DEF h, g
    <3>2. QED
          BY <1>2, <3>1, Zenon
  <2>2. there + out2 = here + out
        BY Zenon DEF Balanced
  <2>3. here \in Nat /\ there \in Nat
    <3>1. obj[c] \in Object
          BY <1>1 DEF Fitting
    <3>2. QED
          BY <1>1, <3>1, FieldsSeq
  <2>4. out \in Nat /\ out2 \in Nat /\ in \in Nat /\ in2 \in Nat /\ rc[o] \in Nat /\ rc'[o] = rc[o]
    <3>1. out \in Nat /\ out2 \in Nat
          BY <1>1, <1>4, OutsideType
    <3>2. in \in Nat /\ in2 \in Nat /\ rc[o] \in Nat
          BY <1>1, <1>4, OutsideTerms, OutsideTermsNext
    <3>3. QED
          BY <1>1, <3>1, <3>2
  <2> HIDE DEF here, there, out, out2, in, in2
  <2>5. rc'[o] + in + out = rc[o] + in2 + out2
        BY <2>1, <2>2, <2>3, <2>4
  <2>6. QED
        BY <2>5 DEF out, out2, in, in2
<1>6. Exact
      BY <1>4, <1>5, ExactFrom
<1>7. Covers
      BY <1>4, <1>6, ExactCovers
<1>8. ASSUME NEW p \in Obj
      PROVE  Sound(obj'[p], rc'[p]) /\ Lending(obj'[p], Lent(frames', p))
  <2>1. CASE p = c
        BY <1>2, <2>1 DEF Written, Sound
  <2>2. CASE p # c
    <3>1. obj'[p] = obj[p] /\ rc'[p] = rc[p] /\ Lent(frames', p) = Lent(frames, p)
          BY <1>1, <1>2, <2>2 DEF Written
    <3>2. Sound(obj[p], rc[p]) /\ Lending(obj[p], Lent(frames, p))
          BY DEF OwnInv, Counted
    <3>3. QED
          BY <3>1, <3>2, Zenon
  <2>3. QED
        BY <2>1, <2>2
<1>9. QED
      BY <1>4, <1>6, <1>7, <1>8, OwnNext

\* The coroutine of the current frame holds nothing, and is in no other frame.
LEMMA LentTop ==
    ASSUME OwnInv, Len(frames) > 1, Top.coro # None
    PROVE  LET c == Top.coro
           IN  /\ c \in Obj /\ obj[c] \in Object /\ obj[c].kind # "free" /\ Hollow(obj[c])
               /\ obj[c].done = FALSE /\ obj[c].returns <= 1
               /\ Lent(Front(frames), c) = 0 /\ Front(frames) \in Seq(Frame)
               /\ \A p \in Obj : p # c => Lent(Front(frames), p) = Lent(frames, p)
               /\ \A p \in Obj : Lent(frames, p) = Lent(Front(frames), p) + Is(c, p)
               /\ \A p \in Obj : Called(frames, p) = Called(Front(frames), p) + Is(Top.ref, p)
<1> DEFINE c == Top.coro
<1>1. /\ c \in Obj /\ frames \in Seq(Frame) /\ Len(frames) >= 1 /\ obj[c] \in Object
  <2>1. Top \in Frame /\ frames \in Seq(Frame) /\ Len(frames) >= 1
        BY Shape DEF OwnInv, Typed, FrameInv
  <2>2. c \in Obj
        BY <2>1 DEF Frame
  <2>3. obj[c] \in Object
        BY <2>2 DEF OwnInv, Typed, Fitting
  <2>4. QED
        BY <2>1, <2>2, <2>3
<1>2. \A p \in Obj : /\ Lent(frames, p) = Lent(Front(frames), p) + Is(c, p)
                     /\ Called(frames, p) = Called(Front(frames), p) + Is(Top.ref, p)
      BY <1>1, FramesClosed DEF Top
<1>3. Front(frames) \in Seq(Frame)
      BY <1>1, FramesClosed
<1> HIDE DEF c
<1>4. \A p \in Obj : Lent(frames, p) \in Nat /\ Lent(Front(frames), p) \in Nat
      BY <1>1, <1>3, FrameCounts
<1>5. Is(c, c) = 1 /\ \A p \in Obj : p # c => Is(c, p) = 0
      BY IsType
<1>6. Lending(obj[c], Lent(frames, c)) /\ Sound(obj[c], rc[c])
      BY <1>1 DEF OwnInv, Counted
<1>7. Lent(frames, c) = 1 /\ Lent(Front(frames), c) = 0
  <2>1. Lent(frames, c) <= 1
        BY <1>6 DEF Lending
  <2>2. Lent(frames, c) = Lent(Front(frames), c) + 1
        BY <1>1, <1>2, <1>5
  <2>3. Lent(frames, c) \in Nat /\ Lent(Front(frames), c) \in Nat
        BY <1>1, <1>4
  <2>4. QED
        BY <2>1, <2>2, <2>3
<1>8. Hollow(obj[c]) /\ obj[c].done = FALSE
  <2>1. Lent(frames, c) > 0
        BY <1>7
  <2>2. obj[c].image = <<>> /\ obj[c].ref = None /\ ~obj[c].done /\ obj[c].value = Num
        BY <1>6, <2>1 DEF Lending
  <2>3. obj[c].done \in BOOLEAN
        BY <1>1 DEF Object
  <2>4. QED
        BY <2>2, <2>3 DEF Hollow
<1>9. obj[c].kind # "free"
  <2>1. obj[c].kind = "free" => rc[c] = 0
        BY <1>6 DEF Sound
  <2>2. rc[c] = 0 => Lent(frames, c) = 0
        BY <1>1, Unowned
  <2>3. QED
        BY <1>7, <2>1, <2>2
<1>10. \A p \in Obj : p # c => Lent(Front(frames), p) = Lent(frames, p)
       BY <1>2, <1>4, <1>5
<1>11. obj[c].returns <= 1
       BY <1>6 DEF Sound
<1>12. QED
       BY <1>1, <1>2, <1>3, <1>7, <1>8, <1>9, <1>10, <1>11 DEF c

\* One value is returned at most.
LEMMA ResultCount ==
    ASSUME OwnInv, Returning, NEW o \in Obj
    PROVE  LET val == IF Top.returns > 0 THEN Last(stack) ELSE Num
               res == SubSeq(stack, Height - Top.returns + 1, Height)
           IN  val \in Value /\ Count(res, o) = Is(val, o)
<1> DEFINE r == Top.returns
           n == Height
<1>1. /\ r \in Nat /\ r <= 1
      /\ SubSeq(stack, n - r + 1, n) \in Seq(Value) /\ Len(SubSeq(stack, n - r + 1, n)) = r
      BY ReturnCounts
<1>2. stack \in Seq(Value) /\ n \in Nat /\ n = Len(stack) /\ Top \in Frame
      BY Shape DEF OwnInv, Typed, FrameInv, Height
<1>3. r = 1 => n >= 1
  <2>1. Top.bp \in Nat /\ Top.slots \in Nat /\ n >= Top.bp + Top.slots + r
        BY <1>2 DEF Returning, Frame
  <2> DEFINE b == Top.bp
             s == Top.slots
  <2> HIDE DEF b, s, r, n
  <2>2. b \in Nat /\ s \in Nat /\ n >= b + s + r
        BY <2>1 DEF b, s
  <2>3. QED
        BY <1>1, <1>2, <2>2
<1> HIDE DEF r, n
<1>4. CASE r = 0
  <2>1. SubSeq(stack, n - r + 1, n) = <<>>
        BY <1>1, <1>4
  <2>2. Count(SubSeq(stack, n - r + 1, n), o) = 0
        BY <2>1, CountEmpty, Zenon
  <2>3. ~(r > 0) /\ Num \in Value /\ Is(Num, o) = 0
        BY <1>4, NoReference DEF Value
  <2>4. QED
        BY <2>2, <2>3 DEF r, n
<1>5. CASE r = 1
  <2>1. n - r + 1 = n /\ r > 0 /\ n - 1 \in Nat /\ n - 1 <= Len(stack) /\ (n - 1) + 1 = n
        BY <1>2, <1>3, <1>5
  <2>2. stack # <<>>
        BY <1>2, <1>3, <1>5
  <2>3. /\ Count(stack, o) = Count(Front(stack), o) + Is(Last(stack), o)
        /\ Last(stack) \in Value /\ Front(stack) = SubSeq(stack, 1, n - 1)
        BY <1>2, <2>2, CountLast DEF Front, Is
  <2> DEFINE k == n - 1
  <2>4. k \in Nat /\ k <= Len(stack)
        BY <2>1
  <2>5. /\ Count(stack, o) = Count(SubSeq(stack, 1, k), o) + Count(SubSeq(stack, k + 1, Len(stack)), o)
        /\ Count(SubSeq(stack, 1, k), o) \in Nat /\ Count(SubSeq(stack, k + 1, Len(stack)), o) \in Nat
    <3> HIDE DEF k
    <3>1. QED
          BY <1>2, <2>4, CountParts
  <2>6. SubSeq(stack, n - r + 1, n) = SubSeq(stack, k + 1, Len(stack))
        BY <1>2, <2>1, Zenon
  <2> DEFINE a == Count(SubSeq(stack, 1, k), o)
             b == Count(SubSeq(stack, k + 1, Len(stack)), o)
             c == Is(Last(stack), o)
             d == Count(stack, o)
  <2>7. d = a + c /\ d = a + b /\ a \in Nat /\ b \in Nat /\ c \in Nat
        BY <2>3, <2>5, IsType
  <2> HIDE DEF a, b, c, d
  <2>8. b = c
        BY <2>7
  <2>9. QED
        BY <2>1, <2>3, <2>6, <2>8, Zenon DEF b, c, r, n
<1>6. r = 0 \/ r = 1
      BY <1>1
<1>7. QED
      BY <1>4, <1>5, <1>6

\* RETURN from a coroutine's frame.
LEMMA ReturnCoroutineOwn ==
    ASSUME OwnInv, ReturnCoroutine
    PROVE  OwnInv' /\ Exact
<1> DEFINE c == Top.coro
           low == SubSeq(stack, 1, Top.bp)
           res == SubSeq(stack, Height - Top.returns + 1, Height)
           val == IF Top.returns > 0 THEN Last(stack) ELSE Num
           v == [obj[c] EXCEPT !.value = val, !.done = TRUE, !.image = <<>>, !.ref = None]
<1>1. FrameInv' /\ Running /\ rc' = rc /\ global' = global
      BY ReturnCoroutineInv DEF OwnInv, Typed, ReturnCoroutine
<1>2. /\ Returning /\ Len(frames) > 1 /\ c # None /\ frames' = Front(frames)
      /\ stack' = Append(low, c) /\ obj' = [obj EXCEPT ![c] = v]
      BY DEF Returning, ReturnCoroutine
<1>3. /\ c \in Obj /\ obj[c] \in Object /\ obj[c].kind # "free" /\ Hollow(obj[c])
      /\ obj[c].returns <= 1 /\ Lent(frames', c) = 0
      /\ \A p \in Obj : p # c => Lent(frames', p) = Lent(frames, p)
      BY <1>2, LentTop
<1>4. /\ Short' /\ todo' \in [Obj -> Nat] /\ low \in Seq(Value)
      /\ \A o \in Obj :
            /\ Lent(frames, o) = Lent(frames', o) + Is(c, o)
            /\ Count(low, o) + Count(res, o) + todo'[o] + Called(frames', o)
                   = Count(stack, o) + Called(frames, o)
            /\ Count(low, o) \in Nat /\ Count(res, o) \in Nat /\ todo'[o] \in Nat
            /\ Called(frames', o) \in Nat /\ Lent(frames', o) \in Nat
      BY <1>2, ReturnCounts
<1>5. \A o \in Obj : val \in Value /\ Count(res, o) = Is(val, o)
      BY <1>2, ResultCount
<1> HIDE DEF c, low, res, val
<1>6. val \in Value
      BY <1>3, <1>5
<1>7. /\ v \in Object /\ v.image = <<>> /\ v.value = val /\ v.ref = None /\ v.done = TRUE
      /\ v.kind = obj[c].kind /\ v.returns = obj[c].returns
  <2>1. None \in Obj \cup {None} /\ <<>> \in Seq(Value)
        OBVIOUS
  <2>2. QED
        BY <1>3, <1>6, <2>1 DEF Object
<1> HIDE DEF v
<1>8. Written(c, v)
  <2>1. Len(v.image) <= StackCap
        BY <1>7, MachineAssumption
  <2>2. Lending(v, Lent(frames', c))
        BY <1>3, <1>7 DEF Lending
  <2>3. QED
        BY <1>1, <1>2, <1>3, <1>7, <2>1, <2>2 DEF Written
<1>9. Balanced(c, v)
  <2> SUFFICES ASSUME NEW o \in Obj
               PROVE  Count(Fields(v), o) + Outside(stack', todo', global', frames', o)
                          = Count(Fields(obj[c]), o) + Outside(stack, todo, global, frames, o)
      BY DEF Balanced
  <2>1. Count(Fields(obj[c]), o) = 0
        BY <1>3, HollowFields
  <2>2. Count(Fields(v), o) = Is(val, o)
    <3>1. Count(Fields(v), o) = Count(v.image, o) + Is(v.value, o) + Is(v.ref, o)
          BY <1>7, FieldsSeq
    <3>2. Count(v.image, o) = 0
          BY <1>7, CountEmpty, Zenon
    <3>3. Is(v.ref, o) = 0 /\ Is(v.value, o) = Is(val, o) /\ Is(val, o) \in Nat
          BY <1>7, NoReference, IsType
    <3>4. QED
          BY <3>1, <3>2, <3>3
  <2>3. Count(stack', o) = Count(low, o) + Is(c, o)
    <3>1. c \in Value
          BY <1>3 DEF Value
    <3>2. Count(Append(low, c), o) = Count(low, o) + Is(c, o)
          BY <1>4, <3>1, CountAppend
    <3>3. QED
          BY <1>2, <3>2, Zenon
  <2>4. /\ Lent(frames, o) = Lent(frames', o) + Is(c, o)
        /\ Count(low, o) + Is(val, o) + todo'[o] + Called(frames', o)
               = Count(stack, o) + Called(frames, o)
        /\ Count(low, o) \in Nat /\ todo'[o] \in Nat
        /\ Called(frames', o) \in Nat /\ Lent(frames', o) \in Nat
        BY <1>4, <1>5, Zenon
  <2>5. /\ Count(stack, o) \in Nat /\ Called(frames, o) \in Nat /\ Is(global, o) \in Nat
        /\ Is(c, o) \in Nat /\ Is(val, o) \in Nat /\ todo[o] = 0
        BY <1>1, OutsideTerms, NothingLeft, IsType DEF OwnInv
  <2>6. Outside(stack', todo', global', frames', o)
            = Count(low, o) + Is(c, o) + todo'[o] + Is(global, o) + Called(frames', o) + Lent(frames', o)
        BY <1>1, <2>3, Zenon DEF Outside
  <2>7. Outside(stack, todo, global, frames, o)
            = Count(stack, o) + 0 + Is(global, o) + Called(frames, o) + (Lent(frames', o) + Is(c, o))
        BY <2>4, <2>5, Zenon DEF Outside
  <2> DEFINE w == Count(low, o)
             t == todo'[o]
             s == Count(stack, o)
             a == Called(frames, o)
             b == Called(frames', o)
             l == Lent(frames', o)
             x == Is(c, o)
             y == Is(val, o)
             z == Is(global, o)
  <2>8. /\ w + y + t + b = s + a /\ w \in Nat /\ t \in Nat /\ s \in Nat /\ a \in Nat /\ b \in Nat
        /\ l \in Nat /\ x \in Nat /\ y \in Nat /\ z \in Nat
        BY <2>4, <2>5
  <2> HIDE DEF w, t, s, a, b, l, x, y, z
  <2>9. y + (w + x + t + z + b + l) = 0 + (s + 0 + z + a + (l + x))
        BY <2>8
  <2>10. QED
        BY <2>1, <2>2, <2>6, <2>7, <2>9, Zenon DEF w, t, s, a, b, l, x, y, z
<1>10. QED
       BY <1>1, <1>4, <1>8, <1>9, StoreExact

\* What YIELD saves, and what it leaves.
LEMMA YieldCounts ==
    ASSUME FrameInv, Operands(1), NEW o \in Obj
    PROVE  LET low == SubSeq(stack, 1, Top.bp)
               img == SubSeq(stack, Top.bp + 1, Height - 1)
           IN  /\ low \in Seq(Value) /\ img \in Seq(Value) /\ Len(img) <= StackCap
               /\ Count(stack, o) = Count(low, o) + Count(img, o) + Is(Last(stack), o)
               /\ Count(low, o) \in Nat /\ Count(img, o) \in Nat
<1> DEFINE m == Top.bp
           n == Height - 1
<1>1. n \in Nat /\ m \in Nat /\ m <= n
  <2>1. 1 \in Nat
        OBVIOUS
  <2>2. QED
        BY <2>1, Popped
<1>2. stack \in Seq(Value) /\ n <= Len(stack) /\ n <= StackCap
  <2>1. Height \in Nat /\ Height <= StackCap /\ StackCap \in Nat
        BY Shape, MachineAssumption
  <2>2. n <= Height /\ n <= StackCap
        BY <2>1
  <2>3. QED
        BY <2>2 DEF FrameInv, Height
<1>3. /\ Count(stack, o) = Count(SubSeq(stack, 1, n), o) + Is(Last(stack), o)
  <2>1. Front(stack) = SubSeq(stack, 1, n)
        BY TopOperand
  <2>2. Count(stack, o) = Count(Front(stack), o) + Is(Last(stack), o)
        BY PopCounts
  <2>3. QED
        BY <2>1, <2>2, Zenon
<1> HIDE DEF m, n
<1>4. Len(stack) \in Nat /\ m <= Len(stack)
  <2>1. Len(stack) \in Nat
        BY <1>2, LenProperties
  <2>2. QED
        BY <1>1, <1>2, <2>1
<1>5. Count(SubSeq(stack, 1, n), o) = Count(SubSeq(stack, 1, m), o) + Count(SubSeq(stack, m + 1, n), o)
      BY <1>1, <1>2, CountCut
<1>6. /\ SubSeq(stack, m + 1, n) \in Seq(Value) /\ Len(SubSeq(stack, m + 1, n)) = n - m
      /\ SubSeq(stack, 1, m) \in Seq(Value)
      BY <1>1, <1>2, <1>4, Segment, Prefix
<1>7. Count(SubSeq(stack, 1, m), o) \in Nat /\ Count(SubSeq(stack, m + 1, n), o) \in Nat
      BY <1>6, CountType
<1>8. Len(SubSeq(stack, m + 1, n)) <= StackCap
  <2>1. StackCap \in Nat
        BY MachineAssumption
  <2>2. n - m <= StackCap
        BY <1>1, <1>2, <2>1
  <2>3. QED
        BY <1>6, <2>2, Zenon
<1>9. QED
      BY <1>3, <1>5, <1>6, <1>7, <1>8, Zenon DEF m, n

\* YIELD.
LEMMA YieldOwn ==
    ASSUME OwnInv, Yield
    PROVE  OwnInv' /\ Exact
<1> DEFINE c == Top.coro
           low == SubSeq(stack, 1, Top.bp)
           img == SubSeq(stack, Top.bp + 1, Height - 1)
           val == Last(stack)
           t == Top
           v == [obj[c] EXCEPT !.value = val, !.image = img, !.fn = t.fn, !.ref = t.ref,
                               !.slots = t.slots, !.returns = t.returns, !.region = t.region]
<1>1. /\ FrameInv /\ FrameInv' /\ Running /\ rc' = rc /\ global' = global /\ todo' = todo
      /\ todo' \in [Obj -> Nat]
      BY YieldInv DEF OwnInv, Typed, Yield
<1>2. /\ Len(frames) > 1 /\ c # None /\ frames' = Front(frames) /\ Operands(1)
      /\ stack' = Append(low, c) /\ obj' = [obj EXCEPT ![c] = v]
      BY Zenon DEF Yield
<1>3. /\ c \in Obj /\ obj[c] \in Object /\ obj[c].kind # "free" /\ Hollow(obj[c])
      /\ obj[c].done = FALSE /\ Lent(frames', c) = 0
      /\ \A p \in Obj : p # c => Lent(frames', p) = Lent(frames, p)
      /\ \A p \in Obj : Lent(frames, p) = Lent(frames', p) + Is(c, p)
      /\ \A p \in Obj : Called(frames, p) = Called(frames', p) + Is(t.ref, p)
      /\ frames' \in Seq(Frame)
      BY <1>2, LentTop
<1>4. Short'
      BY <1>2, ShortClosed
<1>5. \A o \in Obj : /\ low \in Seq(Value) /\ img \in Seq(Value) /\ Len(img) <= StackCap
                     /\ Count(stack, o) = Count(low, o) + Count(img, o) + Is(val, o)
                     /\ Count(low, o) \in Nat /\ Count(img, o) \in Nat
      BY <1>1, <1>2, YieldCounts
<1>6. val \in Value
      BY <1>1, <1>2, TopOperand
<1>7. /\ t.fn \in Fn \cup {None} /\ t.ref \in Obj \cup {None} /\ t.slots \in Nat
      /\ t.returns \in Nat /\ t.region \in Nat \cup {NoRegion} /\ t.returns <= 1
  <2>1. t \in Frame /\ Hosting(t)
        BY <1>1, Shape DEF FrameInv, Nested
  <2>2. t.fn \in Fn
        BY <1>2, <2>1 DEF Hosting, Frame
  <2>3. t.returns <= 1
        BY <1>1, Shape DEF OwnInv, Short
  <2>4. QED
        BY <2>1, <2>2, <2>3 DEF Frame
<1> HIDE DEF c, low, img, val, t
<1>8. low \in Seq(Value) /\ img \in Seq(Value) /\ Len(img) <= StackCap
      BY <1>3, <1>5
<1>9. /\ v \in Object /\ v.image = img /\ v.value = val /\ v.ref = t.ref /\ v.done = FALSE
      /\ v.kind = obj[c].kind /\ v.returns = t.returns
      BY <1>3, <1>6, <1>7, <1>8 DEF Object
<1> HIDE DEF v
<1>10. Written(c, v)
  <2>1. Lending(v, Lent(frames', c))
        BY <1>3, <1>9 DEF Lending
  <2>2. QED
        BY <1>1, <1>2, <1>3, <1>7, <1>8, <1>9, <2>1 DEF Written
<1>11. Balanced(c, v)
  <2> SUFFICES ASSUME NEW o \in Obj
               PROVE  Count(Fields(v), o) + Outside(stack', todo', global', frames', o)
                          = Count(Fields(obj[c]), o) + Outside(stack, todo, global, frames, o)
      BY DEF Balanced
  <2>1. Count(Fields(obj[c]), o) = 0
        BY <1>3, HollowFields
  <2>2. Count(Fields(v), o) = Count(img, o) + Is(val, o) + Is(t.ref, o)
    <3>1. Count(Fields(v), o) = Count(v.image, o) + Is(v.value, o) + Is(v.ref, o)
          BY <1>9, FieldsSeq
    <3>2. QED
          BY <1>9, <3>1, Zenon
  <2>3. Count(stack', o) = Count(low, o) + Is(c, o)
    <3>1. c \in Value
          BY <1>3 DEF Value
    <3>2. Count(Append(low, c), o) = Count(low, o) + Is(c, o)
          BY <1>8, <3>1, CountAppend
    <3>3. QED
          BY <1>2, <3>2, Zenon
  <2>4. /\ Called(frames', o) \in Nat /\ Lent(frames', o) \in Nat
        BY <1>3, FrameCounts
  <2>5. /\ Is(global, o) \in Nat /\ Is(c, o) \in Nat /\ Is(val, o) \in Nat /\ Is(t.ref, o) \in Nat
        /\ todo[o] = 0
        BY <1>1, NothingLeft, IsType
  <2>6. Count(low, o) \in Nat /\ Count(img, o) \in Nat
        BY <1>5
  <2>7. Outside(stack', todo', global', frames', o)
            = Count(low, o) + Is(c, o) + 0 + Is(global, o) + Called(frames', o) + Lent(frames', o)
        BY <1>1, <2>3, <2>5, Zenon DEF Outside
  <2>8. Outside(stack, todo, global, frames, o)
            = Count(low, o) + Count(img, o) + Is(val, o) + 0 + Is(global, o)
                + (Called(frames', o) + Is(t.ref, o)) + (Lent(frames', o) + Is(c, o))
        BY <1>3, <1>5, <2>5, Zenon DEF Outside
  <2> DEFINE w == Count(low, o)
             i == Count(img, o)
             b == Called(frames', o)
             l == Lent(frames', o)
             x == Is(c, o)
             y == Is(val, o)
             r == Is(t.ref, o)
             z == Is(global, o)
  <2>9. /\ w \in Nat /\ i \in Nat /\ b \in Nat /\ l \in Nat /\ x \in Nat /\ y \in Nat /\ r \in Nat
        /\ z \in Nat
        BY <2>4, <2>5, <2>6
  <2> HIDE DEF w, i, b, l, x, y, r, z
  <2>10. (i + y + r) + (w + x + 0 + z + b + l) = 0 + (w + i + y + 0 + z + (b + r) + (l + x))
         BY <2>9
  <2>11. QED
         BY <2>1, <2>2, <2>7, <2>8, <2>10, Zenon DEF w, i, b, l, x, y, r, z
<1>12. QED
       BY <1>1, <1>4, <1>10, <1>11, StoreExact

\* One element more of a prefix.
LEMMA CountLonger ==
    ASSUME NEW S, NEW s \in Seq(S), NEW n \in Nat, n + 1 <= Len(s), NEW a
    PROVE  /\ Count(SubSeq(s, 1, n + 1), a) = Count(SubSeq(s, 1, n), a) + Is(s[n + 1], a)
           /\ SubSeq(s, 1, n) \in Seq(S)
<1> DEFINE m == n + 1
           low == SubSeq(s, 1, n)
           long == SubSeq(s, 1, m)
           x == s[m]
<1>1. Len(s) \in Nat
      BY LenProperties
<1>2. /\ m \in Nat /\ m <= Len(s) /\ n <= Len(s) /\ m \in 1 .. Len(s) /\ m \in 1 .. m
      /\ \A k \in 1 .. m : k = m \/ k \in 1 .. n
      /\ \A k \in 1 .. n : k \in 1 .. m
      BY <1>1
<1>3. x \in S
      BY <1>2, ElementOfSeq
<1>4. low \in Seq(S) /\ Len(low) = n /\ \A k \in 1 .. n : low[k] = s[k]
      BY <1>2, Prefix
<1> HIDE DEF m
<1>5. long \in Seq(S) /\ Len(long) = m /\ \A k \in 1 .. m : long[k] = s[k]
      BY <1>2, Prefix
<1> HIDE DEF low, long, x
<1>6. /\ Append(low, x) \in Seq(S) /\ Len(Append(low, x)) = m /\ Append(low, x)[m] = x
      /\ \A k \in 1 .. n : Append(low, x)[k] = low[k]
      BY <1>3, <1>4, AppendProperties DEF m
<1> DEFINE t == Append(low, x)
<1> HIDE DEF t
<1>7. \A k \in 1 .. m : long[k] = t[k]
  <2>1. \A k \in 1 .. n : long[k] = t[k]
        BY <1>2, <1>4, <1>5, <1>6, Zenon DEF t
  <2>2. long[m] = t[m]
        BY <1>2, <1>5, <1>6, Zenon DEF t, x
  <2>3. QED
        BY <1>2, <2>1, <2>2, Zenon
<1>8. long = t
      BY <1>5, <1>6, <1>7, SeqEqual DEF t
<1>9. Count(t, a) = Count(low, a) + Is(x, a)
      BY <1>3, <1>4, CountAppend DEF t
<1>10. QED
       BY <1>4, <1>8, <1>9, Zenon DEF low, long, x, m

\* The two operands of RESUME.
LEMMA ResumeCounts ==
    ASSUME FrameInv, Operands(2), NEW p \in Obj
    PROVE  LET low == SubSeq(stack, 1, Height - 2)
           IN  /\ low \in Seq(Value) /\ Last(stack) \in Value
               /\ Count(stack, p) = Count(low, p) + Is(stack[Height - 1], p) + Is(Last(stack), p)
               /\ Count(low, p) \in Nat
<1> DEFINE n == Height - 2
<1>1. n \in Nat
  <2>1. 2 \in Nat
        OBVIOUS
  <2>2. QED
        BY <2>1, Popped
<1>2. Height \in Nat /\ stack \in Seq(Value) /\ Len(stack) = Height
      BY Shape DEF FrameInv, Height
<1>3. n + 1 = Height - 1 /\ n + 1 <= Len(stack) /\ Len(stack) > 0
      BY <1>1, <1>2
<1>4. stack # <<>>
      BY <1>3
<1>5. /\ Count(stack, p) = Count(Front(stack), p) + Is(Last(stack), p)
      /\ Last(stack) \in Value /\ Front(stack) = SubSeq(stack, 1, n + 1)
  <2>1. /\ Count(stack, p) = Count(Front(stack), p) + Is(Last(stack), p)
        /\ Last(stack) \in Value
        BY <1>2, <1>4, CountLast DEF Is
  <2>2. Front(stack) = SubSeq(stack, 1, Height - 1)
        BY <1>2 DEF Front
  <2>3. QED
        BY <1>3, <2>1, <2>2, Zenon
<1> HIDE DEF n
<1>6. /\ Count(SubSeq(stack, 1, n + 1), p) = Count(SubSeq(stack, 1, n), p) + Is(stack[n + 1], p)
      /\ SubSeq(stack, 1, n) \in Seq(Value)
      BY <1>1, <1>2, <1>3, CountLonger
<1>7. Count(SubSeq(stack, 1, n), p) \in Nat
      BY <1>6, CountType
<1>8. QED
      BY <1>3, <1>5, <1>6, <1>7, Zenon DEF n

\* The frames a coroutine is in.
LEMMA LentFrames ==
    \A o : Lent(frames, o) = Cardinality(InFrame(o))
<1> SUFFICES ASSUME NEW o PROVE Lent(frames, o) = Cardinality(InFrame(o))
    OBVIOUS
<1>1. {k \in DOMAIN Coroutines(frames) : Coroutines(frames)[k] = o} = InFrame(o)
      BY DEF Coroutines, InFrame
<1>2. QED
      BY <1>1, Zenon DEF Lent, Count

\* RESUME.
LEMMA ResumeOwn ==
    ASSUME OwnInv, ~HollowResumes, NEW o \in Obj, Resume(o)
    PROVE  OwnInv' /\ Exact
<1> DEFINE img == obj[o].image
           held == obj[o].value
           ref == obj[o].ref
           val == Last(stack)
           low == SubSeq(stack, 1, Height - 2)
           g == [fn |-> obj[o].fn, bp |-> Height - 2, slots |-> obj[o].slots,
                 returns |-> obj[o].returns, region |-> obj[o].region,
                 ref |-> obj[o].ref, coro |-> o]
           v == [obj[o] EXCEPT !.value = Num, !.image = <<>>, !.ref = None]
<1>1. /\ FrameInv /\ FrameInv' /\ Running /\ rc' = rc /\ global' = global
      /\ obj[o] \in Object /\ Sound(obj[o], rc[o]) /\ frames \in Seq(Frame)
  <2>1. FrameInv /\ obj \in [Obj -> Object] /\ Sound(obj[o], rc[o])
        BY Zenon DEF OwnInv, Typed, Fitting, Counted
  <2>2. FrameInv'
        BY <2>1, ResumeInv
  <2>3. Running /\ rc' = rc /\ global' = global
        BY DEF Resume
  <2>4. QED
        BY <2>1, <2>2, <2>3 DEF FrameInv
<1>2. /\ Operands(2) /\ Suspended(o) /\ stack[Height - 1] = o /\ IsCoroutine(o)
      /\ stack' = Append(low \o img, val) /\ frames' = Append(frames, g)
      /\ obj' = [obj EXCEPT ![o] = v] /\ todo' = Releases(<<held>>)
      BY DEF Resume, Resumable
<1>3. /\ img \in Seq(Value) /\ held \in Value /\ ref \in Obj \cup {None}
      /\ obj[o].kind # "free" /\ obj[o].returns <= 1 /\ obj[o].done = FALSE
  <2>1. img \in Seq(Value) /\ held \in Value /\ ref \in Obj \cup {None} /\ obj[o].done \in BOOLEAN
        BY <1>1 DEF Object
  <2>2. obj[o].kind # "free" /\ obj[o].returns <= 1 /\ ~obj[o].done
        BY <1>1, <1>2 DEF IsCoroutine, Sound, Suspended
  <2>3. QED
        BY <2>1, <2>2
<1>4. g \in Frame /\ g.ref = ref /\ g.coro = o /\ g.returns = obj[o].returns
  <2>1. 2 \in Nat
        OBVIOUS
  <2>2. Height - 2 \in Nat
        BY <1>1, <1>2, <2>1, Popped
  <2>3. obj[o].fn \in Fn
        BY <1>1, <1>2 DEF Suspended, Object
  <2> DEFINE a == Height - 2
  <2> HIDE DEF a
  <2>4. [fn |-> obj[o].fn, bp |-> a, slots |-> obj[o].slots, returns |-> obj[o].returns,
         region |-> obj[o].region, ref |-> obj[o].ref, coro |-> o] \in Frame
        BY <1>1, <2>2, <2>3 DEF Object, Frame, a
  <2>5. QED
        BY <2>4 DEF a
<1>5. Lent(frames, o) = 0
  <2>1. InFrame(o) = {}
        BY <1>2 DEF Suspended
  <2>2. QED
        BY <2>1, LentFrames, FS_EmptySet
<1>6. \A p \in Obj : /\ low \in Seq(Value) /\ val \in Value
                     /\ Count(stack, p) = Count(low, p) + Is(o, p) + Is(val, p)
                     /\ Count(low, p) \in Nat
      BY <1>1, <1>2, ResumeCounts
<1> HIDE DEF img, held, ref, val, low, g
<1>7. \A p \in Obj : /\ Called(frames', p) = Called(frames, p) + Is(ref, p)
                     /\ Lent(frames', p) = Lent(frames, p) + Is(o, p)
      BY <1>1, <1>2, <1>4, FramesPushed
<1>8. Short'
      BY <1>2, <1>3, <1>4, ShortPushed
<1>9. held \in Item
      BY <1>3, ItemSeq
<1>10. /\ todo' \in [Obj -> Nat] /\ \A p \in Obj : todo'[p] = Is(held, p)
      BY <1>2, <1>9, ReleaseOne
<1>11. /\ v \in Object /\ v.image = <<>> /\ v.value = Num /\ v.ref = None
       /\ v.kind = obj[o].kind /\ v.returns = obj[o].returns /\ v.done = obj[o].done
  <2>1. None \in Obj \cup {None} /\ <<>> \in Seq(Value) /\ Num \in Value
        BY DEF Value
  <2>2. QED
        BY <1>1, <2>1 DEF Object
<1> HIDE DEF v
<1>12. Written(o, v)
  <2>1. Lent(frames', o) = 1 /\ \A p \in Obj : p # o => Lent(frames', p) = Lent(frames, p)
    <3>1. Is(o, o) = 1 /\ \A p \in Obj : p # o => Is(o, p) = 0
          BY IsType
    <3>2. \A p \in Obj : Lent(frames, p) \in Nat
          BY <1>1, FrameCounts
    <3>3. QED
          BY <1>5, <1>7, <3>1, <3>2
  <2>2. Lending(v, Lent(frames', o))
        BY <1>3, <1>11, <2>1 DEF Lending
  <2>3. Len(v.image) <= StackCap
        BY <1>11, MachineAssumption
  <2>4. QED
        BY <1>1, <1>2, <1>3, <1>11, <2>1, <2>2, <2>3 DEF Written
<1>13. Balanced(o, v)
  <2> SUFFICES ASSUME NEW p \in Obj
               PROVE  Count(Fields(v), p) + Outside(stack', todo', global', frames', p)
                          = Count(Fields(obj[o]), p) + Outside(stack, todo, global, frames, p)
      BY DEF Balanced
  <2>1. Count(Fields(v), p) = 0
        BY <1>11, HollowFields DEF Hollow
  <2>2. Count(Fields(obj[o]), p) = Count(img, p) + Is(held, p) + Is(ref, p)
    <3>1. Count(Fields(obj[o]), p) = Count(obj[o].image, p) + Is(obj[o].value, p) + Is(obj[o].ref, p)
          BY <1>1, FieldsSeq
    <3>2. QED
          BY <3>1, Zenon DEF img, held, ref
  <2>3. Count(stack', p) = Count(low, p) + Count(img, p) + Is(val, p)
    <3> DEFINE two == low \o img
    <3>1. two \in Seq(Value)
          BY <1>3, <1>6, ConcatProperties
    <3>2. Count(two, p) = Count(low, p) + Count(img, p)
          BY <1>3, <1>6, CountConcat
    <3> HIDE DEF two
    <3>3. Count(Append(two, val), p) = Count(two, p) + Is(val, p)
          BY <1>6, <3>1, CountAppend
    <3>4. QED
          BY <1>2, <3>2, <3>3, Zenon DEF two
  <2>4. /\ Called(frames, p) \in Nat /\ Lent(frames, p) \in Nat /\ Count(img, p) \in Nat
        /\ Count(low, p) \in Nat
        BY <1>1, <1>3, <1>6, FrameCounts, CountType
  <2>5. /\ Is(global, p) \in Nat /\ Is(o, p) \in Nat /\ Is(val, p) \in Nat /\ Is(ref, p) \in Nat
        /\ Is(held, p) \in Nat /\ todo[p] = 0
        BY <1>1, NothingLeft, IsType
  <2>6. Outside(stack', todo', global', frames', p)
            = Count(low, p) + Count(img, p) + Is(val, p) + Is(held, p) + Is(global, p)
                + (Called(frames, p) + Is(ref, p)) + (Lent(frames, p) + Is(o, p))
        BY <1>1, <1>7, <1>10, <2>3, Zenon DEF Outside
  <2>7. Outside(stack, todo, global, frames, p)
            = Count(low, p) + Is(o, p) + Is(val, p) + 0 + Is(global, p) + Called(frames, p) + Lent(frames, p)
        BY <1>6, <2>5, Zenon DEF Outside
  <2> DEFINE w == Count(low, p)
             i == Count(img, p)
             b == Called(frames, p)
             l == Lent(frames, p)
             x == Is(o, p)
             y == Is(val, p)
             r == Is(ref, p)
             h == Is(held, p)
             z == Is(global, p)
  <2>8. /\ w \in Nat /\ i \in Nat /\ b \in Nat /\ l \in Nat /\ x \in Nat /\ y \in Nat /\ r \in Nat
        /\ h \in Nat /\ z \in Nat
        BY <2>4, <2>5
  <2> HIDE DEF w, i, b, l, x, y, r, h, z
  <2>9. 0 + (w + i + y + h + z + (b + r) + (l + x)) = (i + h + r) + (w + x + y + 0 + z + b + l)
        BY <2>8
  <2>10. QED
         BY <2>1, <2>2, <2>6, <2>7, <2>9, Zenon DEF w, i, b, l, x, y, r, h, z
<1>14. QED
       BY <1>1, <1>8, <1>10, <1>12, <1>13, StoreExact

-----------------------------------------------------------------------------
(***************************************************************************)
(* Releases.                                                               *)
(***************************************************************************)
\* A pending release is counted; the last count is its own.
LEMMA PendingOwned ==
    ASSUME OwnInv, NEW o \in Obj, todo[o] > 0
    PROVE  /\ rc[o] \in Nat /\ rc[o] >= 1 /\ todo[o] \in Nat
           /\ rc[o] = 1 => Lent(frames, o) = 0
<1> DEFINE a == Cells(obj, Obj, o)
           b == Count(stack, o)
           c == todo[o]
           d == Is(global, o)
           e == Called(frames, o)
           f == Lent(frames, o)
           r == rc[o]
<1>1. Summed(o) /\ rc[o] >= Owners(o)
      BY OwnersSum DEF OwnInv, Counted, AllSummed
<1>2. /\ a \in Nat /\ b \in Nat /\ c \in Nat /\ d \in Nat /\ e \in Nat /\ f \in Nat /\ r \in Nat
      /\ r >= a + b + c + d + e + f
  <2>1. /\ a \in Nat /\ b \in Nat /\ c \in Nat /\ d \in Nat /\ e \in Nat /\ f \in Nat /\ r \in Nat
        /\ Owners(o) = a + b + c + d + e + f
        BY <1>1, Zenon DEF Summed
  <2>2. QED
        BY <1>1, <2>1, Zenon
<1>3. c > 0
      OBVIOUS
<1> HIDE DEF a, b, c, d, e, f, r
<1>4. r >= 1 /\ (r = 1 => f = 0)
      BY <1>2, <1>3
<1>5. QED
      BY <1>2, <1>4, Zenon DEF c, f, r

\* What a release does to the counts, object by object.
Released(o) ==
    /\ rc' \in [Obj -> Nat] /\ todo' \in [Obj -> Nat] /\ Fitting(obj')
    /\ \A p \in Obj : /\ rc'[p] + Is(p, o) = rc[p]
                      /\ todo'[p] + Cells(obj', Obj, p) + Is(p, o) = todo[p] + Cells(obj, Obj, p)
                      /\ Sound(obj'[p], rc'[p])
                      /\ Lending(obj'[p], Lent(frames, p))

LEMMA CountsDown ==
    ASSUME OwnInv, NEW o \in Obj, todo[o] > 0, rc' = [rc EXCEPT ![o] = @ - 1]
    PROVE  /\ rc' \in [Obj -> Nat]
           /\ \A p \in Obj : /\ rc'[p] + Is(p, o) = rc[p]
                             /\ p # o => rc'[p] = rc[p]
           /\ rc'[o] = rc[o] - 1
<1>1. rc \in [Obj -> Nat] /\ rc[o] \in Nat /\ rc[o] >= 1
      BY PendingOwned DEF OwnInv, Typed
<1>2. rc[o] - 1 \in Nat /\ (rc[o] - 1) + 1 = rc[o]
      BY <1>1
<1>3. rc'[o] = rc[o] - 1 /\ \A p \in Obj : p # o => rc'[p] = rc[p]
      BY <1>1
<1>4. rc' \in [Obj -> Nat]
      BY <1>1, <1>2
<1>5. ASSUME NEW p \in Obj
      PROVE  rc'[p] + Is(p, o) = rc[p]
  <2>1. CASE p = o
        BY <1>2, <1>3, <2>1, IsType
  <2>2. CASE p # o
    <3>1. Is(p, o) = 0 /\ rc'[p] = rc[p] /\ rc[p] \in Nat
          BY <1>1, <1>3, <2>2, IsType
    <3>2. QED
          BY <3>1
  <2>3. QED
        BY <2>1, <2>2
<1>6. QED
      BY <1>3, <1>4, <1>5

LEMMA PendingDown ==
    ASSUME OwnInv, NEW o \in Obj, todo[o] > 0, NEW F, \A p \in Obj : F[p] \in Nat,
           todo' = [p \in Obj |-> todo[p] - Is(p, o) + F[p]]
    PROVE  /\ todo' \in [Obj -> Nat]
           /\ \A p \in Obj : todo'[p] + Is(p, o) = todo[p] + F[p]
<1>1. todo \in [Obj -> Nat] /\ todo[o] \in Nat
      BY DEF OwnInv, Typed
<1>2. ASSUME NEW p \in Obj
      PROVE  todo'[p] \in Nat /\ todo'[p] + Is(p, o) = todo[p] + F[p]
  <2> DEFINE t == todo[p]
             f == F[p]
             d == Is(p, o)
  <2>1. todo'[p] = t - d + f /\ t \in Nat /\ f \in Nat
        BY <1>1
  <2>2. d = 0 \/ (d = 1 /\ t > 0)
        BY IsType
  <2> HIDE DEF t, f, d
  <2>3. t - d + f \in Nat /\ (t - d + f) + d = t + f
        BY <2>1, <2>2
  <2>4. QED
        BY <2>1, <2>3, Zenon DEF t, f, d
<1>3. todo' \in [Obj -> Nat]
      BY <1>2
<1>4. QED
      BY <1>2, <1>3

\* release of a reference that is not the last: only the count goes down.
LEMMA ReleasedKept ==
    ASSUME OwnInv, NEW o \in Obj, Release(o), rc[o] # 1
    PROVE  Released(o)
<1> DEFINE F == [p \in Obj |-> 0]
<1>1. /\ todo[o] > 0 /\ rc' = [rc EXCEPT ![o] = @ - 1] /\ obj' = obj
      /\ todo' = [p \in Obj |-> todo[p] - One(p = o) + Count(<<>>, p)]
      BY DEF Release
<1>2. \A p \in Obj : Count(<<>>, p) = 0
      BY CountEmpty
<1>3. todo' = [p \in Obj |-> todo[p] - Is(p, o) + F[p]] /\ \A p \in Obj : F[p] \in Nat /\ F[p] = 0
      BY <1>1, <1>2 DEF Is
<1> HIDE DEF F
<1>4. todo' \in [Obj -> Nat] /\ \A p \in Obj : todo'[p] + Is(p, o) = todo[p] + F[p]
      BY <1>1, <1>3, PendingDown
<1>5. /\ rc' \in [Obj -> Nat]
      /\ \A p \in Obj : rc'[p] + Is(p, o) = rc[p] /\ (p # o => rc'[p] = rc[p])
      BY <1>1, CountsDown
<1>6. Fitting(obj) /\ Fitting(obj')
      BY <1>1 DEF OwnInv, Typed
<1>7. ASSUME NEW p \in Obj
      PROVE  todo'[p] + Cells(obj', Obj, p) + Is(p, o) = todo[p] + Cells(obj, Obj, p)
  <2> DEFINE n == Cells(obj, Obj, p)
             t == todo[p]
             u == todo'[p]
             d == Is(p, o)
  <2>1. n \in Nat /\ t \in Nat
        BY OutsideTerms DEF OwnInv
  <2>2. u \in Nat /\ d \in Nat /\ u + d = t + 0
        BY <1>3, <1>4, IsType
  <2> HIDE DEF n, t, u, d
  <2>3. u + n + d = t + n
        BY <2>1, <2>2
  <2>4. QED
        BY <1>1, <2>3, Zenon DEF n, t, u, d
<1>8. ASSUME NEW p \in Obj
      PROVE  Sound(obj'[p], rc'[p]) /\ Lending(obj'[p], Lent(frames, p))
  <2>1. Sound(obj[p], rc[p]) /\ Lending(obj[p], Lent(frames, p))
        BY DEF OwnInv, Counted
  <2>2. rc[p] = 0 => rc'[p] = 0
    <3>1. rc[o] # 0
          BY <1>1, PendingOwned
    <3>2. QED
          BY <1>5, <3>1
  <2>3. QED
        BY <1>1, <2>1, <2>2 DEF Sound
<1>9. QED
      BY <1>4, <1>5, <1>6, <1>7, <1>8 DEF Released

\* release of the last reference: what the object held is released in turn.
LEMMA ReleasedLast ==
    ASSUME OwnInv, NEW o \in Obj, Release(o), rc[o] = 1
    PROVE  Released(o)
<1> DEFINE F == [p \in Obj |-> Count(Fields(obj[o]), p)]
           h == obj
           g == obj'
<1>1. /\ todo[o] > 0 /\ rc' = [rc EXCEPT ![o] = @ - 1] /\ obj' = [obj EXCEPT ![o] = Blank]
      /\ todo' = [p \in Obj |-> todo[p] - One(p = o) + Count(Fields(obj[o]), p)]
      BY DEF Release
<1>2. Fitting(obj) /\ obj[o] \in Object
      BY DEF OwnInv, Typed, Fitting
<1>3. obj'[o] = Blank /\ \A p \in Obj \ {o} : obj'[p] = obj[p]
      BY <1>1, <1>2 DEF Fitting
<1>4. Fitting(obj')
  <2>1. Blank \in Object /\ Len(Blank.image) = 0 /\ StackCap \in Nat
        BY BlankHollow, MachineAssumption
  <2>2. obj' \in [Obj -> Object]
        BY <1>1, <1>2, <2>1 DEF Fitting
  <2>3. \A p \in Obj : Len(obj'[p].image) <= StackCap
        BY <1>2, <1>3, <2>1 DEF Fitting
  <2>4. QED
        BY <2>2, <2>3 DEF Fitting
<1>5. \A p \in Obj : Count(Fields(obj[o]), p) \in Nat
      BY <1>2, FieldsSeq
<1>6. todo' = [p \in Obj |-> todo[p] - Is(p, o) + F[p]]
      BY <1>1 DEF Is
<1>7. \A p \in Obj : F[p] \in Nat /\ F[p] = Count(Fields(obj[o]), p)
      BY <1>5
<1> HIDE DEF F, h, g
<1>8. todo' \in [Obj -> Nat] /\ \A p \in Obj : todo'[p] + Is(p, o) = todo[p] + F[p]
      BY <1>1, <1>6, <1>7, PendingDown
<1>9. /\ rc' \in [Obj -> Nat]
      /\ \A p \in Obj : rc'[p] + Is(p, o) = rc[p] /\ (p # o => rc'[p] = rc[p])
      /\ rc'[o] = 0
  <2>1. /\ rc' \in [Obj -> Nat] /\ rc'[o] = rc[o] - 1
        /\ \A p \in Obj : rc'[p] + Is(p, o) = rc[p] /\ (p # o => rc'[p] = rc[p])
        BY <1>1, CountsDown
  <2>2. rc'[o] = 0
        BY <2>1
  <2>3. QED
        BY <2>1, <2>2
<1>10. /\ Fitting(h) /\ Fitting(g) /\ Obj \in SUBSET Obj /\ o \in Obj
       /\ \A x \in Obj \ {o} : g[x] = h[x]
       BY <1>2, <1>3, <1>4 DEF g, h
<1>11. \A p \in Obj : Cells(g, Obj, p) + Count(Fields(h[o]), p) = Cells(h, Obj, p) + Count(Fields(g[o]), p)
       BY <1>10, CellsUpdate
<1>12. \A p \in Obj : Cells(obj', Obj, p) + F[p] = Cells(obj, Obj, p) + 0
  <2> SUFFICES ASSUME NEW p \in Obj
               PROVE  Cells(obj', Obj, p) + F[p] = Cells(obj, Obj, p) + 0
      OBVIOUS
  <2>1. Count(Fields(Blank), p) = 0
        BY BlankHollow, HollowFields
  <2>2. Cells(obj', Obj, p) + Count(Fields(obj[o]), p) = Cells(obj, Obj, p) + Count(Fields(obj'[o]), p)
        BY <1>11, Zenon DEF g, h
  <2>3. QED
        BY <1>3, <1>7, <2>1, <2>2, Zenon
<1>13. ASSUME NEW p \in Obj
       PROVE  todo'[p] + Cells(obj', Obj, p) + Is(p, o) = todo[p] + Cells(obj, Obj, p)
  <2> DEFINE n == Cells(obj, Obj, p)
             m == Cells(obj', Obj, p)
             f == F[p]
             t == todo[p]
             u == todo'[p]
             d == Is(p, o)
  <2>1. n \in Nat /\ t \in Nat
        BY OutsideTerms DEF OwnInv
  <2>2. u \in Nat /\ d \in Nat /\ f \in Nat /\ u + d = t + f
        BY <1>7, <1>8, IsType
  <2>3. m \in Nat /\ m + f = n + 0
        BY <1>12, CellsType
  <2> HIDE DEF n, m, f, t, u, d
  <2>4. u + m + d = t + n
        BY <2>1, <2>2, <2>3
  <2>5. QED
        BY <2>4, Zenon DEF n, m, t, u, d
<1>14. ASSUME NEW p \in Obj
       PROVE  Sound(obj'[p], rc'[p]) /\ Lending(obj'[p], Lent(frames, p))
  <2>1. CASE p = o
    <3>1. Lent(frames, o) = 0
          BY <1>1, PendingOwned
    <3>2. QED
          BY <1>3, <1>9, <2>1, <3>1, BlankHollow
  <2>2. CASE p # o
    <3>1. Sound(obj[p], rc[p]) /\ Lending(obj[p], Lent(frames, p))
          BY DEF OwnInv, Counted
    <3>2. obj'[p] = obj[p] /\ rc'[p] = rc[p]
          BY <1>3, <1>9, <2>2
    <3>3. QED
          BY <3>1, <3>2, Zenon
  <2>3. QED
        BY <2>1, <2>2
<1>15. QED
       BY <1>4, <1>8, <1>9, <1>13, <1>14 DEF Released

\* release, one address of the worklist.
LEMMA ReleaseOwn ==
    ASSUME OwnInv, NEW o \in Obj, Release(o)
    PROVE  OwnInv' /\ Exact
<1>1. Released(o)
      BY ReleasedKept, ReleasedLast
<1>2. /\ FrameInv' /\ Typed /\ frames' = frames /\ stack' = stack /\ global' = global
  <2>1. Typed /\ FrameInv
        BY DEF OwnInv, Typed
  <2>2. FrameInv'
        BY <2>1, ReleaseInv
  <2>3. QED
        BY <2>1, <2>2 DEF Release
<1>3. Typed'
      BY <1>1, <1>2, TypedNext DEF Released
<1>4. Short'
      BY <1>2 DEF OwnInv, Short
<1>5. ASSUME NEW p \in Obj
      PROVE  rc'[p] + Cells(obj, Obj, p) + Outside(stack, todo, global, frames, p)
                 = rc[p] + Cells(obj', Obj, p) + Outside(stack', todo', global', frames', p)
  <2> DEFINE n == Cells(obj, Obj, p)
             m == Cells(obj', Obj, p)
             t == todo[p]
             u == todo'[p]
             d == Is(p, o)
             r == rc'[p]
             s == Count(stack, p)
             z == Is(global, p)
             b == Called(frames, p)
             l == Lent(frames, p)
  <2>1. /\ n \in Nat /\ m \in Nat /\ t \in Nat /\ u \in Nat /\ d \in Nat /\ r \in Nat
        /\ s \in Nat /\ z \in Nat /\ b \in Nat /\ l \in Nat
        BY <1>2, <1>3, OutsideTerms, OutsideTermsNext, IsType
  <2>2. r + d = rc[p] /\ u + m + d = t + n
        BY <1>1 DEF Released
  <2>3. /\ Outside(stack, todo, global, frames, p) = s + t + z + b + l
        /\ Outside(stack', todo', global', frames', p) = s + u + z + b + l
        BY <1>2, Zenon DEF Outside
  <2> HIDE DEF n, m, t, u, d, r, s, z, b, l
  <2>4. r + n + (s + t + z + b + l) = (r + d) + m + (s + u + z + b + l)
        BY <2>1, <2>2
  <2>5. QED
        BY <2>2, <2>3, <2>4, Zenon DEF n, m, r
<1>6. Exact
      BY <1>3, <1>5, ExactFrom
<1>7. Covers
      BY <1>3, <1>6, ExactCovers
<1>8. \A p \in Obj : Sound(obj'[p], rc'[p]) /\ Lending(obj'[p], Lent(frames', p))
      BY <1>1, <1>2 DEF Released
<1>9. QED
      BY <1>3, <1>4, <1>6, <1>7, <1>8, OwnNext

-----------------------------------------------------------------------------
(***************************************************************************)
(* The invariant of the specification.                                     *)
(***************************************************************************)
Unused == Fresh /\ rc = [o \in Obj |-> 0] /\ todo = Nothing

\* New and Reset: nothing refers to anything.
LEMMA UnusedOwn == Unused => OwnInv
<1> SUFFICES ASSUME Unused PROVE OwnInv
    OBVIOUS
<1>1. /\ frames = <<MainFrame>> /\ stack = <<>> /\ obj = [o \in Obj |-> Blank] /\ global = Num
      /\ rc = [o \in Obj |-> 0] /\ todo = [o \in Obj |-> 0]
      BY DEF Unused, Fresh, Nothing
<1>2. Typed
  <2>1. FrameInv
        BY FreshInv DEF Unused
  <2>2. rc \in [Obj -> Nat] /\ todo \in [Obj -> Nat]
        BY <1>1
  <2>3. Fitting(obj)
    <3>1. Blank \in Object /\ Len(Blank.image) <= StackCap
          BY BlankHollow, MachineAssumption
    <3> HIDE DEF Blank
    <3>2. QED
          BY <1>1, <3>1 DEF Fitting
  <2>4. QED
        BY <2>1, <2>2, <2>3 DEF Typed
<1>3. Short
      BY <1>1 DEF Short, MainFrame
<1>4. ASSUME NEW o \in Obj
      PROVE  /\ Cells(obj, Obj, o) = 0 /\ Count(stack, o) = 0 /\ todo[o] = 0 /\ Is(global, o) = 0
             /\ Called(frames, o) = 0 /\ Lent(frames, o) = 0
  <2>1. Cells(obj, Obj, o) = 0
    <3>1. \A k \in DOMAIN Fields(Blank) : Fields(Blank)[k] # o
          BY BlankHollow, HollowFields
    <3>2. \A x \in Obj : obj[x] = Blank
          BY <1>1
    <3>3. \A x \in Obj : \A k \in DOMAIN Fields(obj[x]) : Fields(obj[x])[k] # o
          BY <3>1, <3>2, Zenon
    <3>4. QED
          BY <3>3, CellsNone
  <2>2. Count(stack, o) = 0
        BY <1>1, CountEmpty, Zenon
  <2>3. todo[o] = 0 /\ Is(global, o) = 0
        BY <1>1, NoReference
  <2>4. Called(frames, o) = 0 /\ Lent(frames, o) = 0
    <3>1. None # o
          BY MachineAssumption
    <3>2. DOMAIN frames = {1} /\ frames[1].ref = None /\ frames[1].coro = None
          BY <1>1 DEF MainFrame
    <3>3. /\ {k \in DOMAIN Callables(frames) : Callables(frames)[k] = o} = {}
          /\ {k \in DOMAIN Coroutines(frames) : Coroutines(frames)[k] = o} = {}
          BY <3>1, <3>2 DEF Callables, Coroutines
    <3>4. QED
          BY <3>3, FS_EmptySet DEF Called, Lent, Count
  <2>5. QED
        BY <2>1, <2>2, <2>3, <2>4
<1>5. ASSUME NEW o \in Obj
      PROVE  Counted(o)
  <2>1. Owners(o) = 0 + 0 + 0 + 0 + 0 + 0
    <3>1. Summed(o)
          BY <1>2, OwnersSum DEF AllSummed
    <3>2. QED
          BY <1>4, <3>1, Zenon DEF Summed
  <2>2. obj[o] = Blank /\ rc[o] = 0
        BY <1>1
  <2>3. Sound(obj[o], rc[o]) /\ Lending(obj[o], Lent(frames, o))
        BY <1>4, <2>2, BlankHollow
  <2>4. rc[o] >= Owners(o)
        BY <2>1, <2>2
  <2>5. QED
        BY <2>3, <2>4 DEF Counted
<1>6. QED
      BY <1>2, <1>3, <1>5 DEF OwnInv

LEMMA UnusedOwnNext == Unused' => OwnInv'
BY UnusedOwn, PTL

\* The steps that leave a count nobody owns, and all others.
Lossless ==
    \/ GlobalSet /\ global = global'
    \/ CoroDone
    \/ \E o \in Obj : ResumeOverflow(o)
    \/ \E o \in Obj : HostCall(o) /\ Count(stack, o) > Count(stack', o)
    \/ Exact

Going == status = "running" /\ status' = "running"

\* Every action keeps the invariant, and only those four lose a count while Run goes on.
LEMMA NextOwn ==
    ASSUME ~HollowResumes, ~EntryThrows, OwnInv, Next
    PROVE  OwnInv' /\ (Going => Lossless)
<1> DEFINE Goal == OwnInv' /\ (Going => Lossless)
<1>1. CASE Const \/ Drop \/ GlobalGet
      BY <1>1, ConstOwn, DropOwn, GlobalGetOwn DEF Lossless
<1>2. CASE GlobalSet
      BY <1>2, GlobalSetOwn DEF Lossless
<1>3. CASE Enter \/ Leave
      BY <1>3, RegionOwn DEF Lossless
<1>4. ASSUME NEW k \in 1 .. StackCap, Copy(k)
      PROVE  Goal
      BY <1>4, CopyOwn DEF Lossless
<1>5. ASSUME NEW f \in Fn,
             Call(f) \/ CallDirect(f) \/ TailFromMain(f) \/ ReturnCall(f) \/ ReturnCallDirect(f)
      PROVE  Goal
      BY <1>5, CallOwn, ReturnCallOwn DEF Lossless
<1>6. ASSUME NEW f \in Fn, NEW o \in Obj, ClosureNew(f, o) \/ CallCoroutine(f, o)
      PROVE  Goal
      BY <1>6, ClosureNewOwn, CallCoroutineOwn DEF Lossless
<1>7. CASE Return \/ ReturnCoroutine \/ Yield
      BY <1>7, ReturnOwn, ReturnCoroutineOwn, YieldOwn DEF Lossless
<1>8. CASE CoroDone
      BY <1>8, CoroDoneOwn DEF Lossless
<1>9. CASE CoroValue
      BY <1>9, CoroValueOwn DEF Lossless
<1>10. ASSUME NEW o \in Obj, Release(o) \/ Resume(o)
       PROVE  Goal
       BY <1>10, ReleaseOwn, ResumeOwn DEF Lossless
<1>11. ASSUME NEW o \in Obj, ResumeOverflow(o)
       PROVE  Goal
       BY <1>11, ResumeOverflowOwn DEF Lossless
<1>12. ASSUME NEW v \in Value, HostCall(v)
       PROVE  Goal
       BY <1>12, HostCallOwn DEF Lossless
<1>13. status' # "failed" \/ ~Going
       BY DEF Going
<1>14. CASE Trap \/ Unreachable
       BY <1>13, <1>14, TrapOwn DEF Lossless
<1>15. CASE Throw
       BY <1>13, <1>15, ThrowOwn DEF Lossless
<1>16. CASE YieldMain \/ Interrupt \/ Run \/ Finish
       BY <1>16, StatusOwn DEF Lossless
<1>17. CASE Reset
  <2>1. Unused'
        BY <1>17 DEF Reset, Unused, Fresh, Nothing
  <2>2. ~Going
        BY <1>17 DEF Reset, Going
  <2>3. QED
        BY <2>1, <2>2, UnusedOwnNext
<1> HIDE DEF Goal
<1>18. Goal
       BY <1>1, <1>2, <1>3, <1>4, <1>5, <1>6, <1>7, <1>8, <1>9, <1>10, <1>11, <1>12, <1>14, <1>15,
          <1>16, <1>17, Zenon DEF Next, Goal
<1>19. QED
       BY <1>18 DEF Goal

\* The invariant: every reference is counted, free addresses are blank, and a coroutine
\* is in one frame at most, as long as programs resume suspended coroutines only and open
\* no region between an operand and its THROW.
THEOREM MachineOwnInv ==
    ASSUME ~HollowResumes, ~EntryThrows
    PROVE  Spec => []OwnInv
<1>1. Init => OwnInv
  <2>1. Init => Unused
        BY DEF Init, Unused, Fresh
  <2>2. QED
        BY <2>1, UnusedOwn
<1>2. OwnInv /\ [Next]_vars => OwnInv'
  <2>1. ASSUME OwnInv, UNCHANGED vars
        PROVE  OwnInv'
        BY <2>1, StillOwn DEF vars
  <2>2. QED
        BY <2>1, NextOwn
<1>3. QED
      BY <1>1, <1>2, PTL DEF Spec

-----------------------------------------------------------------------------
(***************************************************************************)
(* The properties.                                                         *)
(***************************************************************************)
\* No unwinding, tail call, suspension or resumption frees a callable, a coroutine or a
\* captured value that a slot, a frame, the global or an object still refers to.
THEOREM MachineNoDangling ==
    ASSUME ~HollowResumes, ~EntryThrows
    PROVE  Spec => []NoDangling
<1>1. OwnInv => NoDangling
      BY DEF OwnInv, Counted, Sound, NoDangling
<1>2. QED
      BY <1>1, MachineOwnInv, PTL

\* A coroutine runs in one frame at most and holds nothing while it runs; done, it
\* holds its result only.
THEOREM MachineCoroutineExclusive ==
    ASSUME ~HollowResumes, ~EntryThrows
    PROVE  Spec => []CoroutineExclusive
<1>1. OwnInv => CoroutineExclusive
  <2> SUFFICES ASSUME OwnInv, NEW o \in Obj
               PROVE  /\ Cardinality(InFrame(o)) <= 1
                      /\ InFrame(o) # {} \/ obj[o].done => obj[o].image = <<>> /\ obj[o].ref = None
                      /\ InFrame(o) # {} => ~obj[o].done /\ obj[o].value = Num
      BY DEF CoroutineExclusive
  <2>1. Lending(obj[o], Cardinality(InFrame(o)))
    <3>1. Lending(obj[o], Lent(frames, o))
          BY DEF OwnInv, Counted
    <3>2. QED
          BY <3>1, LentFrames
  <2>2. InFrame(o) # {} => Cardinality(InFrame(o)) > 0
    <3>1. frames \in Seq(Frame)
          BY DEF OwnInv, Typed, FrameInv
    <3>2. DOMAIN frames = 1 .. Len(frames) /\ Len(frames) \in Nat
          BY <3>1, LenProperties
    <3>3. IsFiniteSet(1 .. Len(frames)) /\ InFrame(o) \subseteq 1 .. Len(frames)
          BY <3>2, FS_Interval DEF InFrame
    <3>4. IsFiniteSet(InFrame(o))
          BY <3>3, FS_Subset
    <3>5. Cardinality(InFrame(o)) \in Nat /\ (Cardinality(InFrame(o)) = 0 => InFrame(o) = {})
          BY <3>4, FS_EmptySet, FS_CardinalityType
    <3>6. QED
          BY <3>5
  <2>3. QED
        BY <2>1, <2>2 DEF Lending
<1>2. QED
      BY <1>1, MachineOwnInv, PTL

\* A count nobody owns is left by the store of what the global already holds, by
\* CORO_DONE, by a RESUME that does not fit and by a host function that answers a
\* reference it was passed twice, and by nothing else while Run goes on.
THEOREM MachineNothingLost ==
    ASSUME ~HollowResumes, ~EntryThrows
    PROVE  Spec => NothingLost
<1> DEFINE Listed == \/ GlobalSet /\ global = global'
                     \/ CoroDone
                     \/ \E o \in Obj : ResumeOverflow(o)
                     \/ \E o \in Obj : HostCall(o) /\ Count(stack, o) > Count(stack', o)
                     \/ \A o \in Obj : Surplus(o)' = Surplus(o)
<1>1. ASSUME OwnInv, OwnInv', Exact, NEW o \in Obj
      PROVE  Surplus(o)' = Surplus(o)
  <2> DEFINE r == rc[o]
             s == rc'[o]
             m == Owners(o)
             n == Owners(o)'
  <2>1. Typed'
        BY <1>1 DEF OwnInv
  <2>2. Summed(o) /\ Summed(o)'
        BY <1>1, <2>1, Terms
  <2>3. r \in Nat /\ s \in Nat /\ m \in Nat /\ n \in Nat
        BY <2>2 DEF Summed
  <2>4. s + m = r + n
        BY <1>1 DEF Exact
  <2>5. Surplus(o) = r - m /\ Surplus(o)' = s - n
        BY DEF Surplus
  <2> HIDE DEF r, s, m, n
  <2>6. s - n = r - m
        BY <2>3, <2>4
  <2>7. QED
        BY <2>5, <2>6, Zenon
<1>2. OwnInv /\ OwnInv' /\ [Next]_vars => [Going => Listed]_vars
  <2> SUFFICES ASSUME OwnInv, OwnInv', Next, Going
               PROVE  Listed
      OBVIOUS
  <2>1. Lossless
        BY NextOwn
  <2>2. Exact => \A o \in Obj : Surplus(o)' = Surplus(o)
        BY <1>1
  <2>3. QED
        BY <2>1, <2>2, Zenon DEF Lossless
<1>3. [Going => Listed]_vars => [status = "running" /\ status' = "running" => Listed]_vars
      BY DEF Going
<1>4. QED
      BY <1>2, <1>3, MachineOwnInv, PTL DEF Spec, NothingLost

\* Where Run is.
Statuses == {"running", "stopped", "done", "failed", "panicked"}

LEMMA NextStatus ==
    ASSUME status \in Statuses, Next
    PROVE  status' \in Statuses
<1> DEFINE Goal == status' \in Statuses
<1>1. ASSUME status' = status
      PROVE  Goal
      BY <1>1
<1>2. CASE Const \/ Drop \/ GlobalGet \/ GlobalSet \/ Enter \/ Leave
      BY <1>1, <1>2, Zenon DEF Const, Drop, GlobalGet, GlobalSet, Enter, Leave
<1>3. ASSUME NEW k \in 1 .. StackCap, Copy(k)
      PROVE  Goal
      BY <1>1, <1>3, Zenon DEF Copy
<1>4. ASSUME NEW f \in Fn,
             Call(f) \/ CallDirect(f) \/ TailFromMain(f) \/ ReturnCall(f) \/ ReturnCallDirect(f)
      PROVE  Goal
      BY <1>1, <1>4, Zenon DEF Call, CallDirect, TailFromMain, ReturnCall, ReturnCallDirect
<1>5. ASSUME NEW f \in Fn, NEW o \in Obj, ClosureNew(f, o) \/ CallCoroutine(f, o)
      PROVE  Goal
      BY <1>1, <1>5, Zenon DEF ClosureNew, CallCoroutine
<1>6. CASE Return \/ ReturnCoroutine \/ Yield \/ CoroDone \/ CoroValue
      BY <1>1, <1>6, Zenon DEF Return, ReturnCoroutine, Yield, CoroDone, CoroValue
<1>7. ASSUME NEW o \in Obj, Release(o) \/ Resume(o)
      PROVE  Goal
      BY <1>1, <1>7, Zenon DEF Release, Resume
<1>8. ASSUME NEW v \in Value, HostCall(v)
      PROVE  Goal
      BY <1>1, <1>8, Zenon DEF HostCall
<1>9. ASSUME NEW n, NEW top, Trapped(n, top)
      PROVE  Goal
  <2>1. status' = status \/ status' = "failed" \/ status' = "panicked"
        BY <1>9, Zenon DEF Trapped, Fail, Panic
  <2>2. QED
        BY <1>1, <2>1 DEF Statuses
<1>10. ASSUME NEW o \in Obj, ResumeOverflow(o)
       PROVE  Goal
       BY <1>9, <1>10, Zenon DEF ResumeOverflow
<1>11. CASE Trap \/ Unreachable
       BY <1>9, <1>11, Zenon DEF Trap, Unreachable
<1>12. CASE Throw
  <2>1. status' = status \/ status' = "failed" \/ status' = "panicked"
        BY <1>12, Zenon DEF Throw, Fail, Panic
  <2>2. QED
        BY <1>1, <2>1 DEF Statuses
<1>13. CASE YieldMain \/ Interrupt \/ Run \/ Finish \/ Reset
       BY <1>13 DEF YieldMain, Interrupt, Run, Finish, Reset, Statuses
<1> HIDE DEF Goal
<1>14. Goal
       BY <1>2, <1>3, <1>4, <1>5, <1>6, <1>7, <1>8, <1>10, <1>11, <1>12, <1>13, Zenon DEF Next, Goal
<1>15. QED
       BY <1>14 DEF Goal

\* Frames, stack, heap, counts, pending releases and status stay of their types; the
\* stacks stay within their bounds and no count or pending release gets below zero.
THEOREM MachineTypeCorrect ==
    ASSUME ~HollowResumes, ~EntryThrows
    PROVE  Spec => []TypeOK
<1> DEFINE S == status \in Statuses
<1>1. Init => S
      BY DEF Init, Statuses
<1>2. S /\ [Next]_vars => S'
  <2>1. UNCHANGED vars /\ S => S'
        BY DEF vars
  <2>2. QED
        BY <2>1, NextStatus
<1>3. OwnInv /\ S => TypeOK
      BY DEF OwnInv, Typed, FrameInv, TypeOK, Statuses
<1> HIDE DEF S
<1>4. QED
      BY <1>1, <1>2, <1>3, MachineOwnInv, PTL DEF Spec

\* An operand is counted once for every slot it is in, the exception a handler finds on
\* its stack included, for programs that open no region between an operand and its THROW.
THEOREM MachineStackCounted ==
    ASSUME ~HollowResumes, ~EntryThrows
    PROVE  Spec => []StackCounted
<1>1. OwnInv => StackCounted
  <2> SUFFICES ASSUME OwnInv, NEW o \in Obj
               PROVE  rc[o] >= Count(stack, o)
      BY DEF StackCounted
  <2> DEFINE a == Cells(obj, Obj, o)
             b == Count(stack, o)
             c == todo[o]
             d == Is(global, o)
             e == Called(frames, o)
             f == Lent(frames, o)
             r == rc[o]
  <2>1. Summed(o) /\ r >= Owners(o)
        BY OwnersSum DEF OwnInv, Counted, AllSummed
  <2>2. /\ a \in Nat /\ b \in Nat /\ c \in Nat /\ d \in Nat /\ e \in Nat /\ f \in Nat /\ r \in Nat
        /\ Owners(o) = a + b + c + d + e + f
        BY <2>1, Zenon DEF Summed
  <2> HIDE DEF a, b, c, d, e, f, r
  <2>3. r >= b
        BY <2>1, <2>2
  <2>4. QED
        BY <2>3 DEF b, r
<1>2. QED
      BY <1>1, MachineOwnInv, PTL
=============================================================================
