------------------------------- MODULE Counts -------------------------------
(***************************************************************************)
(* How numbers of occurrences change: a function is updated at one point,  *)
(* sequences are joined, cut and overwritten; and lists without            *)
(* repetitions.                                                            *)
(***************************************************************************)
EXTENDS Integers, SequencesExt, Counting, TLAPS, FiniteSetTheorems

\* How often f takes the value a on D.
Tally(D, f, a) == Cardinality({x \in D : f[x] = a})

\* A tally of a finite domain is a natural number.
LEMMA TallyType ==
    ASSUME NEW D, IsFiniteSet(D), NEW f, NEW a
    PROVE  Tally(D, f, a) \in Nat /\ IsFiniteSet({x \in D : f[x] = a})
<1>1. {x \in D : f[x] = a} \in SUBSET D
      OBVIOUS
<1>2. IsFiniteSet({x \in D : f[x] = a})
      BY <1>1, FS_Subset
<1>3. QED
      BY <1>2, FS_CardinalityType DEF Tally

\* Splitting a finite set by a part of it.
LEMMA CardSplit ==
    ASSUME NEW S, IsFiniteSet(S), NEW P
    PROVE  /\ IsFiniteSet(S \cap P) /\ IsFiniteSet(S \ P)
           /\ Cardinality(S \cap P) \in Nat /\ Cardinality(S \ P) \in Nat
           /\ Cardinality(S) = Cardinality(S \cap P) + Cardinality(S \ P)
<1>1. IsFiniteSet(S \cap P) /\ IsFiniteSet(S \ P)
      BY FS_Subset
<1>2. Cardinality(S \cap P) \in Nat /\ Cardinality(S \ P) \in Nat /\ Cardinality(S) \in Nat
      BY <1>1, FS_CardinalityType
<1>3. Cardinality(S \ P) = Cardinality(S) - Cardinality(S \cap P)
      BY FS_Difference
<1>4. QED
      BY <1>1, <1>2, <1>3

\* A set of at most one element.
LEMMA CardOne ==
    ASSUME NEW x, NEW P \in BOOLEAN
    PROVE  /\ Cardinality(IF P THEN {x} ELSE {}) = One(P)
           /\ IsFiniteSet(IF P THEN {x} ELSE {}) /\ One(P) \in Nat
BY FS_EmptySet, FS_Singleton DEF One

\* Changing f at one point exchanges one occurrence for another.
LEMMA TallyUpdate ==
    ASSUME NEW D, IsFiniteSet(D), NEW f, NEW g, NEW c \in D, NEW a,
           \A x \in D \ {c} : g[x] = f[x]
    PROVE  Tally(D, g, a) + One(f[c] = a) = Tally(D, f, a) + One(g[c] = a)
<1> DEFINE F == {x \in D : f[x] = a}
           G == {x \in D : g[x] = a}
<1>1. IsFiniteSet(F) /\ IsFiniteSet(G)
      BY FS_Subset
<1>2. F \ {c} = G \ {c}
      OBVIOUS
<1>3. F \cap {c} = (IF f[c] = a THEN {c} ELSE {}) /\ G \cap {c} = (IF g[c] = a THEN {c} ELSE {})
      OBVIOUS
<1>4. Cardinality(F \cap {c}) = One(f[c] = a) /\ Cardinality(G \cap {c}) = One(g[c] = a)
      BY <1>3, CardOne
<1>5. Cardinality(F) = Cardinality(F \cap {c}) + Cardinality(F \ {c})
      BY <1>1, CardSplit
<1>6. Cardinality(G) = Cardinality(G \cap {c}) + Cardinality(G \ {c})
      BY <1>1, CardSplit
<1>7. Cardinality(F \ {c}) \in Nat /\ Cardinality(F \cap {c}) \in Nat /\ Cardinality(G \cap {c}) \in Nat
      BY <1>1, CardSplit
<1>8. Tally(D, f, a) = Cardinality(F) /\ Tally(D, g, a) = Cardinality(G)
      BY DEF Tally
<1>9. QED
  <2> HIDE DEF F, G
  <2>1. QED
        BY <1>2, <1>4, <1>5, <1>6, <1>7, <1>8 DEF One

\* Positions of a sequence.
LEMMA SeqDomain ==
    ASSUME NEW S, NEW s \in Seq(S)
    PROVE  /\ DOMAIN s = 1 .. Len(s) /\ Len(s) \in Nat
           /\ IsFiniteSet(DOMAIN s)
<1>1. DOMAIN s = 1 .. Len(s) /\ Len(s) \in Nat
      OBVIOUS
<1>2. IsFiniteSet(1 .. Len(s))
      BY <1>1, FS_Interval
<1>3. QED
      BY <1>1, <1>2

LEMMA CountType ==
    ASSUME NEW S, NEW s \in Seq(S), NEW a
    PROVE  Count(s, a) \in Nat
<1>1. Count(s, a) = Tally(DOMAIN s, s, a)
      BY DEF Count, Tally
<1>2. QED
      BY <1>1, SeqDomain, TallyType

LEMMA CountEmpty ==
    ASSUME NEW a
    PROVE  Count(<<>>, a) = 0
<1>1. {k \in DOMAIN <<>> : <<>>[k] = a} = {}
      OBVIOUS
<1>2. QED
      BY <1>1, FS_EmptySet DEF Count

LEMMA CountSingle ==
    ASSUME NEW x, NEW a
    PROVE  Count(<<x>>, a) = One(x = a)
<1>1. {k \in DOMAIN <<x>> : <<x>>[k] = a} = IF x = a THEN {1} ELSE {}
      OBVIOUS
<1>2. QED
      BY <1>1, CardOne DEF Count

\* Moving every element of a finite set along f.
LEMMA CardMoved ==
    ASSUME NEW S, NEW T, IsFiniteSet(S), NEW f \in [S -> T],
           \A x, y \in S : f[x] = f[y] => x = y,
           \A y \in T : \E x \in S : f[x] = y
    PROVE  IsFiniteSet(T) /\ Cardinality(T) = Cardinality(S)
<1>1. f \in Bijection(S, T)
      BY DEF Bijection, Injection, Surjection, IsInjective
<1>2. ExistsBijection(S, T)
      BY <1>1 DEF ExistsBijection
<1>3. QED
      BY <1>2, FS_Bijection

\* Occurrences in a concatenation.
LEMMA CountConcat ==
    ASSUME NEW S, NEW s \in Seq(S), NEW t \in Seq(S), NEW a
    PROVE  Count(s \o t, a) = Count(s, a) + Count(t, a)
<1> DEFINE n == Len(s)
           C == {k \in DOMAIN (s \o t) : (s \o t)[k] = a}
           B == {k \in DOMAIN s : s[k] = a}
           E == {k \in DOMAIN t : t[k] = a}
           F == [k \in E |-> k + n]
<1>1. /\ s \o t \in Seq(S) /\ DOMAIN (s \o t) = 1 .. n + Len(t)
      /\ \A k \in 1 .. n : (s \o t)[k] = s[k]
      /\ \A k \in 1 .. Len(t) : (s \o t)[k + n] = t[k]
      /\ DOMAIN s = 1 .. n /\ DOMAIN t = 1 .. Len(t) /\ n \in Nat /\ Len(t) \in Nat
      OBVIOUS
<1>2. IsFiniteSet(C) /\ IsFiniteSet(B) /\ IsFiniteSet(E)
  <2>1. IsFiniteSet(DOMAIN (s \o t)) /\ IsFiniteSet(DOMAIN s) /\ IsFiniteSet(DOMAIN t)
        BY <1>1, SeqDomain
  <2>2. QED
        BY <2>1, FS_Subset
<1>3. C \cap B = B
      BY <1>1
<1>4. F \in [E -> C \ B]
      BY <1>1
<1>5. \A x, y \in E : F[x] = F[y] => x = y
      BY <1>1
<1>6. \A y \in C \ B : \E x \in E : F[x] = y
  <2>1. ASSUME NEW y \in C \ B
        PROVE  \E x \in E : F[x] = y
    <3>1. y \in 1 .. n + Len(t) /\ y \notin 1 .. n
          BY <1>1
    <3>2. y - n \in 1 .. Len(t) /\ (y - n) + n = y
          BY <3>1, <1>1
    <3>3. y - n \in E
          BY <3>2, <1>1
    <3>4. QED
          BY <3>2, <3>3
  <2>2. QED
        BY <2>1
<1>7. Cardinality(C \ B) = Cardinality(E)
      BY <1>2, <1>4, <1>5, <1>6, CardMoved
<1>8. Cardinality(C) = Cardinality(C \cap B) + Cardinality(C \ B)
      BY <1>2, CardSplit
<1>9. QED
      BY <1>3, <1>7, <1>8 DEF Count

\* Occurrences in what is left of a queue, and of a stack.
LEMMA CountHead ==
    ASSUME NEW S, NEW s \in Seq(S), s # <<>>, NEW a
    PROVE  /\ Count(s, a) = One(Head(s) = a) + Count(Tail(s), a)
           /\ Head(s) \in S /\ Tail(s) \in Seq(S)
<1>1. <<Head(s)>> \in Seq(S) /\ Tail(s) \in Seq(S) /\ Head(s) \in S
      OBVIOUS
<1>2. s = <<Head(s)>> \o Tail(s)
      OBVIOUS
<1>3. Count(<<Head(s)>> \o Tail(s), a) = Count(<<Head(s)>>, a) + Count(Tail(s), a)
      BY <1>1, CountConcat, Zenon
<1>4. Count(s, a) = Count(<<Head(s)>>, a) + Count(Tail(s), a)
      BY <1>2, <1>3, Zenon
<1>5. Count(<<Head(s)>>, a) = One(Head(s) = a)
      BY CountSingle, Zenon
<1>6. QED
      BY <1>1, <1>4, <1>5, Zenon

LEMMA CountLast ==
    ASSUME NEW S, NEW s \in Seq(S), s # <<>>, NEW a
    PROVE  /\ Count(s, a) = Count(Front(s), a) + One(Last(s) = a)
           /\ Last(s) \in S /\ Front(s) \in Seq(S)
<1>1. Front(s) \in Seq(S) /\ <<Last(s)>> \in Seq(S) /\ Last(s) \in S
      BY DEF Front, Last
<1>2. s = Front(s) \o <<Last(s)>>
      BY DEF Front, Last
<1>3. Count(Front(s) \o <<Last(s)>>, a) = Count(Front(s), a) + Count(<<Last(s)>>, a)
      BY <1>1, CountConcat, Zenon
<1>4. Count(s, a) = Count(Front(s), a) + Count(<<Last(s)>>, a)
      BY <1>2, <1>3, Zenon
<1>5. Count(<<Last(s)>>, a) = One(Last(s) = a)
      BY CountSingle, Zenon
<1>6. QED
      BY <1>1, <1>4, <1>5, Zenon

\* What a sequence holds it holds at least once.
LEMMA CountHolds ==
    ASSUME NEW S, NEW s \in Seq(S), NEW k \in DOMAIN s
    PROVE  Count(s, s[k]) >= 1
<1> DEFINE K == {j \in DOMAIN s : s[j] = s[k]}
<1>1. IsFiniteSet(K)
      BY SeqDomain, FS_Subset
<1>2. Cardinality(K) \in Nat /\ (Cardinality(K) = 0 <=> K = {})
      BY <1>1, FS_EmptySet, FS_CardinalityType
<1>3. k \in K
      OBVIOUS
<1>4. Cardinality(K) >= 1
  <2> HIDE DEF K
  <2>1. QED
        BY <1>2, <1>3
<1>5. QED
      BY <1>4 DEF Count

\* Overwriting one element of a sequence.
LEMMA CountUpdate ==
    ASSUME NEW S, NEW s \in Seq(S), NEW t \in Seq(S), Len(t) = Len(s), NEW k \in 1 .. Len(s), NEW a,
           \A j \in 1 .. Len(s) : j # k => t[j] = s[j]
    PROVE  Count(t, a) + One(s[k] = a) = Count(s, a) + One(t[k] = a)
<1>1. DOMAIN t = DOMAIN s /\ IsFiniteSet(DOMAIN s) /\ k \in DOMAIN s
      BY SeqDomain
<1>2. \A x \in DOMAIN s \ {k} : t[x] = s[x]
      OBVIOUS
<1>3. Tally(DOMAIN s, t, a) + One(s[k] = a) = Tally(DOMAIN s, s, a) + One(t[k] = a)
      BY <1>1, <1>2, TallyUpdate
<1>4. QED
      BY <1>1, <1>3 DEF Tally, Count

-----------------------------------------------------------------------------
(***************************************************************************)
(* Lists without repetitions.                                              *)
(***************************************************************************)
Apart(ops) == \A j, k \in DOMAIN ops : ops[j] = ops[k] => j = k

\* Taking the last element off a list without repetitions.
LEMMA ApartFront ==
    ASSUME NEW S, NEW s \in Seq(S), s # <<>>, Apart(s)
    PROVE  /\ Apart(Front(s)) /\ Front(s) \in Seq(S) /\ Last(s) \in S
           /\ \E k \in DOMAIN s : s[k] = Last(s)
           /\ {Front(s)[k] : k \in DOMAIN Front(s)} = {s[k] : k \in DOMAIN s} \ {Last(s)}
<1> DEFINE n == Len(s)
<1>1. n \in Nat /\ n >= 1 /\ DOMAIN s = 1 .. n /\ \A k \in 1 .. n : s[k] \in S
      OBVIOUS
<1>2. Last(s) = s[n]
      BY DEF Last
<1>3. Front(s) = SubSeq(s, 1, n - 1) /\ Front(s) \in Seq(S)
      BY <1>1 DEF Front
<1>4. DOMAIN Front(s) = 1 .. n - 1 /\ \A k \in 1 .. n - 1 : Front(s)[k] = s[k]
      BY <1>1, <1>3
<1>5. \A j, k \in 1 .. n : j # k => s[j] # s[k]
      BY <1>1 DEF Apart
<1> HIDE DEF n
<1>6. Apart(Front(s))
      BY <1>1, <1>4, <1>5 DEF Apart
<1>7. ASSUME NEW x
      PROVE  (\E k \in 1 .. n - 1 : s[k] = x) <=> (\E k \in 1 .. n : s[k] = x) /\ x # s[n]
      BY <1>1, <1>5
<1>8. {Front(s)[k] : k \in DOMAIN Front(s)} = {s[k] : k \in DOMAIN s} \ {Last(s)}
  <2>1. {Front(s)[k] : k \in DOMAIN Front(s)} = {s[k] : k \in 1 .. n - 1}
        BY <1>4
  <2>2. \A x : x \in {s[k] : k \in 1 .. n - 1} <=> x \in {s[k] : k \in 1 .. n} \ {s[n]}
        BY <1>7
  <2>3. QED
        BY <1>1, <1>2, <2>1, <2>2
<1>9. Last(s) \in S /\ \E k \in DOMAIN s : s[k] = Last(s)
      BY <1>1, <1>2
<1>10. QED
      BY <1>3, <1>6, <1>8, <1>9

Elements(s) == {s[k] : k \in DOMAIN s}

\* Joining two lists without repetitions that have no element in common.
LEMMA ApartConcat ==
    ASSUME NEW S, NEW s \in Seq(S), NEW t \in Seq(S), Apart(s), Apart(t), Elements(s) \cap Elements(t) = {}
    PROVE  Apart(s \o t) /\ s \o t \in Seq(S) /\ Elements(s \o t) = Elements(s) \cup Elements(t)
<1> DEFINE n == Len(s)
           m == Len(t)
           u == s \o t
<1>1. /\ n \in Nat /\ m \in Nat /\ DOMAIN s = 1 .. n /\ DOMAIN t = 1 .. m /\ DOMAIN u = 1 .. n + m
      /\ \A k \in 1 .. n : u[k] = s[k]
      /\ \A k \in 1 .. m : u[k + n] = t[k]
      /\ u \in Seq(S)
      OBVIOUS
<1>2. \A j \in DOMAIN s, k \in DOMAIN t : s[j] # t[k]
      BY DEF Elements
<1> HIDE DEF n, m, u
<1>3. ASSUME NEW k \in 1 .. n + m, k \notin 1 .. n
      PROVE  k - n \in 1 .. m /\ u[k] = t[k - n]
  <2>1. k - n \in 1 .. m /\ k = k - n + n
        BY <1>1, <1>3
  <2>2. u[k - n + n] = t[k - n]
        BY <1>1, <2>1
  <2>3. QED
        BY <2>1, <2>2
<1>4. Apart(u)
  <2>1. SUFFICES ASSUME NEW j \in 1 .. n + m, NEW k \in 1 .. n + m, u[j] = u[k]
                 PROVE  j = k
        BY <1>1 DEF Apart
  <2>2. CASE j \in 1 .. n /\ k \in 1 .. n
        BY <1>1, <2>1, <2>2 DEF Apart
  <2>3. CASE j \in 1 .. n /\ k \notin 1 .. n
    <3>1. j \in DOMAIN s /\ u[j] = s[j] /\ k - n \in DOMAIN t /\ u[k] = t[k - n]
          BY <1>1, <1>3, <2>3
    <3>2. QED
          BY <1>2, <2>1, <3>1
  <2>4. CASE j \notin 1 .. n /\ k \in 1 .. n
    <3>1. k \in DOMAIN s /\ u[k] = s[k] /\ j - n \in DOMAIN t /\ u[j] = t[j - n]
          BY <1>1, <1>3, <2>4
    <3>2. QED
          BY <1>2, <2>1, <3>1
  <2>5. CASE j \notin 1 .. n /\ k \notin 1 .. n
    <3>1. t[j - n] = t[k - n] /\ j - n \in 1 .. m /\ k - n \in 1 .. m
          BY <1>3, <2>1, <2>5
    <3>2. j - n = k - n
          BY <1>1, <3>1 DEF Apart
    <3>3. QED
          BY <1>1, <3>2
  <2>6. QED
        BY <2>2, <2>3, <2>4, <2>5
<1>5. ASSUME NEW x
      PROVE  (\E k \in 1 .. n + m : u[k] = x) <=> (\E k \in 1 .. n : s[k] = x) \/ (\E k \in 1 .. m : t[k] = x)
  <2>1. ASSUME NEW k \in 1 .. n + m, u[k] = x
        PROVE  (\E i \in 1 .. n : s[i] = x) \/ (\E i \in 1 .. m : t[i] = x)
        BY <1>1, <1>3, <2>1
  <2>2. ASSUME NEW k \in 1 .. n, s[k] = x
        PROVE  \E i \in 1 .. n + m : u[i] = x
    <3>1. k \in 1 .. n + m /\ u[k] = x
          BY <1>1, <2>2
    <3>2. QED
          BY <3>1
  <2>3. ASSUME NEW k \in 1 .. m, t[k] = x
        PROVE  \E i \in 1 .. n + m : u[i] = x
    <3>1. k + n \in 1 .. n + m /\ u[k + n] = x
          BY <1>1, <2>3
    <3>2. QED
          BY <3>1
  <2>4. QED
        BY <2>1, <2>2, <2>3
<1>6. \A x : x \in {u[k] : k \in 1 .. n + m} <=> x \in {s[k] : k \in 1 .. n} \cup {t[k] : k \in 1 .. m}
  <2>1. TAKE x
  <2>2. x \in {u[k] : k \in 1 .. n + m} <=> \E k \in 1 .. n + m : u[k] = x
        OBVIOUS
  <2>3. x \in {s[k] : k \in 1 .. n} <=> \E k \in 1 .. n : s[k] = x
        OBVIOUS
  <2>4. x \in {t[k] : k \in 1 .. m} <=> \E k \in 1 .. m : t[k] = x
        OBVIOUS
  <2>5. QED
        BY <1>5, <2>2, <2>3, <2>4
<1>7. {u[k] : k \in DOMAIN u} = {s[k] : k \in DOMAIN s} \cup {t[k] : k \in DOMAIN t}
      BY <1>1, <1>6
<1>8. QED
      BY <1>1, <1>4, <1>7 DEF u, Elements

\* Adding an element a list does not have.
LEMMA ApartAppend ==
    ASSUME NEW S, NEW s \in Seq(S), Apart(s), NEW x \in S, \A k \in DOMAIN s : s[k] # x
    PROVE  /\ Apart(Append(s, x)) /\ Append(s, x) \in Seq(S)
           /\ {Append(s, x)[k] : k \in DOMAIN Append(s, x)} = {s[k] : k \in DOMAIN s} \cup {x}
<1> DEFINE t == <<x>>
<1>1. t \in Seq(S) /\ DOMAIN t = {1} /\ t[1] = x /\ Append(s, x) = s \o t
      OBVIOUS
<1> HIDE DEF t
<1>2. Apart(t)
      BY <1>1 DEF Apart
<1>3. Elements(t) = {x} /\ x \notin Elements(s)
      BY <1>1 DEF Elements
<1>4. Apart(s \o t) /\ s \o t \in Seq(S) /\ Elements(s \o t) = Elements(s) \cup {x}
      BY <1>1, <1>2, <1>3, ApartConcat
<1>5. QED
      BY <1>1, <1>4 DEF Elements

\* The length of a list without repetitions is the number of its elements.
LEMMA ApartLen ==
    ASSUME NEW S, NEW s \in Seq(S), Apart(s)
    PROVE  /\ IsFiniteSet({s[k] : k \in DOMAIN s})
           /\ Len(s) = Cardinality({s[k] : k \in DOMAIN s})
<1> DEFINE T == {s[k] : k \in DOMAIN s}
           f == [k \in DOMAIN s |-> s[k]]
<1>1. DOMAIN s = 1 .. Len(s) /\ Len(s) \in Nat /\ IsFiniteSet(DOMAIN s)
      BY SeqDomain
<1>2. f \in [DOMAIN s -> T] /\ \A j, k \in DOMAIN s : f[j] = f[k] => j = k
      BY DEF Apart
<1>3. \A y \in T : \E k \in DOMAIN s : f[k] = y
      OBVIOUS
<1>4. Cardinality(1 .. Len(s)) = Len(s)
  <2>1. 1 \in Int /\ Len(s) \in Int
        BY <1>1
  <2>2. Cardinality(1 .. Len(s)) = IF 1 > Len(s) THEN 0 ELSE Len(s) - 1 + 1
        BY <2>1, FS_Interval
  <2>3. QED
        BY <1>1, <2>2
<1> HIDE DEF T, f
<1>5. IsFiniteSet(T) /\ Cardinality(T) = Cardinality(DOMAIN s)
      BY <1>1, <1>2, <1>3, CardMoved
<1>6. QED
      BY <1>1, <1>4, <1>5 DEF T
=============================================================================
