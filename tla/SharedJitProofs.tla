--------------------------- MODULE SharedJitProofs ---------------------------
(***************************************************************************)
(* Exclusive builds and reachable requests in the shared compile cache,    *)
(* and consistent dispatch tables in its members, for every set of         *)
(* members, functions and loop headers.                                    *)
(***************************************************************************)
EXTENDS SharedJit, TLAPS, SequenceTheorems, WellFoundedInduction

\* A non-empty set of natural numbers has the minimum Min chooses.
LEMMA MinOf ==
    ASSUME NEW I \in SUBSET Nat, I # {}
    PROVE  Min(I) \in I /\ \A y \in I : Min(I) <= y
<1>1. IsWellFoundedOn(OpToRel(<, Nat), Nat)
      BY NatLessThanWellFounded
<1>2. PICK x \in I : \A y \in I : ~ (<<y, x>> \in OpToRel(<, Nat))
      BY <1>1, WFMin
<1>3. \A y \in Nat : y < x => <<y, x>> \in OpToRel(<, Nat)
      BY Zenon DEF OpToRel
<1>4. \A y \in I : ~ (y < x)
      BY <1>2, <1>3, Zenon
<1>5. \A y \in I : x <= y
      BY <1>4
<1>6. QED
      BY <1>5 DEF Min

\* The first index of a set of positions is a position, and the first.
LEMMA FirstIndex ==
    ASSUME NEW n \in Nat, NEW I \in SUBSET (1 .. n), I # {}
    PROVE  Min(I) \in 1 .. n /\ Min(I) \in I /\ \A y \in I : Min(I) <= y
<1>1. I \in SUBSET Nat
      OBVIOUS
<1>2. QED
      BY <1>1, MinOf

\* request keeps the queue a sequence of what was in it and the new request, so a
\* function's queue only ever holds roots of that function.
LEMMA EnqueuedType ==
    ASSUME NEW S \in SUBSET Request, NEW q \in Seq(S), NEW r \in S
    PROVE  Enqueued(q, r) \in Seq(S)
<1>1. \A s \in Seq(S) : Placed(s, r) \in Seq(S)
  <2> SUFFICES ASSUME NEW s \in Seq(S)
               PROVE  Placed(s, r) \in Seq(S)
      OBVIOUS
  <2> DEFINE I == {k \in 1 .. Len(s) : s[k].trigger # "exit"}
             n == IF I # {} THEN Min(I) ELSE 0
  <2>0. Len(s) \in Nat /\ I \in SUBSET (1 .. Len(s))
        BY LenProperties
  <2>1. n \in 0 .. Len(s)
    <3> HIDE DEF I
    <3>1. CASE I = {}
          BY <2>0, <3>1
    <3>2. CASE I # {}
          BY <2>0, <3>2, FirstIndex
    <3>3. QED
          BY <3>1, <3>2
  <2>2. SelectInSeq(s, LAMBDA x : x.trigger # "exit") = n
        BY DEF SelectInSeq
  <2>3. Append(s, r) \in Seq(S)
        BY AppendProperties
  <2>4. n # 0 => InsertAt(s, n, r) \in Seq(S)
    <3> SUFFICES ASSUME n # 0
                 PROVE  InsertAt(s, n, r) \in Seq(S)
        OBVIOUS
    <3> HIDE DEF n
    <3>1. SubSeq(s, 1, n - 1) \in Seq(S)
          BY <2>1, SubSeqProperties, ElementOfSeq
    <3>2. SubSeq(s, n, Len(s)) \in Seq(S)
          BY <2>1, SubSeqProperties, ElementOfSeq, LenProperties
    <3>3. <<r>> \in Seq(S)
          OBVIOUS
    <3>4. QED
          BY <3>1, <3>2, <3>3, ConcatProperties DEF InsertAt
  <2>5. QED
        BY <2>2, <2>3, <2>4 DEF Placed
<1>2. RemoveFirstMatch(q, LAMBDA x : x.root = r.root) \in Seq(S)
  <2> DEFINE I == {k \in 1 .. Len(q) : q[k].root = r.root}
             n == IF I # {} THEN Min(I) ELSE 0
  <2>1. Len(q) \in Nat /\ I \in SUBSET (1 .. Len(q))
        BY LenProperties
  <2>2. SelectInSeq(q, LAMBDA x : x.root = r.root) = n
        BY DEF SelectInSeq
  <2>3. I # {} => RemoveAt(q, n) \in Seq(S)
    <3> SUFFICES ASSUME I # {}
                 PROVE  RemoveAt(q, n) \in Seq(S)
        OBVIOUS
    <3>0. n \in 1 .. Len(q)
          <4> HIDE DEF I
          <4> QED BY <2>1, FirstIndex
    <3> HIDE DEF n
    <3>1. SubSeq(q, 1, n - 1) \in Seq(S)
          BY <3>0, SubSeqProperties, ElementOfSeq
    <3>2. SubSeq(q, n + 1, Len(q)) \in Seq(S)
          BY <3>0, SubSeqProperties, ElementOfSeq, LenProperties
    <3>3. QED
          BY <3>1, <3>2, ConcatProperties DEF RemoveAt
  <2>4. QED
        BY <2>2, <2>3 DEF RemoveFirstMatch
<1>3. QED
      BY <1>1, <1>2 DEF Enqueued

-----------------------------------------------------------------------------
(***************************************************************************)
(* The inductive invariant.  OwnQueue is what Claim needs to know of the   *)
(* request it takes: that it is for the function claimed.                  *)
(***************************************************************************)
RequestOf(f) == {r \in Request : Addr(r.root) = f}
OwnQueue == \A f \in Fn : pending[f] \in Seq(RequestOf(f))
BusyInv  == \A m \in Member : pc[m] # "run" => job[m] \in Request

CacheInv ==
    /\ CacheTypeOK
    /\ OwnQueue
    /\ BusyInv
    /\ BuildExclusive
    /\ NoRequestStranded

\* Every request names a function of the program.
LEMMA RequestAddr ==
    ASSUME NEW r \in Request
    PROVE  Addr(r.root) \in Fn /\ r.root \in Anchor /\ r \in RequestOf(Addr(r.root))
BY DEF Request, Anchor, Addr, RequestOf

\* The entry of a function is a request for it.
LEMMA HotEntryType ==
    ASSUME NEW f \in Fn
    PROVE  HotEntry(f) \in RequestOf(f) /\ HotEntry(f) \in Request
BY DEF HotEntry, Request, RequestOf, Anchor, Addr

\* newCache and new members satisfy the invariant.
LEMMA CacheInit ==
    ASSUME Init
    PROVE  CacheInv
<1>1. CacheTypeOK
      BY SharedJitAssumption, EmptySeq DEF Init, CacheTypeOK
<1>2. OwnQueue
      BY EmptySeq DEF Init, OwnQueue
<1>3. BusyInv
      BY DEF Init, BusyInv
<1>4. BuildExclusive
      BY DEF Init, BuildExclusive, Builds
<1>5. NoRequestStranded
      BY DEF Init, NoRequestStranded
<1>6. QED
      BY <1>1, <1>2, <1>3, <1>4, <1>5 DEF CacheInv

\* A step that leaves the cache and the members' builds alone keeps the invariant.
LEMMA CacheStutter ==
    ASSUME CacheInv, UNCHANGED <<cacheVars, pc, job>>
    PROVE  CacheInv'
<1> USE DEF CacheInv, cacheVars
<1>1. CacheTypeOK' /\ OwnQueue' /\ BusyInv' /\ NoRequestStranded'
      BY DEF CacheTypeOK, OwnQueue, BusyInv, NoRequestStranded
<1>2. BuildExclusive'
      BY DEF BuildExclusive, Builds
<1>3. QED
      BY <1>1, <1>2

\* Counting a hit, and going for the lock.
LEMMA CacheHit ==
    ASSUME CacheInv, NEW m \in Member, NEW f \in Fn, Hit(m, f)
    PROVE  CacheInv'
<1> USE DEF CacheInv
<1>1. /\ pc[m] = "run"
      /\ UNCHANGED <<state, active, pending, modules>>
      /\ hits' \in [Fn -> 0 .. Threshold]
  <2>1. hits[f] \in Nat /\ Threshold \in Nat /\ hits \in [Fn -> 0 .. Threshold]
        BY SharedJitAssumption DEF CacheTypeOK
  <2>2. CASE hits[f] + 1 < Threshold
        BY <2>1, <2>2 DEF Hit
  <2>3. CASE ~ (hits[f] + 1 < Threshold)
        BY <2>1, <2>3 DEF Hit
  <2>4. QED
        BY <2>2, <2>3
<1>2. \/ UNCHANGED <<pc, job>>
      \/ /\ pc' = [pc EXCEPT ![m] = "claim"]
         /\ job' = [job EXCEPT ![m] = HotEntry(f)]
      BY DEF Hit
<1>3. CacheTypeOK'
      BY <1>1, <1>2, HotEntryType DEF CacheTypeOK
<1>4. OwnQueue'
      BY <1>1 DEF OwnQueue
<1>5. BusyInv'
      BY <1>1, <1>2, HotEntryType DEF BusyInv, CacheTypeOK
<1>6. \A n \in Member, g \in Fn : Builds(n, g)' <=> Builds(n, g)
      BY <1>1, <1>2 DEF Builds, CacheTypeOK
<1>7. \A n \in Member, g \in Fn : Builds(n, g) => job'[n] = job[n]
      BY <1>1, <1>2 DEF Builds, CacheTypeOK
<1>8. BuildExclusive'
      BY <1>1, <1>6, <1>7 DEF BuildExclusive
<1>9. NoRequestStranded'
      BY <1>1 DEF NoRequestStranded
<1>10. QED
      BY <1>3, <1>4, <1>5, <1>8, <1>9

\* Winning a claim: nobody builds the function, and the member builds it from now on.
LEMMA CacheClaim ==
    ASSUME CacheInv, NEW m \in Member, NEW f \in Fn, f = Addr(job[m].root), Claim(m)
    PROVE  CacheInv'
<1> USE DEF CacheInv
<1> DEFINE next == IF pending[f] = <<>> THEN HotEntry(f) ELSE Head(pending[f])
<1>1. pc[m] = "claim" /\ state[f] = "cold" /\ Claimed(m, f)
      BY DEF Claim
<1>3. next \in RequestOf(f) /\ (pending[f] # <<>> => Tail(pending[f]) \in Seq(RequestOf(f)))
  <2>1. pending[f] \in Seq(RequestOf(f))
        BY DEF OwnQueue
  <2>2. QED
        BY <2>1, HotEntryType, HeadTailProperties
<1> HIDE DEF next
<1>4. next \in Request /\ Addr(next.root) = f
      BY <1>3 DEF RequestOf
<1>5. /\ active' = [active EXCEPT ![f] = next]
      /\ pending' = [pending EXCEPT ![f] = IF @ = <<>> THEN @ ELSE Tail(@)]
      /\ state' = [state EXCEPT ![f] = "build"]
      /\ pc' = [pc EXCEPT ![m] = "build"]
      /\ job' = [job EXCEPT ![m] = next]
      /\ UNCHANGED <<hits, modules>>
      BY <1>1 DEF Claimed, next
<1>6. pending' \in [Fn -> Seq(Request)]
  <2>1. pending[f] \in Seq(Request)
        BY DEF CacheTypeOK
  <2>2. pending[f] # <<>> => Tail(pending[f]) \in Seq(Request)
        BY <2>1, HeadTailProperties
  <2>3. QED
        BY <1>5, <2>2 DEF CacheTypeOK
<1>7. CacheTypeOK'
      BY <1>4, <1>5, <1>6 DEF CacheTypeOK
<1>8. OwnQueue'
      BY <1>3, <1>5 DEF OwnQueue, CacheTypeOK
<1>9. BusyInv'
      BY <1>4, <1>5 DEF BusyInv, CacheTypeOK
<1>10. /\ \A n \in Member : n # m => \A g \in Fn : Builds(n, g)' <=> Builds(n, g)
       /\ \A g \in Fn : Builds(m, g)' <=> g = f
       /\ \A g \in Fn : ~ Builds(m, g)
       BY <1>1, <1>4, <1>5 DEF Builds, CacheTypeOK
<1>11. \A n \in Member : ~ Builds(n, f)
       BY <1>1 DEF BuildExclusive
<1>12. /\ \A g \in Fn : g # f => state'[g] = state[g] /\ active'[g] = active[g]
       /\ state'[f] = "build" /\ active'[f] = next /\ job'[m] = next
       /\ \A n \in Member : n # m => job'[n] = job[n]
       BY <1>5 DEF CacheTypeOK
<1>13. BuildExclusive'
  <2>1. ASSUME NEW g \in Fn, g # f
        PROVE  /\ state'[g] = "build" <=> \E n \in Member : Builds(n, g)'
               /\ active'[g] = NoRequest \/ state'[g] = "build"
               /\ \A n, k \in Member : Builds(n, g)' /\ Builds(k, g)' => n = k
               /\ \A n \in Member : Builds(n, g)' => active'[g] = job'[n]
    <3>1. \A n \in Member : Builds(n, g)' <=> Builds(n, g)
          BY <1>10, <2>1
    <3>2. \A n \in Member : Builds(n, g) => job'[n] = job[n]
          BY <1>10, <1>12
    <3>3. QED
          BY <1>12, <2>1, <3>1, <3>2 DEF BuildExclusive
  <2>2. /\ state'[f] = "build" /\ active'[f] = job'[m]
        /\ \A n \in Member : Builds(n, f)' <=> n = m
        BY <1>10, <1>11, <1>12
  <2>3. QED
        BY <2>1, <2>2 DEF BuildExclusive
<1>14. NoRequestStranded'
  <2>1. \A g \in Fn : g # f => pending'[g] = pending[g]
        BY <1>5 DEF CacheTypeOK
  <2>2. QED
        BY <1>12, <2>1 DEF NoRequestStranded
<1>15. QED
       BY <1>7, <1>8, <1>9, <1>13, <1>14

\* Losing a claim.
LEMMA CacheClaimLost ==
    ASSUME CacheInv, NEW m \in Member, ClaimLost(m)
    PROVE  CacheInv'
<1> USE DEF CacheInv
<1>1. /\ pc[m] = "claim"
      /\ pc' = [pc EXCEPT ![m] = "run"]
      /\ job' = [job EXCEPT ![m] = NoRequest]
      /\ UNCHANGED <<hits, state, active, pending, modules>>
      BY DEF ClaimLost, cacheVars
<1>2. CacheTypeOK'
      BY <1>1 DEF CacheTypeOK
<1>3. OwnQueue' /\ NoRequestStranded'
      BY <1>1 DEF OwnQueue, NoRequestStranded
<1>4. BusyInv'
      BY <1>1 DEF BusyInv, CacheTypeOK
<1>5. \A n \in Member, g \in Fn : /\ Builds(n, g)' <=> Builds(n, g)
                                  /\ Builds(n, g) => job'[n] = job[n]
      BY <1>1 DEF Builds, CacheTypeOK
<1>6. BuildExclusive'
      BY <1>1, <1>5 DEF BuildExclusive
<1>7. QED
      BY <1>2, <1>3, <1>4, <1>6

\* A request, wherever it comes from.
LEMMA CacheRequested ==
    ASSUME CacheInv, NEW r \in Request, Requested(r), UNCHANGED <<pc, job>>
    PROVE  CacheInv'
<1> USE DEF CacheInv
<1> DEFINE f == Addr(r.root)
<1>1. f \in Fn /\ r \in RequestOf(f)
      BY RequestAddr
<1> HIDE DEF f
<1>2. CASE UNCHANGED cacheVars
      BY <1>2, CacheStutter
<1>3. CASE /\ pending' = [pending EXCEPT ![f] = Enqueued(@, r)]
           /\ state' = [state EXCEPT ![f] = IF @ = "ready" THEN "cold" ELSE @]
           /\ UNCHANGED <<hits, active, modules>>
  <2>1. /\ Enqueued(pending[f], r) \in Seq(RequestOf(f))
        /\ Enqueued(pending[f], r) \in Seq(Request)
    <3>1. pending[f] \in Seq(RequestOf(f)) /\ pending[f] \in Seq(Request)
          BY <1>1 DEF OwnQueue, CacheTypeOK
    <3>2. RequestOf(f) \in SUBSET Request /\ Request \in SUBSET Request
          BY DEF RequestOf
    <3>3. QED
          BY <1>1, <3>1, <3>2, EnqueuedType
  <2>2. CacheTypeOK'
        BY <1>3, <2>1 DEF CacheTypeOK
  <2>3. OwnQueue'
        BY <1>3, <2>1 DEF OwnQueue, CacheTypeOK
  <2>4. BusyInv'
        BY DEF BusyInv
  <2>5. \A n \in Member, g \in Fn : Builds(n, g)' <=> Builds(n, g)
        BY DEF Builds
  <2>6. \A g \in Fn : (state'[g] = "build") = (state[g] = "build")
        BY <1>3 DEF CacheTypeOK
  <2>7. BuildExclusive'
        BY <1>3, <2>5, <2>6 DEF BuildExclusive
  <2>8. NoRequestStranded'
    <3>1. \A g \in Fn : g # f => pending'[g] = pending[g] /\ state'[g] = state[g]
          BY <1>3 DEF CacheTypeOK
    <3>2. state'[f] # "ready"
          BY <1>1, <1>3 DEF CacheTypeOK
    <3>3. QED
          BY <3>1, <3>2 DEF NoRequestStranded
  <2>9. QED
        BY <2>2, <2>3, <2>4, <2>7, <2>8
<1>4. QED
      BY <1>2, <1>3 DEF Requested, f

\* The end of a build: the function is claimable again if requests arrived.
LEMMA CacheFinish ==
    ASSUME CacheInv, NEW m \in Member, pc[m] = "build", modules' \in Seq(Anchor),
           Finish(m, Addr(job[m].root))
    PROVE  CacheInv'
<1> USE DEF CacheInv
<1> DEFINE f == Addr(job[m].root)
<1>1. f \in Fn
      BY RequestAddr DEF BusyInv
<1>2. Builds(m, f)
      BY DEF Builds
<1>3. /\ active' = [active EXCEPT ![f] = NoRequest]
      /\ state' = [state EXCEPT ![f] = IF pending[f] = <<>> THEN "ready" ELSE "cold"]
      /\ pc' = [pc EXCEPT ![m] = "run"]
      /\ job' = [job EXCEPT ![m] = NoRequest]
      /\ UNCHANGED <<hits, pending>>
      BY DEF Finish
<1>4. \A g \in Fn : Builds(m, g) => g = f
      BY DEF Builds
<1> HIDE DEF f
<1>5. CacheTypeOK'
      BY <1>3 DEF CacheTypeOK
<1>6. OwnQueue'
      BY <1>3 DEF OwnQueue
<1>7. BusyInv'
      BY <1>3 DEF BusyInv, CacheTypeOK
<1>8. /\ \A n \in Member : n # m =>
            job'[n] = job[n] /\ \A g \in Fn : Builds(n, g)' <=> Builds(n, g)
      /\ \A g \in Fn : ~ Builds(m, g)'
      BY <1>3 DEF Builds, CacheTypeOK
<1>9. \A n \in Member : n # m => ~ Builds(n, f)
      BY <1>1, <1>2 DEF BuildExclusive
<1>10. /\ \A g \in Fn : g # f => state'[g] = state[g] /\ active'[g] = active[g]
       /\ state'[f] # "build" /\ active'[f] = NoRequest
       /\ pending[f] # <<>> => state'[f] # "ready"
       BY <1>1, <1>3 DEF CacheTypeOK
<1>11. BuildExclusive'
       BY <1>1, <1>4, <1>8, <1>9, <1>10 DEF BuildExclusive
<1>12. NoRequestStranded'
       BY <1>3, <1>10 DEF NoRequestStranded
<1>13. QED
       BY <1>5, <1>6, <1>7, <1>11, <1>12

\* Every step keeps the invariant.
LEMMA CacheNext ==
    ASSUME CacheInv, [Next]_vars
    PROVE  CacheInv'
<1>1. CASE UNCHANGED vars
      BY <1>1, CacheStutter DEF vars
<1>2. ASSUME NEW m \in Member, NEW f \in Fn, Hit(m, f)
      PROVE  CacheInv'
      BY <1>2, CacheHit
<1>3. ASSUME NEW m \in Member, Build(m)
      PROVE  CacheInv'
  <2>1. CASE Claim(m)
    <3>1. Addr(job[m].root) \in Fn
          BY <2>1, RequestAddr DEF Claim, CacheInv, BusyInv
    <3>2. QED
          BY <2>1, <3>1, CacheClaim
  <2>2. CASE ClaimLost(m)
        BY <2>2, CacheClaimLost
  <2>3. CASE Fail(m)
    <3>1. modules' \in Seq(Anchor)
          BY <2>3 DEF Fail, CacheInv, CacheTypeOK
    <3>2. QED
          BY <2>3, <3>1, CacheFinish DEF Fail
  <2>4. CASE Publish(m)
    <3>1. job[m].root \in Anchor
          BY <2>4, RequestAddr DEF Publish, CacheInv, BusyInv
    <3>2. modules' \in Seq(Anchor)
          BY <2>4, <3>1, AppendProperties DEF Publish, CacheInv, CacheTypeOK
    <3>3. QED
          BY <2>4, <3>2, CacheFinish DEF Publish
  <2>5. QED
        BY <1>3, <2>1, <2>2, <2>3, <2>4 DEF Build
<1>4. ASSUME NEW m \in Member, NEW a \in Anchor, NEW recorded \in BOOLEAN,
             Backedge(m, a, recorded)
      PROVE  CacheInv'
  <2>1. [root |-> a, trigger |-> "hot"] \in Request
        BY DEF Request
  <2>2. CASE recorded
        BY <1>4, <2>1, <2>2, CacheRequested DEF Backedge
  <2>3. CASE ~ recorded
        BY <1>4, <2>3, CacheStutter DEF Backedge
  <2>4. QED
        BY <2>2, <2>3
<1>5. ASSUME NEW m \in Member, NEW a \in Anchor, Exit(m, a)
      PROVE  CacheInv'
  <2>1. [root |-> a, trigger |-> "exit"] \in Request
        BY DEF Request
  <2>2. QED
        BY <1>5, <2>1, CacheRequested DEF Exit
<1>6. ASSUME NEW m \in Member, NEW a \in Anchor, Retire(m, a)
      PROVE  CacheInv'
      BY <1>6, CacheStutter DEF Retire
<1>7. ASSUME NEW m \in Member, Sync(m)
      PROVE  CacheInv'
      BY <1>7, CacheStutter DEF Sync
<1>8. QED
      BY <1>1, <1>2, <1>3, <1>4, <1>5, <1>6, <1>7 DEF Next

-----------------------------------------------------------------------------
\* The invariant holds throughout, for any members, functions and loop headers.
LEMMA CacheAlways == Spec => []CacheInv
<1>1. Init => CacheInv
      BY CacheInit
<1>2. CacheInv /\ [Next]_vars => CacheInv'
      BY CacheNext
<1>3. QED
      BY <1>1, <1>2, PTL DEF Spec

\* One member at a time builds a function, and what it builds is the request the cache
\* calls active: claim's check before the lock may be stale, the one under it decides.
THEOREM CacheBuildExclusive == Spec => []BuildExclusive
<1>1. CacheInv => BuildExclusive
      BY DEF CacheInv
<1>2. QED
      BY <1>1, CacheAlways, PTL

\* A queued request can always be claimed: finishLocked and request never leave a
\* function with a non-empty queue "ready".
THEOREM CacheNoRequestStranded == Spec => []NoRequestStranded
<1>1. CacheInv => NoRequestStranded
      BY DEF CacheInv
<1>2. QED
      BY <1>1, CacheAlways, PTL

-----------------------------------------------------------------------------
(***************************************************************************)
(* The members' dispatch tables.  Synced installs the missing modules one  *)
(* after the other; the equation of that recursion is derived first, by    *)
(* least counterexamples.                                                  *)
(***************************************************************************)
Table(m) == [saved |-> saved[m], native |-> native[m], cold |-> cold[m]]
Tabled(m, g, n) == IF n <= gen[m] THEN Table(m) ELSE Install(g[n - 1], modules[n])
Partial(m, g, n) == \A k \in 0 .. n : g[k] = Tabled(m, g, k)

LEMMA PartialExists ==
    ASSUME NEW m, gen[m] \in Nat
    PROVE  \A n \in Nat : \E g : Partial(m, g, n)
<1> DEFINE I == {n \in Nat : ~\E g : Partial(m, g, n)}
<1> SUFFICES ASSUME I # {} PROVE FALSE
    OBVIOUS
<1>1. I \in SUBSET Nat
      OBVIOUS
<1> DEFINE n == Min(I)
<1>2. n \in I /\ \A y \in I : n <= y
  <2> HIDE DEF I
  <2>1. QED
        BY <1>1, MinOf
<1> HIDE DEF n
<1>3. n \in Nat /\ ~\E g : Partial(m, g, n)
      BY <1>2
<1>4. CASE n = 0
  <2> DEFINE g == [k \in {0} |-> Table(m)]
  <2>1. \A k \in 0 .. n : k = 0 /\ k <= gen[m]
        BY <1>4
  <2>2. g[0] = Table(m)
        OBVIOUS
  <2>3. Partial(m, g, n)
        BY <2>1, <2>2 DEF Partial, Tabled
  <2>4. QED
        BY <1>3, <2>3
<1>5. CASE n # 0
  <2>1. n - 1 \in Nat /\ ~(n <= n - 1)
        BY <1>3, <1>5
  <2>2. PICK g : Partial(m, g, n - 1)
        BY <1>2, <2>1
  <2> HIDE DEF I
  <2> DEFINE h == [k \in 0 .. n |-> IF k = n THEN Tabled(m, g, n) ELSE g[k]]
  <2>3. h[n] = Tabled(m, g, n) /\ \A k \in 0 .. n - 1 : h[k] = g[k]
        BY <1>3
  <2> HIDE DEF h
  <2>4. h[n] = Tabled(m, h, n)
    <3>1. n - 1 \in 0 .. n - 1
          BY <2>1, <1>3
    <3>2. h[n - 1] = g[n - 1]
          BY <2>3, <3>1
    <3>3. QED
          BY <2>3, <3>2 DEF Tabled
  <2>5. ASSUME NEW k \in 0 .. n - 1
        PROVE  h[k] = Tabled(m, h, k)
    <3>1. h[k] = g[k] /\ g[k] = Tabled(m, g, k)
          BY <2>2, <2>3 DEF Partial
    <3>2. CASE k <= gen[m]
          BY <3>1, <3>2 DEF Tabled
    <3>3. CASE ~(k <= gen[m])
      <4>1. k - 1 \in 0 .. n - 1
            BY <1>3, <3>3
      <4>2. h[k - 1] = g[k - 1]
            BY <2>3, <4>1
      <4>3. QED
            BY <3>1, <3>3, <4>2 DEF Tabled
    <3>4. QED
          BY <3>2, <3>3
  <2>6. \A k \in 0 .. n : k = n \/ k \in 0 .. n - 1
        BY <1>3
  <2>7. Partial(m, h, n)
        BY <2>4, <2>5, <2>6 DEF Partial
  <2>8. QED
        BY <1>3, <2>7
<1>6. QED
      BY <1>4, <1>5

LEMMA PartialUnique ==
    ASSUME NEW m, gen[m] \in Nat, NEW n \in Nat, NEW i \in Nat, NEW g, NEW h, Partial(m, g, n), Partial(m, h, i)
    PROVE  \A k \in Nat : k <= n /\ k <= i => g[k] = h[k]
<1> DEFINE I == {k \in Nat : k <= n /\ k <= i /\ g[k] # h[k]}
<1> SUFFICES ASSUME I # {} PROVE FALSE
    OBVIOUS
<1>1. I \in SUBSET Nat
      OBVIOUS
<1> DEFINE k == Min(I)
<1>2. k \in I /\ \A y \in I : k <= y
  <2> HIDE DEF I
  <2>1. QED
        BY <1>1, MinOf
<1> HIDE DEF k
<1>3. k \in Nat /\ k \in 0 .. n /\ k \in 0 .. i /\ g[k] # h[k]
      BY <1>2
<1>4. g[k] = Tabled(m, g, k) /\ h[k] = Tabled(m, h, k)
      BY <1>3 DEF Partial
<1>5. ~(k <= gen[m])
      BY <1>3, <1>4 DEF Tabled
<1>6. k - 1 \in Nat /\ k - 1 <= n /\ k - 1 <= i /\ ~(k <= k - 1)
      BY <1>3, <1>5
<1>7. g[k - 1] = h[k - 1]
      BY <1>2, <1>6
<1>8. QED
      BY <1>3, <1>4, <1>7 DEF Tabled

\* sync's loop, one install per missing module.
LEMMA SyncedUnfolds ==
    ASSUME NEW m, gen[m] \in Nat
    PROVE  \E f : /\ \A n \in Nat : f[n] = Tabled(m, f, n)
                  /\ Synced(m) = f[Len(modules)]
<1> DEFINE G(n) == CHOOSE g : Partial(m, g, n)
           f == [n \in Nat |-> G(n)[n]]
<1>1. \A n \in Nat : Partial(m, G(n), n)
      BY PartialExists
<1> HIDE DEF G
<1>2. ASSUME NEW n \in Nat
      PROVE  f[n] = Tabled(m, f, n)
  <2>1. f[n] = Tabled(m, G(n), n)
        BY <1>1 DEF Partial
  <2>2. CASE n <= gen[m]
        BY <2>1, <2>2 DEF Tabled
  <2>3. CASE ~(n <= gen[m])
    <3>1. n - 1 \in Nat /\ n - 1 <= n /\ n - 1 <= n - 1
          BY <2>3
    <3>2. G(n)[n - 1] = G(n - 1)[n - 1]
          BY <1>1, <3>1, PartialUnique
    <3>3. f[n - 1] = G(n)[n - 1]
          BY <3>1, <3>2
    <3> HIDE DEF f
    <3>4. QED
          BY <2>1, <2>3, <3>3 DEF Tabled
  <2>4. QED
        BY <2>2, <2>3
<1>3. f = [n \in Nat |-> f[n]]
      OBVIOUS
<1> HIDE DEF f
<1>4. f = [n \in Nat |-> Tabled(m, f, n)]
      BY <1>2, <1>3
<1> DEFINE after == CHOOSE g : g = [n \in Nat |-> Tabled(m, g, n)]
<1>5. after = [n \in Nat |-> Tabled(m, after, n)]
      BY <1>4
<1>6. Synced(m) = after[Len(modules)]
      BY DEF Synced, Tabled, Table
<1> HIDE DEF after
<1>7. \A n \in Nat : after[n] = Tabled(m, after, n)
      BY <1>5
<1>8. QED
      BY <1>6, <1>7

\* What holds of a member's table t once the first n of the modules ms are installed,
\* where the functions be report their back edges.
TableOK(t, n, ms, be) ==
    /\ t.native \subseteq t.saved /\ t.cold \subseteq Fn
    /\ \A a \in t.saved : a \in Anchor /\ \E k \in 1 .. n : ms[k] = a
    /\ <<Main, 0>> \in t.native /\ (\E h \in Header : <<Main, h>> \in t.native) =>
          \E j, k \in 1 .. n : j < k /\ ms[k] = <<Main, 0>> /\ Addr(ms[j]) = Main /\ Ip(ms[j]) # 0
    /\ \A f \in Fn : f \in be \cup t.cold \/ \E a \in t.native : Addr(a) = f

TablesInv ==
    /\ CacheInv /\ TypeOK
    /\ \A m \in Member : TableOK(Table(m), gen[m], modules, backedges[m])

\* One install keeps it, whichever module it is.
LEMMA TableInstall ==
    ASSUME NEW t, NEW n \in Nat, n >= 1, NEW ms, NEW be, NEW a \in Anchor, a = ms[n], TableOK(t, n - 1, ms, be)
    PROVE  TableOK(Install(t, a), n, ms, be)
<1> DEFINE u == Install(t, a)
           yields == Addr(a) = Main /\ Ip(a) # 0 /\ <<Main, 0>> \in t.saved
<1>1. /\ t.native \subseteq t.saved /\ t.cold \subseteq Fn
      /\ \A x \in t.saved : x \in Anchor /\ \E k \in 1 .. n - 1 : ms[k] = x
      /\ <<Main, 0>> \in t.native /\ (\E h \in Header : <<Main, h>> \in t.native) =>
            \E j, k \in 1 .. n - 1 : j < k /\ ms[k] = <<Main, 0>> /\ Addr(ms[j]) = Main /\ Ip(ms[j]) # 0
      /\ \A f \in Fn : f \in be \cup t.cold \/ \E x \in t.native : Addr(x) = f
      BY DEF TableOK
<1>2. /\ u.saved = t.saved \cup {a} /\ u.cold = t.cold \ {Addr(a)}
      /\ u.native = {a} \cup IF yields THEN t.native \ {<<Main, 0>>} ELSE t.native
      BY DEF Install
<1>3. n \in 1 .. n /\ \A k \in 1 .. n - 1 : k \in 1 .. n /\ k < n
      OBVIOUS
<1>4. Addr(<<Main, 0>>) = Main /\ Ip(<<Main, 0>>) = 0
      BY DEF Addr, Ip
<1> HIDE DEF u
<1>5. u.native \subseteq u.saved /\ u.cold \subseteq Fn
      BY <1>1, <1>2
<1>6. \A x \in u.saved : x \in Anchor /\ \E k \in 1 .. n : ms[k] = x
      BY <1>1, <1>2, <1>3
<1>7. ASSUME <<Main, 0>> \in u.native, NEW h \in Header, <<Main, h>> \in u.native
      PROVE  \E j, k \in 1 .. n : j < k /\ ms[k] = <<Main, 0>> /\ Addr(ms[j]) = Main /\ Ip(ms[j]) # 0
  <2>1. Addr(<<Main, h>>) = Main /\ Ip(<<Main, h>>) = h /\ h # 0
        BY SharedJitAssumption DEF Addr, Ip
  <2>2. CASE a = <<Main, 0>>
    <3>1. <<Main, h>> # a
          BY <2>1, <2>2, <1>4
    <3>2. <<Main, h>> \in t.native
          BY <1>2, <1>7, <3>1
    <3>3. PICK j \in 1 .. n - 1 : ms[j] = <<Main, h>>
          BY <1>1, <3>2
    <3>4. QED
          BY <1>3, <2>1, <2>2, <3>3
  <2>3. CASE a # <<Main, 0>>
    <3>1. <<Main, 0>> \in t.native /\ ~yields
          BY <1>2, <1>7, <2>3
    <3>2. <<Main, 0>> \in t.saved
          BY <1>1, <3>1
    <3>3. <<Main, h>> # a
          BY <2>1, <3>1, <3>2
    <3>4. <<Main, h>> \in t.native
          BY <1>2, <1>7, <3>1, <3>3
    <3>5. PICK j \in 1 .. n - 1, k \in 1 .. n - 1 :
              j < k /\ ms[k] = <<Main, 0>> /\ Addr(ms[j]) = Main /\ Ip(ms[j]) # 0
          BY <1>1, <3>1, <3>4
    <3>6. QED
          BY <1>3, <3>5
  <2>4. QED
        BY <2>2, <2>3
<1>8. ASSUME NEW f \in Fn
      PROVE  f \in be \cup u.cold \/ \E x \in u.native : Addr(x) = f
  <2>1. CASE f = Addr(a)
        BY <1>2, <2>1
  <2>2. CASE f # Addr(a)
    <3>1. CASE f \in be \cup t.cold
          BY <1>2, <2>2, <3>1
    <3>2. CASE \E x \in t.native : Addr(x) = f
      <4>1. PICK x \in t.native : Addr(x) = f
            BY <3>2
      <4>2. yields => x # <<Main, 0>>
            BY <1>4, <2>2, <4>1
      <4>3. x \in u.native
            BY <1>2, <4>2
      <4>4. QED
            BY <4>1, <4>3
    <3>3. QED
          BY <1>1, <3>1, <3>2
  <2>3. QED
        BY <2>1, <2>2
<1>9. QED
      BY <1>5, <1>6, <1>7, <1>8 DEF TableOK, u

\* So does sync, which installs all that are missing.
LEMMA TableSynced ==
    ASSUME NEW m, gen[m] \in Nat, modules \in Seq(Anchor), gen[m] <= Len(modules),
           TableOK(Table(m), gen[m], modules, backedges[m])
    PROVE  TableOK(Synced(m), Len(modules), modules, backedges[m])
<1> DEFINE ok(t, n) == TableOK(t, n, modules, backedges[m])
<1>1. PICK f : (\A n \in Nat : f[n] = Tabled(m, f, n)) /\ Synced(m) = f[Len(modules)]
      BY SyncedUnfolds
<1> DEFINE I == {n \in Nat : gen[m] <= n /\ n <= Len(modules) /\ ~ok(f[n], n)}
<1>2. I = {}
  <2> SUFFICES ASSUME I # {} PROVE FALSE
      OBVIOUS
  <2>1. I \in SUBSET Nat
        OBVIOUS
  <2> DEFINE n == Min(I)
  <2>2. n \in I /\ \A y \in I : n <= y
    <3> HIDE DEF I
    <3>1. QED
          BY <2>1, MinOf
  <2> HIDE DEF n
  <2>3. n \in Nat /\ gen[m] <= n /\ n <= Len(modules) /\ ~ok(f[n], n) /\ f[n] = Tabled(m, f, n)
        BY <1>1, <2>2
  <2>4. CASE n = gen[m]
    <3>1. f[n] = Table(m)
          BY <2>3, <2>4 DEF Tabled
    <3>2. QED
          BY <2>3, <2>4, <3>1
  <2>5. CASE n # gen[m]
    <3>1. ~(n <= gen[m]) /\ n - 1 \in Nat /\ gen[m] <= n - 1 /\ n - 1 <= Len(modules) /\ ~(n <= n - 1) /\ n >= 1
          BY <2>3, <2>5, LenProperties
    <3>2. ok(f[n - 1], n - 1)
          BY <2>2, <3>1
    <3>3. modules[n] \in Anchor
          BY <2>3, <3>1
    <3>4. f[n] = Install(f[n - 1], modules[n])
          BY <2>3, <3>1 DEF Tabled
    <3>5. QED
          BY <2>3, <3>1, <3>2, <3>3, <3>4, TableInstall
  <2>6. QED
        BY <2>4, <2>5
<1>3. Len(modules) \in Nat /\ Len(modules) <= Len(modules)
      OBVIOUS
<1>4. Len(modules) \notin I
      BY <1>2
<1>5. QED
      BY <1>1, <1>3, <1>4

\* A member whose table, count and reports stay put, while modules may be appended.
LEMMA TableKept ==
    ASSUME TablesInv, UNCHANGED tableVars, modules' \in Seq(Anchor), Len(modules) <= Len(modules'),
           \A k \in 1 .. Len(modules) : modules'[k] = modules[k], NEW m \in Member
    PROVE  gen'[m] \in 0 .. Len(modules') /\ TableOK(Table(m)', gen'[m], modules', backedges'[m])
<1>1. gen[m] \in 0 .. Len(modules) /\ Len(modules) \in Nat /\ Len(modules') \in Nat
      BY DEF TablesInv, TypeOK, CacheTypeOK
<1>2. TableOK(Table(m), gen[m], modules, backedges[m])
      BY DEF TablesInv
<1>3. \A k \in 1 .. gen[m] : modules'[k] = modules[k]
      BY <1>1
<1>4. Table(m)' = Table(m) /\ gen'[m] = gen[m] /\ backedges'[m] = backedges[m]
      BY DEF tableVars, Table
<1> DEFINE t == Table(m)
           n == gen[m]
<1> HIDE DEF t, n
<1>5. ASSUME TableOK(t, n, modules, backedges[m]), \A k \in 1 .. n : modules'[k] = modules[k]
      PROVE  TableOK(t, n, modules', backedges[m])
      BY <1>5 DEF TableOK
<1>6. TableOK(Table(m), gen[m], modules', backedges[m])
      BY <1>2, <1>3, <1>5 DEF t, n
<1>7. gen[m] \in 0 .. Len(modules')
      BY <1>1
<1>8. QED
      BY <1>4, <1>6, <1>7

\* The watchdog takes one root out and leaves its function known as cold.
LEMMA TableRetire ==
    ASSUME NEW t, NEW u, NEW n, NEW ms, NEW be, NEW bf, NEW a \in Anchor, TableOK(t, n, ms, be),
           u.saved = t.saved, u.native = t.native \ {a}, u.cold = t.cold \cup {Addr(a)},
           bf = be \/ bf = be \ {Addr(a)}
    PROVE  TableOK(u, n, ms, bf)
<1>1. Addr(a) \in Fn
      BY DEF Anchor, Addr
<1>2. u.native \subseteq u.saved /\ u.cold \subseteq Fn
      BY <1>1 DEF TableOK
<1>3. \A x \in u.saved : x \in Anchor /\ \E k \in 1 .. n : ms[k] = x
      BY DEF TableOK
<1>4. <<Main, 0>> \in u.native /\ (\E h \in Header : <<Main, h>> \in u.native) =>
         \E j, k \in 1 .. n : j < k /\ ms[k] = <<Main, 0>> /\ Addr(ms[j]) = Main /\ Ip(ms[j]) # 0
      BY DEF TableOK
<1>5. \A f \in Fn : f \in bf \cup u.cold \/ \E x \in u.native : Addr(x) = f
      BY DEF TableOK
<1>6. QED
      BY <1>2, <1>3, <1>4, <1>5 DEF TableOK

\* sync, for the member that makes it and for the others.
LEMMA TablesSync ==
    ASSUME TablesInv, NEW m \in Member, Sync(m)
    PROVE  TypeOK' /\ \A i \in Member : TableOK(Table(i)', gen'[i], modules', backedges'[i])
<1>1. /\ UNCHANGED <<cacheVars, pc, job, backedges, tried>>
      /\ saved' = [saved EXCEPT ![m] = Synced(m).saved]
      /\ native' = [native EXCEPT ![m] = Synced(m).native]
      /\ cold' = [cold EXCEPT ![m] = Synced(m).cold]
      /\ gen' = [gen EXCEPT ![m] = Len(modules)]
      BY DEF Sync
<1>2. /\ modules \in Seq(Anchor) /\ gen \in [Member -> 0 .. Len(modules)]
      /\ saved \in [Member -> SUBSET Anchor] /\ native \in [Member -> SUBSET Anchor]
      /\ cold \in [Member -> SUBSET Fn]
      BY DEF TablesInv, TypeOK, CacheTypeOK
<1>3. Len(modules) \in Nat /\ gen[m] \in Nat /\ gen[m] <= Len(modules)
      BY <1>2
<1>4. TableOK(Synced(m), Len(modules), modules, backedges[m])
      BY <1>2, <1>3, TableSynced DEF TablesInv
<1>5. Synced(m).saved \subseteq Anchor /\ Synced(m).native \subseteq Anchor /\ Synced(m).cold \subseteq Fn
      BY <1>4 DEF TableOK
<1>6. TypeOK'
  <2>1. CacheTypeOK'
        BY <1>1 DEF TablesInv, TypeOK, CacheTypeOK, cacheVars
  <2>2. gen' \in [Member -> 0 .. Len(modules')]
        BY <1>1, <1>2, <1>3 DEF cacheVars
  <2>3. saved' \in [Member -> SUBSET Anchor]
        BY <1>1, <1>2, <1>5
  <2>4. native' \in [Member -> SUBSET Anchor]
        BY <1>1, <1>2, <1>5
  <2>5. cold' \in [Member -> SUBSET Fn]
        BY <1>1, <1>2, <1>5
  <2>6. backedges' \in [Member -> SUBSET Fn] /\ tried' \in [Member -> SUBSET Anchor]
        BY <1>1 DEF TablesInv, TypeOK
  <2>7. QED
        BY <2>1, <2>2, <2>3, <2>4, <2>5, <2>6 DEF TypeOK
<1>7. ASSUME NEW i \in Member
      PROVE  TableOK(Table(i)', gen'[i], modules', backedges'[i])
  <2>1. modules' = modules /\ backedges' = backedges
        BY <1>1 DEF cacheVars
  <2>2. CASE i = m
    <3> DEFINE u == Table(m)'
    <3>1. u.saved = Synced(m).saved /\ u.native = Synced(m).native /\ u.cold = Synced(m).cold
          BY <1>1, <1>2 DEF Table
    <3>2. gen'[m] = Len(modules)
          BY <1>1, <1>2
    <3> HIDE DEF u
    <3>3. TableOK(u, Len(modules), modules, backedges[m])
          BY <1>4, <3>1 DEF TableOK
    <3>4. QED
          BY <2>1, <2>2, <3>2, <3>3 DEF u
  <2>3. CASE i # m
    <3>1. Table(i)' = Table(i) /\ gen'[i] = gen[i]
          BY <1>1, <1>2, <2>3 DEF Table
    <3>2. QED
          BY <2>1, <3>1 DEF TablesInv
  <2>4. QED
        BY <2>2, <2>3
<1>8. QED
      BY <1>6, <1>7

\* Retirement, for the member that makes it and for the others.
LEMMA TablesRetire ==
    ASSUME TablesInv, NEW m \in Member, NEW a \in Anchor, Retire(m, a)
    PROVE  TypeOK' /\ \A i \in Member : TableOK(Table(i)', gen'[i], modules', backedges'[i])
<1>1. /\ UNCHANGED <<cacheVars, pc, job, gen, saved, tried>>
      /\ native' = [native EXCEPT ![m] = @ \ {a}]
      /\ cold' = [cold EXCEPT ![m] = @ \cup {Addr(a)}]
      /\ backedges' = [backedges EXCEPT ![m] = IF Addr(a) \in cold[m] THEN @ ELSE @ \ {Addr(a)}]
      BY DEF Retire
<1>2. /\ native \in [Member -> SUBSET Anchor] /\ cold \in [Member -> SUBSET Fn]
      /\ backedges \in [Member -> SUBSET Fn] /\ Addr(a) \in Fn
      BY DEF TablesInv, TypeOK, Anchor, Addr
<1>3. TypeOK'
  <2>1. CacheTypeOK'
        BY <1>1 DEF TablesInv, TypeOK, CacheTypeOK, cacheVars
  <2>2. gen' \in [Member -> 0 .. Len(modules')] /\ saved' \in [Member -> SUBSET Anchor] /\ tried' \in [Member -> SUBSET Anchor]
        BY <1>1 DEF TablesInv, TypeOK, cacheVars
  <2>3. native' \in [Member -> SUBSET Anchor] /\ cold' \in [Member -> SUBSET Fn] /\ backedges' \in [Member -> SUBSET Fn]
        BY <1>1, <1>2
  <2>4. QED
        BY <2>1, <2>2, <2>3 DEF TypeOK
<1>4. ASSUME NEW i \in Member
      PROVE  TableOK(Table(i)', gen'[i], modules', backedges'[i])
  <2>1. modules' = modules /\ gen' = gen /\ TableOK(Table(i), gen[i], modules, backedges[i])
        BY <1>1 DEF cacheVars, TablesInv
  <2>2. CASE i = m
    <3> DEFINE t == Table(m)
               u == Table(m)'
    <3>1. u.saved = t.saved /\ u.native = t.native \ {a} /\ u.cold = t.cold \cup {Addr(a)}
          BY <1>1, <1>2 DEF Table
    <3>2. backedges'[m] = backedges[m] \/ backedges'[m] = backedges[m] \ {Addr(a)}
          BY <1>1, <1>2
    <3>3. TableOK(t, gen[m], modules, backedges[m])
          BY <2>1, <2>2
    <3> HIDE DEF t, u
    <3>4. TableOK(u, gen[m], modules, backedges'[m])
          BY <3>1, <3>2, <3>3, TableRetire
    <3>5. QED
          BY <2>1, <2>2, <3>4 DEF u
  <2>3. CASE i # m
    <3>1. Table(i)' = Table(i) /\ backedges'[i] = backedges[i]
          BY <1>1, <1>2, <2>3 DEF Table
    <3>2. QED
          BY <2>1, <3>1
  <2>4. QED
        BY <2>2, <2>3
<1>5. QED
      BY <1>3, <1>4

\* Every other step leaves the tables alone and at most appends a module.
LEMMA TablesNext ==
    ASSUME TablesInv, [Next]_vars
    PROVE  TablesInv'
<1>0. CacheInv' /\ CacheTypeOK'
      BY CacheNext DEF TablesInv, CacheInv
<1>1. ASSUME UNCHANGED tableVars, tried' \in [Member -> SUBSET Anchor],
             modules' = modules \/ \E x \in Anchor : modules' = Append(modules, x)
      PROVE  TypeOK' /\ \A i \in Member : TableOK(Table(i)', gen'[i], modules', backedges'[i])
  <2>1. modules \in Seq(Anchor) /\ modules' \in Seq(Anchor)
        BY <1>0 DEF TablesInv, TypeOK, CacheTypeOK
  <2>2. Len(modules) <= Len(modules') /\ \A k \in 1 .. Len(modules) : modules'[k] = modules[k]
        BY <1>1, <2>1
  <2>3. \A i \in Member : gen'[i] \in 0 .. Len(modules') /\ TableOK(Table(i)', gen'[i], modules', backedges'[i])
        BY <1>1, <2>1, <2>2, TableKept
  <2>4. gen' \in [Member -> 0 .. Len(modules')]
    <3>1. gen' = [i \in Member |-> gen'[i]]
          BY <1>1 DEF tableVars, TablesInv, TypeOK
    <3>2. QED
          BY <2>3, <3>1
  <2>5. /\ saved' \in [Member -> SUBSET Anchor] /\ native' \in [Member -> SUBSET Anchor]
        /\ cold' \in [Member -> SUBSET Fn] /\ backedges' \in [Member -> SUBSET Fn]
        BY <1>1 DEF tableVars, TablesInv, TypeOK
  <2>6. QED
        BY <1>0, <1>1, <2>3, <2>4, <2>5 DEF TypeOK
<1> DEFINE Goal == TypeOK' /\ \A i \in Member : TableOK(Table(i)', gen'[i], modules', backedges'[i])
<1>2. ASSUME UNCHANGED <<tableVars, tried, modules>> PROVE Goal
      BY <1>1, <1>2 DEF TablesInv, TypeOK
<1>3. ASSUME UNCHANGED vars PROVE Goal
  <2>1. UNCHANGED <<tableVars, tried, modules>>
        BY <1>3 DEF vars, cacheVars
  <2> HIDE DEF Goal
  <2>2. QED
        BY <1>2, <2>1
<1>4. ASSUME NEW m \in Member, NEW f \in Fn, Hit(m, f) PROVE Goal
      BY <1>2, <1>4 DEF Hit
<1>5. ASSUME NEW m \in Member, Build(m) PROVE Goal
  <2>1. CASE Claim(m)
        BY <1>2, <2>1 DEF Claim, Claimed
  <2>2. CASE ClaimLost(m)
        BY <1>2, <2>2 DEF ClaimLost, cacheVars
  <2>3. CASE Fail(m)
        BY <1>2, <2>3 DEF Fail, Finish
  <2>4. CASE Publish(m)
    <3>1. job[m].root \in Anchor
          BY <2>4, RequestAddr DEF Publish, TablesInv, CacheInv, BusyInv
    <3>2. UNCHANGED <<tableVars, tried>> /\ modules' = Append(modules, job[m].root)
          BY <2>4 DEF Publish, Finish
    <3>3. QED
          BY <1>1, <3>1, <3>2 DEF TablesInv, TypeOK
  <2>5. QED
        BY <1>5, <2>1, <2>2, <2>3, <2>4 DEF Build
<1>6. ASSUME NEW r, Requested(r) PROVE modules' = modules
      BY <1>6 DEF Requested, cacheVars
<1>7. ASSUME NEW m \in Member, NEW a \in Anchor, NEW recorded \in BOOLEAN, Backedge(m, a, recorded) PROVE Goal
  <2>1. UNCHANGED tableVars /\ modules' = modules
        BY <1>6, <1>7 DEF Backedge, cacheVars
  <2>2. tried' \in [Member -> SUBSET Anchor]
        BY <1>7 DEF Backedge, TablesInv, TypeOK
  <2>3. QED
        BY <1>1, <2>1, <2>2
<1>8. ASSUME NEW m \in Member, NEW a \in Anchor, Exit(m, a) PROVE Goal
      BY <1>2, <1>6, <1>8 DEF Exit
<1>9. ASSUME NEW m \in Member, NEW a \in Anchor, Retire(m, a) PROVE Goal
      BY <1>9, TablesRetire
<1>10. ASSUME NEW m \in Member, Sync(m) PROVE Goal
      BY <1>10, TablesSync
<1>11. Goal
  <2> HIDE DEF Goal
  <2>1. QED
        BY <1>3, <1>4, <1>5, <1>7, <1>8, <1>9, <1>10 DEF Next
<1>12. QED
      BY <1>0, <1>11 DEF TablesInv

LEMMA TablesAlways == Spec => []TablesInv
<1>1. Init => TablesInv
  <2> SUFFICES ASSUME Init PROVE TablesInv
      OBVIOUS
  <2>1. CacheInv /\ CacheTypeOK
        BY CacheInit DEF CacheInv
  <2>2. TypeOK
    <3>1. gen \in [Member -> 0 .. Len(modules)]
          BY DEF Init
    <3>2. QED
          BY <2>1, <3>1 DEF TypeOK, Init
  <2>3. ASSUME NEW m \in Member
        PROVE  TableOK(Table(m), gen[m], modules, backedges[m])
    <3>1. /\ Table(m).saved = {} /\ Table(m).native = {} /\ Table(m).cold = {} /\ backedges[m] = Fn
          BY DEF Init, Table
    <3>2. QED
          BY <3>1 DEF TableOK
  <2>4. QED
        BY <2>1, <2>2, <2>3 DEF TablesInv
<1>2. TablesInv /\ [Next]_vars => TablesInv'
      BY TablesNext
<1>3. QED
      BY <1>1, <1>2, PTL DEF Spec

\* Type correctness of the cache and of every member's tables; in particular sync
\* never counts a module as installed that is not published.
THEOREM CacheTypeCorrect == Spec => []TypeOK
<1>1. TablesInv => TypeOK
      BY DEF TablesInv
<1>2. QED
      BY <1>1, TablesAlways, PTL

\* The whole-module entry is in a dispatch table together with a loop of the module only
\* when it was built again after a loop: install retires the entry in favour of the loop.
THEOREM CacheEntryYields == Spec => []EntryYields
<1>1. TablesInv => EntryYields
  <2> SUFFICES ASSUME TablesInv, NEW m \in Member, <<Main, 0>> \in native[m],
                      \E h \in Header : <<Main, h>> \in native[m]
               PROVE  \E j, k \in 1 .. gen[m] :
                         j < k /\ modules[k] = <<Main, 0>> /\ Addr(modules[j]) = Main /\ Ip(modules[j]) # 0
      BY DEF EntryYields
  <2>1. TableOK(Table(m), gen[m], modules, backedges[m]) /\ Table(m).native = native[m]
        BY DEF TablesInv, Table
  <2>2. QED
        BY <2>1 DEF TableOK
<1>2. QED
      BY <1>1, TablesAlways, PTL

\* retire and cool never leave a function silent in threaded code: it reports its back
\* edges, is known as cold, or was revived by an install and has native code.
THEOREM CacheSilentRunsNative == Spec => []SilentRunsNative
<1>1. TablesInv => SilentRunsNative
  <2> SUFFICES ASSUME TablesInv, NEW m \in Member, NEW f \in Fn
               PROVE  f \in backedges[m] \cup cold[m] \/ \E a \in native[m] : Addr(a) = f
      BY DEF SilentRunsNative
  <2>1. TableOK(Table(m), gen[m], modules, backedges[m]) /\ Table(m).native = native[m] /\ Table(m).cold = cold[m]
        BY DEF TablesInv, Table
  <2>2. QED
        BY <2>1 DEF TableOK
<1>2. QED
      BY <1>1, TablesAlways, PTL

-----------------------------------------------------------------------------
(***************************************************************************)
(* What request, claim and finishLocked do to a function's queue, for      *)
(* every set of members, functions and loop headers: it stays coalesced    *)
(* and ordered, and a request leaves it only to be built.                  *)
(***************************************************************************)
\* One request per root, side exits first.
Ordered(q) ==
    \A j, k \in DOMAIN q : j < k =>
        /\ q[j].root # q[k].root
        /\ q[k].trigger = "exit" => q[j].trigger = "exit"

Holds(q, r) == \E k \in DOMAIN q : q[k] = r

-----------------------------------------------------------------------------
(***************************************************************************)
(* The queue operations, position by position.                             *)
(***************************************************************************)
LEMMA InsertedAt ==
    ASSUME NEW S, NEW s \in Seq(S), NEW n \in 1 .. Len(s), NEW e \in S
    PROVE  /\ InsertAt(s, n, e) \in Seq(S) /\ DOMAIN InsertAt(s, n, e) = 1 .. Len(s) + 1
           /\ \A k \in 1 .. n - 1 : InsertAt(s, n, e)[k] = s[k]
           /\ InsertAt(s, n, e)[n] = e
           /\ \A k \in n + 1 .. Len(s) + 1 : InsertAt(s, n, e)[k] = s[k - 1]
<1> DEFINE a == SubSeq(s, 1, n - 1)
           b == SubSeq(s, n, Len(s))
<1>1. /\ a \in Seq(S) /\ Len(a) = n - 1 /\ \A k \in 1 .. n - 1 : a[k] = s[k]
      /\ b \in Seq(S) /\ Len(b) = Len(s) - n + 1 /\ \A k \in 1 .. Len(s) - n + 1 : b[k] = s[n + k - 1]
      OBVIOUS
<1> HIDE DEF a, b
<1>2. /\ a \o <<e>> \in Seq(S) /\ Len(a \o <<e>>) = n
      /\ \A k \in 1 .. n - 1 : (a \o <<e>>)[k] = s[k]
      /\ (a \o <<e>>)[n] = e
  <2>1. <<e>> \in Seq(S) /\ Len(<<e>>) = 1 /\ <<e>>[1] = e
        OBVIOUS
  <2>2. /\ a \o <<e>> \in Seq(S) /\ Len(a \o <<e>>) = Len(a) + 1
        /\ \A i \in 1 .. Len(a) + 1 : (a \o <<e>>)[i] = IF i <= Len(a) THEN a[i] ELSE <<e>>[i - Len(a)]
        BY <1>1, <2>1, ConcatProperties
  <2>3. Len(a) \in Nat /\ Len(a) + 1 = n /\ \A k \in 1 .. n - 1 : a[k] = s[k]
        BY <1>1
  <2>4. (a \o <<e>>)[n] = e
        BY <2>1, <2>2, <2>3
  <2>5. ASSUME NEW k \in 1 .. n - 1
        PROVE  (a \o <<e>>)[k] = s[k]
    <3>1. k \in 1 .. Len(a) + 1 /\ k <= Len(a)
          BY <2>3
    <3>2. QED
          BY <2>2, <2>3, <3>1
  <2>6. QED
        BY <2>2, <2>3, <2>4, <2>5
<1> DEFINE c == a \o <<e>>
<1> HIDE DEF c
<1>3. /\ c \in Seq(S) /\ Len(c) = n /\ c[n] = e /\ \A k \in 1 .. n - 1 : c[k] = s[k]
      BY <1>2 DEF c
<1>4. /\ c \o b \in Seq(S) /\ Len(c \o b) = Len(s) + 1
      /\ \A k \in 1 .. n : (c \o b)[k] = c[k]
      /\ \A k \in n + 1 .. Len(s) + 1 : (c \o b)[k] = b[k - n]
  <2>1. /\ c \o b \in Seq(S) /\ Len(c \o b) = Len(c) + Len(b)
        /\ \A i \in 1 .. Len(c) + Len(b) : (c \o b)[i] = IF i <= Len(c) THEN c[i] ELSE b[i - Len(c)]
        BY <1>1, <1>3, ConcatProperties
  <2>2. QED
        BY <1>1, <1>3, <2>1
<1>5. InsertAt(s, n, e) = c \o b
      BY DEF InsertAt, a, b, c
<1>6. /\ \A k \in 1 .. n - 1 : (c \o b)[k] = s[k]
      /\ (c \o b)[n] = e
      BY <1>3, <1>4
<1>7. \A k \in n + 1 .. Len(s) + 1 : (c \o b)[k] = s[k - 1]
  <2> SUFFICES ASSUME NEW k \in n + 1 .. Len(s) + 1
               PROVE  (c \o b)[k] = s[k - 1]
      OBVIOUS
  <2>1. k - n \in 1 .. Len(s) - n + 1 /\ n + (k - n) - 1 = k - 1
        OBVIOUS
  <2>2. (c \o b)[k] = b[k - n] /\ b[k - n] = s[n + (k - n) - 1]
        BY <1>1, <1>4, <2>1
  <2>3. QED
        BY <2>1, <2>2
<1>8. QED
      BY <1>4, <1>5, <1>6, <1>7

LEMMA RemovedAt ==
    ASSUME NEW S, NEW s \in Seq(S), NEW n \in 1 .. Len(s)
    PROVE  /\ RemoveAt(s, n) \in Seq(S) /\ DOMAIN RemoveAt(s, n) = 1 .. Len(s) - 1
           /\ \A k \in 1 .. n - 1 : RemoveAt(s, n)[k] = s[k]
           /\ \A k \in n .. Len(s) - 1 : RemoveAt(s, n)[k] = s[k + 1]
<1> DEFINE a == SubSeq(s, 1, n - 1)
           b == SubSeq(s, n + 1, Len(s))
<1>1. /\ a \in Seq(S) /\ Len(a) = n - 1 /\ \A k \in 1 .. n - 1 : a[k] = s[k]
      /\ b \in Seq(S) /\ Len(b) = Len(s) - n /\ \A k \in 1 .. Len(s) - n : b[k] = s[n + k]
      OBVIOUS
<1> HIDE DEF a, b
<1>2. /\ a \o b \in Seq(S) /\ Len(a \o b) = Len(s) - 1
      /\ \A k \in 1 .. n - 1 : (a \o b)[k] = a[k]
      /\ \A k \in n .. Len(s) - 1 : (a \o b)[k] = b[k - (n - 1)]
  <2>1. /\ a \o b \in Seq(S) /\ Len(a \o b) = Len(a) + Len(b)
        /\ \A i \in 1 .. Len(a) + Len(b) : (a \o b)[i] = IF i <= Len(a) THEN a[i] ELSE b[i - Len(a)]
        BY <1>1, ConcatProperties
  <2>2. Len(a) = n - 1 /\ Len(b) = Len(s) - n /\ Len(s) \in Nat
        BY <1>1
  <2>3. ASSUME NEW k \in 1 .. n - 1
        PROVE  (a \o b)[k] = a[k]
    <3>1. k \in 1 .. Len(a) + Len(b) /\ k <= Len(a)
          BY <2>2
    <3>2. QED
          BY <2>1, <3>1
  <2>4. ASSUME NEW k \in n .. Len(s) - 1
        PROVE  (a \o b)[k] = b[k - (n - 1)]
    <3>1. k \in 1 .. Len(a) + Len(b) /\ ~(k <= Len(a))
          BY <2>2
    <3>2. QED
          BY <2>1, <2>2, <3>1
  <2>5. Len(a \o b) = Len(s) - 1
        BY <2>1, <2>2
  <2>6. QED
        BY <2>1, <2>3, <2>4, <2>5
<1>3. \A k \in n .. Len(s) - 1 : (a \o b)[k] = s[k + 1]
  <2> SUFFICES ASSUME NEW k \in n .. Len(s) - 1
               PROVE  (a \o b)[k] = s[k + 1]
      OBVIOUS
  <2>1. k - (n - 1) \in 1 .. Len(s) - n /\ n + (k - (n - 1)) = k + 1
        OBVIOUS
  <2>2. (a \o b)[k] = b[k - (n - 1)] /\ b[k - (n - 1)] = s[n + (k - (n - 1))]
        BY <1>1, <1>2, <2>1
  <2>3. QED
        BY <2>1, <2>2
<1>4. RemoveAt(s, n) = a \o b
      BY DEF RemoveAt, a, b
<1>5. QED
      BY <1>1, <1>2, <1>3, <1>4

\* A new request for a root takes the place of the one it supersedes.
LEMMA QueueRemoved ==
    ASSUME NEW q \in Seq(Request), Ordered(q), NEW r \in Request, NEW t,
           t = RemoveFirstMatch(q, LAMBDA x : x.root = r.root)
    PROVE  /\ t \in Seq(Request) /\ Ordered(t)
           /\ \A k \in DOMAIN t : t[k].root # r.root /\ Holds(q, t[k])
           /\ \A k \in DOMAIN q : q[k].root # r.root => Holds(t, q[k])
<1> DEFINE I == {k \in 1 .. Len(q) : q[k].root = r.root}
           n == Min(I)
<1>1. Len(q) \in Nat /\ DOMAIN q = 1 .. Len(q) /\ I \in SUBSET (1 .. Len(q))
      OBVIOUS
<1>2. CASE I = {}
  <2>1. t = q
        BY <1>2 DEF RemoveFirstMatch
  <2>2. QED
        BY <1>1, <1>2, <2>1 DEF Holds
<1>3. CASE I # {}
  <2>1. SelectInSeq(q, LAMBDA x : x.root = r.root) = n
        BY <1>3 DEF SelectInSeq
  <2>2. t = RemoveAt(q, n)
        BY <1>3, <2>1 DEF RemoveFirstMatch
  <2>3. n \in 1 .. Len(q) /\ n \in I
    <3> HIDE DEF I
    <3>1. QED
          BY <1>1, <1>3, FirstIndex
  <2>4. q[n].root = r.root
        BY <2>3
  <2> HIDE DEF n, I
  <2>5. /\ t \in Seq(Request) /\ DOMAIN t = 1 .. Len(q) - 1
        /\ \A k \in 1 .. n - 1 : t[k] = q[k]
        /\ \A k \in n .. Len(q) - 1 : t[k] = q[k + 1]
        BY <2>2, <2>3, RemovedAt
  <2> DEFINE at(k) == IF k < n THEN k ELSE k + 1
  <2>6. \A k \in DOMAIN t : at(k) \in DOMAIN q /\ at(k) # n /\ t[k] = q[at(k)]
    <3> SUFFICES ASSUME NEW k \in DOMAIN t
                 PROVE  at(k) \in DOMAIN q /\ at(k) # n /\ t[k] = q[at(k)]
        OBVIOUS
    <3>1. CASE k < n
      <4>1. k \in 1 .. n - 1 /\ k \in 1 .. Len(q) /\ at(k) = k /\ k # n
            BY <1>1, <2>3, <2>5, <3>1
      <4>2. QED
            BY <4>1, <1>1, <2>5
    <3>2. CASE ~(k < n)
      <4>1. k \in n .. Len(q) - 1 /\ k + 1 \in 1 .. Len(q) /\ at(k) = k + 1 /\ k + 1 # n
            BY <1>1, <2>3, <2>5, <3>2
      <4>2. QED
            BY <4>1, <1>1, <2>5
    <3>3. QED
          BY <3>1, <3>2
  <2>7. \A j, k \in DOMAIN t : j < k => at(j) < at(k)
        BY <1>1, <2>3, <2>5
  <2>8. \A k \in DOMAIN q : k # n => \E j \in DOMAIN t : at(j) = k
    <3> SUFFICES ASSUME NEW k \in DOMAIN q, k # n
                 PROVE  \E j \in DOMAIN t : at(j) = k
        OBVIOUS
    <3>0. k \in Nat /\ n \in Nat
          BY <1>1, <2>3
    <3>1. CASE k < n
      <4>1. k \in DOMAIN t /\ at(k) = k
            BY <1>1, <2>3, <2>5, <3>1
      <4>2. QED
            BY <4>1
    <3>2. CASE k > n
      <4>1. k - 1 \in DOMAIN t /\ at(k - 1) = k
            BY <1>1, <2>3, <2>5, <3>2
      <4>2. QED
            BY <4>1
    <3>3. k < n \/ k > n
          BY <3>0
    <3>4. QED
          BY <3>1, <3>2, <3>3
  <2>9. \A k \in DOMAIN q : k # n => q[k].root # r.root
    <3> SUFFICES ASSUME NEW k \in DOMAIN q, k # n
                 PROVE  q[k].root # r.root
        OBVIOUS
    <3>1. n \in DOMAIN q /\ (k < n \/ n < k)
          BY <1>1, <2>3
    <3>2. QED
          BY <3>1, <2>4 DEF Ordered
  <2> HIDE DEF at
  <2>10. Ordered(t)
    <3> SUFFICES ASSUME NEW j \in DOMAIN t, NEW k \in DOMAIN t, j < k
                 PROVE  t[j].root # t[k].root /\ (t[k].trigger = "exit" => t[j].trigger = "exit")
        BY DEF Ordered
    <3>1. /\ at(j) \in DOMAIN q /\ at(k) \in DOMAIN q /\ at(j) < at(k)
          /\ t[j] = q[at(j)] /\ t[k] = q[at(k)]
          BY <2>6, <2>7
    <3>2. QED
          BY <3>1 DEF Ordered
  <2>11. \A k \in DOMAIN t : t[k].root # r.root /\ Holds(q, t[k])
        BY <2>6, <2>9 DEF Holds
  <2>12. \A k \in DOMAIN q : q[k].root # r.root => Holds(t, q[k])
    <3> SUFFICES ASSUME NEW k \in DOMAIN q, q[k].root # r.root
                 PROVE  Holds(t, q[k])
        OBVIOUS
    <3>1. k # n
          BY <2>4
    <3>2. PICK j \in DOMAIN t : at(j) = k
          BY <2>8, <3>1
    <3>3. QED
          BY <2>6, <3>2 DEF Holds
  <2>13. QED
        BY <2>5, <2>10, <2>11, <2>12
<1>4. QED
      BY <1>2, <1>3

\* A side exit goes behind the side exits, a hot root to the end.
LEMMA QueuePlaced ==
    ASSUME NEW q \in Seq(Request), Ordered(q), NEW r \in Request, \A k \in DOMAIN q : q[k].root # r.root
    PROVE  /\ Placed(q, r) \in Seq(Request) /\ Ordered(Placed(q, r)) /\ Holds(Placed(q, r), r)
           /\ \A k \in DOMAIN q : Holds(Placed(q, r), q[k])
           /\ \A k \in DOMAIN Placed(q, r) : Placed(q, r)[k] = r \/ Holds(q, Placed(q, r)[k])
<1> DEFINE t == Placed(q, r)
           I == {k \in 1 .. Len(q) : q[k].trigger # "exit"}
           n == IF I # {} THEN Min(I) ELSE 0
<1>1. Len(q) \in Nat /\ DOMAIN q = 1 .. Len(q) /\ I \in SUBSET (1 .. Len(q))
      OBVIOUS
<1>2. SelectInSeq(q, LAMBDA x : x.trigger # "exit") = n
      BY DEF SelectInSeq
<1>3. /\ n # 0 => n \in 1 .. Len(q) /\ q[n].trigger # "exit" /\ \A k \in 1 .. n - 1 : q[k].trigger = "exit"
      /\ n = 0 => \A k \in 1 .. Len(q) : q[k].trigger = "exit"
  <2>1. CASE I = {}
        BY <2>1
  <2>2. CASE I # {}
    <3>1. n \in 1 .. Len(q) /\ n \in I /\ \A y \in I : n <= y
      <4> HIDE DEF I
      <4>1. QED
            BY <1>1, <2>2, FirstIndex
    <3> HIDE DEF n
    <3>2. \A k \in 1 .. n - 1 : k \in 1 .. Len(q) /\ k \notin I
          BY <1>1, <3>1
    <3>3. QED
          BY <3>1, <3>2
  <2>3. QED
        BY <2>1, <2>2
<1>4. t = IF r.trigger = "exit" /\ n # 0 THEN InsertAt(q, n, r) ELSE Append(q, r)
      BY <1>2 DEF Placed
<1> HIDE DEF I, n, t
<1>5. CASE r.trigger = "exit" /\ n # 0
  <2>1. /\ t \in Seq(Request) /\ DOMAIN t = 1 .. Len(q) + 1 /\ t[n] = r
        /\ \A k \in 1 .. n - 1 : t[k] = q[k]
        /\ \A k \in n + 1 .. Len(q) + 1 : t[k] = q[k - 1]
    <3>1. n \in 1 .. Len(q) /\ t = InsertAt(q, n, r)
          BY <1>3, <1>4, <1>5
    <3>2. QED
          BY <3>1, InsertedAt
  <2>2. n \in 1 .. Len(q) /\ n \in DOMAIN t
        BY <1>1, <1>3, <1>5, <2>1
  <2> DEFINE at(k) == IF k < n THEN k ELSE k - 1
  <2>3. \A k \in DOMAIN t : k # n => at(k) \in DOMAIN q /\ t[k] = q[at(k)]
        BY <1>1, <2>1, <2>2
  <2>4. \A j, k \in DOMAIN t : j # n /\ k # n /\ j < k => at(j) < at(k)
        BY <1>1, <2>1, <2>2
  <2>5. \A k \in DOMAIN q : \E j \in DOMAIN t : j # n /\ at(j) = k
    <3> SUFFICES ASSUME NEW k \in DOMAIN q
                 PROVE  \E j \in DOMAIN t : j # n /\ at(j) = k
        OBVIOUS
    <3>1. CASE k < n
          BY <1>1, <2>1, <2>2, <3>1
    <3>2. CASE k >= n
      <4>1. k + 1 \in DOMAIN t /\ k + 1 # n /\ at(k + 1) = k
            BY <1>1, <2>1, <2>2, <3>2
      <4>2. QED
            BY <4>1
    <3>3. QED
          BY <1>1, <2>2, <3>1, <3>2
  <2>6. \A k \in DOMAIN t : k < n => t[k].trigger = "exit" /\ t[k].root # r.root
    <3> SUFFICES ASSUME NEW k \in DOMAIN t, k < n
                 PROVE  t[k].trigger = "exit" /\ t[k].root # r.root
        OBVIOUS
    <3>1. k \in 1 .. n - 1 /\ k \in DOMAIN q
          BY <1>1, <2>1, <2>2
    <3>2. QED
          BY <3>1, <2>1, <1>3, <1>5
  <2>7. \A k \in DOMAIN t : n < k => t[k].trigger # "exit" /\ t[k].root # r.root
    <3> SUFFICES ASSUME NEW k \in DOMAIN t, n < k
                 PROVE  t[k].trigger # "exit" /\ t[k].root # r.root
        OBVIOUS
    <3>1. k \in n + 1 .. Len(q) + 1 /\ k - 1 \in DOMAIN q /\ (n = k - 1 \/ n < k - 1) /\ n \in DOMAIN q
          BY <1>1, <2>1, <2>2
    <3>2. t[k] = q[k - 1]
          BY <3>1, <2>1
    <3>3. q[k - 1].trigger # "exit"
          BY <3>1, <1>3, <1>5 DEF Ordered
    <3>4. QED
          BY <3>1, <3>2, <3>3
  <2> HIDE DEF at
  <2>8. Ordered(t)
    <3> SUFFICES ASSUME NEW j \in DOMAIN t, NEW k \in DOMAIN t, j < k
                 PROVE  t[j].root # t[k].root /\ (t[k].trigger = "exit" => t[j].trigger = "exit")
        BY DEF Ordered
    <3>1. CASE j = n
          BY <3>1, <2>1, <2>7, <1>5
    <3>2. CASE k = n
          BY <3>2, <2>1, <2>6
    <3>3. CASE j # n /\ k # n
          BY <3>3, <2>3, <2>4 DEF Ordered
    <3>4. QED
          BY <3>1, <3>2, <3>3
  <2>9. Holds(t, r) /\ \A k \in DOMAIN t : t[k] = r \/ Holds(q, t[k])
        BY <2>1, <2>2, <2>3 DEF Holds
  <2>10. \A k \in DOMAIN q : Holds(t, q[k])
        BY <2>3, <2>5 DEF Holds
  <2>11. QED
        BY <2>1, <2>8, <2>9, <2>10 DEF t
<1>6. CASE ~(r.trigger = "exit" /\ n # 0)
  <2>1. /\ t \in Seq(Request) /\ DOMAIN t = 1 .. Len(q) + 1 /\ t[Len(q) + 1] = r
        /\ \A k \in 1 .. Len(q) : t[k] = q[k]
        BY <1>4, <1>6
  <2>2. \A k \in DOMAIN t : k = Len(q) + 1 \/ (k \in DOMAIN q /\ k < Len(q) + 1)
        BY <1>1, <2>1
  <2>3. Len(q) + 1 \in DOMAIN t /\ \A k \in DOMAIN q : k \in DOMAIN t /\ t[k] = q[k]
        BY <1>1, <2>1
  <2>4. r.trigger = "exit" => \A k \in DOMAIN q : q[k].trigger = "exit"
        BY <1>1, <1>3, <1>6
  <2>5. Ordered(t)
    <3> SUFFICES ASSUME NEW j \in DOMAIN t, NEW k \in DOMAIN t, j < k
                 PROVE  t[j].root # t[k].root /\ (t[k].trigger = "exit" => t[j].trigger = "exit")
        BY DEF Ordered
    <3>1. j \in DOMAIN q
          BY <1>1, <2>1
    <3>2. CASE k = Len(q) + 1
          BY <3>1, <3>2, <2>1, <2>3, <2>4
    <3>3. CASE k \in DOMAIN q
          BY <3>1, <3>3, <2>3 DEF Ordered
    <3>4. QED
          BY <2>2, <3>2, <3>3
  <2>6. Holds(t, r) /\ \A k \in DOMAIN t : t[k] = r \/ Holds(q, t[k])
        BY <2>1, <2>2, <2>3 DEF Holds
  <2>7. \A k \in DOMAIN q : Holds(t, q[k])
        BY <2>3 DEF Holds
  <2>8. QED
        BY <2>1, <2>5, <2>6, <2>7 DEF t
<1>7. QED
      BY <1>5, <1>6

LEMMA RequestTrigger ==
    ASSUME NEW r \in Request
    PROVE  r.trigger \in {"hot", "exit"} /\ Covers(r, r)
  BY DEF Request, Covers

\* What becomes of a queue that request adds to: it keeps its order, gains the new
\* request and loses nothing but what the new request covers.
LEMMA QueueEnqueued ==
    ASSUME NEW q \in Seq(Request), Ordered(q), NEW r \in Request, NEW t, t = Enqueued(q, r),
           ~ \E k \in DOMAIN q : Covers(q[k], r)
    PROVE  /\ Ordered(t)
           /\ \A k \in DOMAIN t : t[k] = r \/ Holds(q, t[k])
           /\ \A k \in DOMAIN q : Waits(q[k], t)
<1> DEFINE u == RemoveFirstMatch(q, LAMBDA x : x.root = r.root)
<1>1. t = Placed(u, r)
      BY DEF Enqueued
<1>2. /\ u \in Seq(Request) /\ Ordered(u)
      /\ \A k \in DOMAIN u : u[k].root # r.root /\ Holds(q, u[k])
      /\ \A k \in DOMAIN q : q[k].root # r.root => Holds(u, q[k])
      BY QueueRemoved
<1> HIDE DEF u
<1>3. /\ t \in Seq(Request) /\ Ordered(t) /\ Holds(t, r)
      /\ \A k \in DOMAIN u : Holds(t, u[k])
      /\ \A k \in DOMAIN t : t[k] = r \/ Holds(u, t[k])
      BY <1>1, <1>2, QueuePlaced
<1>4. \A k \in DOMAIN t : t[k] = r \/ Holds(q, t[k])
      BY <1>2, <1>3 DEF Holds
<1>5. ASSUME NEW k \in DOMAIN q
      PROVE  Waits(q[k], t)
  <2>0. q[k] \in Request
        OBVIOUS
  <2>1. q[k].trigger \in {"hot", "exit"} /\ r.trigger \in {"hot", "exit"}
        BY <2>0, RequestTrigger
  <2>2. CASE q[k].root # r.root
    <3>1. Holds(t, q[k])
          BY <1>2, <1>3, <2>2 DEF Holds
    <3>2. PICK i \in DOMAIN t : t[i] = q[k]
          BY <3>1 DEF Holds
    <3>3. Covers(t[i], q[k])
          BY <3>2, <2>1 DEF Covers
    <3>4. QED
          BY <3>3 DEF Waits
  <2>3. CASE q[k].root = r.root
    <3>1. q[k].trigger = "hot" /\ r.trigger = "exit"
          BY <2>1, <2>3 DEF Covers
    <3>2. PICK i \in DOMAIN t : t[i] = r
          BY <1>3 DEF Holds
    <3>3. Covers(t[i], q[k])
          BY <3>1, <3>2, <2>3 DEF Covers
    <3>4. QED
          BY <3>3 DEF Waits
  <2>4. QED
        BY <2>2, <2>3
<1>6. QED
      BY <1>3, <1>4, <1>5

-----------------------------------------------------------------------------
(***************************************************************************)
(* Every step keeps the queues coalesced and every request waiting.        *)
(***************************************************************************)
QueueOK(q, act) == Ordered(q) /\ \A k \in DOMAIN q : ~Covers(act, q[k])

\* What a step may do to the queue of f.
Keeps(f) ==
    \A k \in DOMAIN pending[f] : Waits(pending[f][k], pending'[f]) \/ active'[f] = pending[f][k]

LEMMA CoalescedIs ==
    CacheInv => (QueueCoalesced <=> \A f \in Fn : QueueOK(pending[f], active[f]))
<1> SUFFICES ASSUME CacheInv
             PROVE  QueueCoalesced <=> \A f \in Fn : QueueOK(pending[f], active[f])
    OBVIOUS
<1>1. \A f \in Fn : \A k \in DOMAIN pending[f] : Addr(pending[f][k].root) = f
  <2> SUFFICES ASSUME NEW f \in Fn, NEW k \in DOMAIN pending[f]
               PROVE  Addr(pending[f][k].root) = f
      OBVIOUS
  <2>1. pending[f] \in Seq(RequestOf(f))
        BY DEF CacheInv, OwnQueue
  <2>2. pending[f][k] \in RequestOf(f)
        BY <2>1
  <2>3. QED
        BY <2>2 DEF RequestOf
<1>2. QED
      BY <1>1 DEF QueueCoalesced, QueueOK, Ordered

LEMMA SelfWaits ==
    ASSUME NEW q \in Seq(Request)
    PROVE  \A k \in DOMAIN q : Waits(q[k], q)
<1>1. \A k \in DOMAIN q : Covers(q[k], q[k])
      BY RequestTrigger
<1>2. QED
      BY <1>1 DEF Waits

\* A step that leaves a queue alone, and at most ends the build of its function.
LEMMA QueueSame ==
    ASSUME CacheInv, NEW f \in Fn, QueueOK(pending[f], active[f]), pending'[f] = pending[f],
           active'[f] = active[f] \/ active'[f] = NoRequest
    PROVE  QueueOK(pending'[f], active'[f]) /\ Keeps(f)
<1>1. \A x : ~Covers(NoRequest, x)
      BY DEF Covers, NoRequest
<1>2. QueueOK(pending'[f], active'[f])
      BY <1>1 DEF QueueOK
<1>3. pending[f] \in Seq(Request)
      BY DEF CacheInv, CacheTypeOK
<1>4. Keeps(f)
      BY <1>3, SelfWaits DEF Keeps
<1>5. QED
      BY <1>2, <1>4

\* request: a covered request changes nothing, another is placed.
LEMMA QueueRequested ==
    ASSUME CacheInv, NEW f \in Fn, QueueOK(pending[f], active[f]), NEW r \in Request, Requested(r)
    PROVE  QueueOK(pending'[f], active'[f]) /\ Keeps(f)
<1>1. CASE UNCHANGED cacheVars
  <2>1. pending'[f] = pending[f] /\ active'[f] = active[f]
        BY <1>1 DEF cacheVars
  <2>2. QED
        BY <2>1, QueueSame
<1>2. CASE ~UNCHANGED cacheVars
  <2> DEFINE g == Addr(r.root)
  <2>1. g \in Fn
        BY RequestAddr
  <2>2. /\ ~Covers(active[g], r) /\ ~\E k \in DOMAIN pending[g] : Covers(pending[g][k], r)
        /\ pending' = [pending EXCEPT ![g] = Enqueued(@, r)] /\ active' = active
        BY <1>2 DEF Requested
  <2> HIDE DEF g
  <2>3. pending \in [Fn -> Seq(Request)]
        BY DEF CacheInv, CacheTypeOK
  <2>4. CASE f # g
    <3>1. pending'[f] = pending[f] /\ active'[f] = active[f]
          BY <2>1, <2>2, <2>3, <2>4
    <3>2. QED
          BY <3>1, QueueSame
  <2>5. CASE f = g
    <3>1. pending'[f] = Enqueued(pending[f], r) /\ active'[f] = active[f] /\ pending[f] \in Seq(Request)
          BY <2>1, <2>2, <2>3, <2>5
    <3>2. /\ Ordered(pending'[f])
          /\ \A k \in DOMAIN pending'[f] : pending'[f][k] = r \/ Holds(pending[f], pending'[f][k])
          /\ \A k \in DOMAIN pending[f] : Waits(pending[f][k], pending'[f])
          BY <2>2, <2>5, <3>1, QueueEnqueued DEF QueueOK
    <3>3. \A k \in DOMAIN pending'[f] : ~Covers(active[f], pending'[f][k])
          BY <2>2, <2>5, <3>2 DEF QueueOK, Holds
    <3>4. QED
          BY <3>1, <3>2, <3>3 DEF QueueOK, Keeps
  <2>6. QED
        BY <2>4, <2>5
<1>3. QED
      BY <1>1, <1>2

\* claim: the first request leaves the queue and is the one built.
LEMMA QueueClaim ==
    ASSUME CacheInv, NEW f \in Fn, QueueOK(pending[f], active[f]), NEW m \in Member, Claim(m)
    PROVE  QueueOK(pending'[f], active'[f]) /\ Keeps(f)
<1> DEFINE g == Addr(job[m].root)
           q == pending[f]
<1>1. g \in Fn
      BY RequestAddr DEF Claim, CacheInv, BusyInv
<1>2. pending \in [Fn -> Seq(Request)] /\ active \in [Fn -> Request \cup {NoRequest}]
      BY DEF CacheInv, CacheTypeOK
<1>3. /\ active' = [active EXCEPT ![g] = IF pending[g] = <<>> THEN HotEntry(g) ELSE Head(pending[g])]
      /\ pending' = [pending EXCEPT ![g] = IF @ = <<>> THEN @ ELSE Tail(@)]
      BY DEF Claim, Claimed
<1> HIDE DEF g
<1>4. CASE f # g
  <2>1. pending'[f] = pending[f] /\ active'[f] = active[f]
        BY <1>1, <1>2, <1>3, <1>4
  <2>2. QED
        BY <2>1, QueueSame
<1>5. CASE f = g /\ q = <<>>
  <2>1. pending'[f] = <<>>
        BY <1>1, <1>2, <1>3, <1>5
  <2>2. \A k : k \notin DOMAIN pending'[f] /\ k \notin DOMAIN pending[f]
        BY <1>5, <2>1
  <2>3. QED
        BY <2>2 DEF QueueOK, Ordered, Keeps
<1>6. CASE f = g /\ q # <<>>
  <2> DEFINE t == pending'[f]
  <2>1. t = Tail(q) /\ active'[f] = Head(q) /\ q \in Seq(Request)
        BY <1>1, <1>2, <1>3, <1>6
  <2>2. /\ Len(q) \in Nat /\ Len(q) >= 1 /\ DOMAIN q = 1 .. Len(q) /\ active'[f] = q[1]
        /\ DOMAIN t = 1 .. Len(q) - 1
        BY <2>1, <1>6
  <2>3. \A k \in 1 .. Len(q) - 1 : t[k] = q[k + 1]
        BY <2>1, <1>6
  <2> HIDE DEF t, q
  <2>4. \A k \in DOMAIN t : k \in Nat /\ k + 1 \in DOMAIN q /\ 1 < k + 1 /\ t[k] = q[k + 1]
        BY <2>2, <2>3
  <2>5. 1 \in DOMAIN q /\ Ordered(q)
        BY <2>2 DEF QueueOK, q
  <2>6. Ordered(t)
    <3> SUFFICES ASSUME NEW j \in DOMAIN t, NEW k \in DOMAIN t, j < k
                 PROVE  t[j].root # t[k].root /\ (t[k].trigger = "exit" => t[j].trigger = "exit")
        BY DEF Ordered
    <3>1. /\ j + 1 \in DOMAIN q /\ k + 1 \in DOMAIN q /\ j + 1 < k + 1
          /\ t[j] = q[j + 1] /\ t[k] = q[k + 1]
          BY <2>4
    <3>2. QED
          BY <3>1, <2>5 DEF Ordered
  <2>7. \A k \in DOMAIN t : ~Covers(q[1], t[k])
    <3> SUFFICES ASSUME NEW k \in DOMAIN t
                 PROVE  q[1].root # t[k].root
        BY DEF Covers
    <3>1. QED
          BY <2>4, <2>5 DEF Ordered
  <2>8. \A k \in DOMAIN q : Waits(q[k], t) \/ q[1] = q[k]
    <3> SUFFICES ASSUME NEW k \in DOMAIN q, k # 1
                 PROVE  Waits(q[k], t)
        OBVIOUS
    <3>1. k - 1 \in DOMAIN t /\ (k - 1) + 1 = k
          BY <2>2
    <3>2. t[k - 1] = q[k]
          BY <2>4, <3>1
    <3>3. Covers(t[k - 1], q[k])
          BY <3>2, <2>1, RequestTrigger
    <3>4. QED
          BY <3>1, <3>3 DEF Waits
  <2>9. QED
        BY <2>2, <2>6, <2>7, <2>8 DEF QueueOK, Keeps, t, q
<1>7. QED
      BY <1>4, <1>5, <1>6

\* The two ends of a build, and whatever does not touch the cache.
LEMMA QueueStep ==
    ASSUME CacheInv, NEW f \in Fn, QueueOK(pending[f], active[f]), [Next]_vars
    PROVE  QueueOK(pending'[f], active'[f]) /\ Keeps(f)
<1> DEFINE Done == QueueOK(pending'[f], active'[f]) /\ Keeps(f)
<1>0. active \in [Fn -> Request \cup {NoRequest}]
      BY DEF CacheInv, CacheTypeOK
<1>1. ASSUME UNCHANGED <<pending, active>>
      PROVE  Done
      BY <1>1, QueueSame
<1>2. CASE UNCHANGED vars
      BY <1>2, <1>1 DEF vars, cacheVars
<1>3. ASSUME NEW m \in Member, NEW g \in Fn, Hit(m, g)
      PROVE  Done
      BY <1>3, <1>1 DEF Hit
<1>4. ASSUME NEW m \in Member, Build(m)
      PROVE  Done
  <2>1. CASE Claim(m)
        BY <2>1, QueueClaim
  <2>2. CASE ClaimLost(m)
        BY <2>2, <1>1 DEF ClaimLost, cacheVars
  <2>3. CASE Fail(m) \/ Publish(m)
    <3>1. Finish(m, Addr(job[m].root))
          BY <2>3 DEF Fail, Publish
    <3>2. pending' = pending /\ (active'[f] = active[f] \/ active'[f] = NoRequest)
          BY <3>1, <1>0 DEF Finish
    <3>3. QED
          BY <3>2, QueueSame
  <2>4. QED
        BY <1>4, <2>1, <2>2, <2>3 DEF Build
<1>5. ASSUME NEW m \in Member, NEW a \in Anchor, NEW recorded \in BOOLEAN, Backedge(m, a, recorded)
      PROVE  Done
  <2>1. [root |-> a, trigger |-> "hot"] \in Request
        BY DEF Request
  <2>2. CASE recorded
        BY <1>5, <2>1, <2>2, QueueRequested DEF Backedge
  <2>3. CASE ~recorded
        BY <1>5, <2>3, <1>1 DEF Backedge, cacheVars
  <2>4. QED
        BY <2>2, <2>3
<1>6. ASSUME NEW m \in Member, NEW a \in Anchor, Exit(m, a)
      PROVE  Done
  <2>1. [root |-> a, trigger |-> "exit"] \in Request
        BY DEF Request
  <2>2. QED
        BY <1>6, <2>1, QueueRequested DEF Exit
<1>7. ASSUME NEW m \in Member, NEW a \in Anchor, Retire(m, a)
      PROVE  Done
      BY <1>7, <1>1 DEF Retire, cacheVars
<1>8. ASSUME NEW m \in Member, Sync(m)
      PROVE  Done
      BY <1>8, <1>1 DEF Sync, cacheVars
<1>9. QED
      BY <1>2, <1>3, <1>4, <1>5, <1>6, <1>7, <1>8 DEF Next

\* The queues' invariant: with the cache's own, every queue is coalesced.
QueueInv == CacheInv /\ QueueCoalesced

LEMMA QueueAlways == Spec => []QueueInv
<1>1. Init => QueueInv
  <2> SUFFICES ASSUME Init PROVE QueueInv
      OBVIOUS
  <2>1. \A f \in Fn : pending[f] = <<>>
        BY DEF Init
  <2>2. QueueCoalesced
        BY <2>1 DEF QueueCoalesced
  <2>3. QED
        BY <2>2, CacheInit DEF QueueInv
<1>2. QueueInv /\ [Next]_vars => QueueInv'
  <2> SUFFICES ASSUME QueueInv, [Next]_vars PROVE QueueInv'
      OBVIOUS
  <2>1. CacheInv'
        BY CacheNext DEF QueueInv
  <2>2. \A f \in Fn : QueueOK(pending[f], active[f])
        BY CoalescedIs DEF QueueInv
  <2>3. \A f \in Fn : QueueOK(pending'[f], active'[f])
        BY <2>2, QueueStep DEF QueueInv
  <2>4. (CacheInv => (QueueCoalesced <=> \A f \in Fn : QueueOK(pending[f], active[f])))'
        BY CoalescedIs, PTL
  <2>5. (\A f \in Fn : QueueOK(pending[f], active[f]))'
        BY <2>3 DEF QueueOK, Ordered
  <2>6. QED
        BY <2>1, <2>4, <2>5 DEF QueueInv
<1>3. QED
      BY <1>1, <1>2, PTL DEF Spec

\* The queue of a function holds one request per root, all of them the function's own,
\* side exits before hot roots, and nothing the active build covers: what cache.request
\* does with covers, the removal of the superseded request and the place it inserts at.
THEOREM CacheQueueCoalesced == Spec => []QueueCoalesced
<1>1. QueueInv => QueueCoalesced
      BY DEF QueueInv
<1>2. QED
      BY <1>1, QueueAlways, PTL

\* No step of any member makes a queued request vanish: it stays in the queue at its
\* priority or a higher one until claim hands it to the member that builds it.
THEOREM CacheRequestKept == Spec => RequestKept
<1>1. QueueInv /\ [Next]_vars =>
        [\A f \in Fn : \A k \in DOMAIN pending[f] :
            \/ Waits(pending[f][k], pending'[f])
            \/ active'[f] = pending[f][k]]_vars
  <2> SUFFICES ASSUME QueueInv, [Next]_vars
               PROVE  \A f \in Fn : Keeps(f)
      BY DEF Keeps
  <2>1. \A f \in Fn : QueueOK(pending[f], active[f])
        BY CoalescedIs DEF QueueInv
  <2>2. QED
        BY <2>1, QueueStep DEF QueueInv
<1>2. QED
      BY <1>1, QueueAlways, PTL DEF Spec, RequestKept
=============================================================================
