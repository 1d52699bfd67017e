----------------------------- MODULE PoolProofs -----------------------------
(***************************************************************************)
(* Safety of the interpreter pool for every set of clients and every size. *)
(*                                                                         *)
(* The safety properties of Pool are consequences of PoolInv, an inductive *)
(* invariant whose parts are named in Pool.  Each part has a lemma that    *)
(* says every step keeps it, with one case per action; the theorems at the *)
(* end put the parts together.                                             *)
(***************************************************************************)
EXTENDS Pool, TLAPS, FiniteSetTheorems

PoolInv ==
    /\ TypeOK
    /\ LockInv
    /\ HandInv
    /\ PhaseInv
    /\ GrowInv
    /\ ParkInv
    /\ LoanInv
    /\ SlotInv
    /\ LiveCounted
    /\ AttachInv
    /\ RefsExact

\* The live slots and the attached interpreters are finitely many.
LEMMA SlotFinite ==
    ASSUME TypeOK
    PROVE  IsFiniteSet(made) /\ IsFiniteSet(attached)
BY InterpAssumption, FS_Subset DEF TypeOK

\* Removing a member takes one off the cardinality.
LEMMA RemoveOne ==
    ASSUME NEW S, NEW x \in S, IsFiniteSet(S)
    PROVE  Cardinality(S \ {x}) = Cardinality(S) - 1
BY FS_RemoveElement

\* A non-empty finite set has a positive cardinality.
LEMMA NonEmpty ==
    ASSUME NEW S, NEW x \in S, IsFiniteSet(S)
    PROVE  Cardinality(S) \in Nat /\ Cardinality(S) > 0
<1>1. Cardinality(S) \in Nat
      BY FS_CardinalityType
<1>2. Cardinality(S) # 0
      BY FS_EmptySet
<1>3. QED
      BY <1>1, <1>2

\* live.Add(-1) never takes the counter below zero.
LEMMA LivePositive ==
    ASSUME TypeOK, LiveCounted, NEW i \in made
    PROVE  live - 1 \in 0 .. Size
<1>1. Cardinality(made) > 0
      BY SlotFinite, NonEmpty
<1>2. QED
      BY <1>1, SizeAssumption DEF TypeOK, LiveCounted

\* Nor does a detach, or the pool's own close, the cache's reference count.
LEMMA RefsPositive ==
    ASSUME TypeOK, RefsExact, ~cclosed \/ attached # {}
    PROVE  refs - 1 \in Nat
<1>1. Cardinality(attached) \in Nat /\ (attached # {} => Cardinality(attached) > 0)
      BY SlotFinite, FS_CardinalityType, FS_EmptySet
<1>2. QED
      BY <1>1 DEF TypeOK, RefsExact

\* Close's loop receives the next interpreter only after it is done with the last.
LEMMA NoDrainTwice ==
    ASSUME PhaseInv, NEW c \in Client, pc[c] = "drain"
    PROVE  draining = NoInterp
BY DEF PhaseInv

\* The readers and the announced writer are where the program counters say.
LEMMA LockStep ==
    ASSUME TypeOK, LockInv, ParkInv, Next
    PROVE  LockInv'
<1> USE SizeAssumption, InterpAssumption, NilAssumption DEF TypeOK, LockInv, RLocked, PCs, Goto, RUnlock, lockVars, chanVars, cacheVars
<1>1. PICK c \in Client : \/ StartGet(c) \/ StartPut(c) \/ StartClose(c)
                            \/ GetStep(c) \/ PutStep(c) \/ CloseStep(c)
                            \/ WaitCancel(c) \/ ParkCancel(c) \/ Publish(c) \/ Sync(c)
      BY DEF Next
<1>2. CASE StartGet(c)  BY <1>2 DEF StartGet
<1>3. CASE StartPut(c)  BY <1>3 DEF StartPut
<1>4. CASE StartClose(c)  BY <1>4 DEF StartClose
<1>5. CASE GetEnter(c)
  <2>0. pc[c] = "get"
        BY <1>5 DEF GetEnter
  <2>1. CASE closed
    <3>1. pc' = [pc EXCEPT ![c] = "rest"] /\ readers' = readers /\ writer' = writer
          BY <1>5, <2>1 DEF GetEnter
    <3>2. QED
          BY <3>1, <2>0
  <2>2. CASE ~closed
    <3>1. pc' = [pc EXCEPT ![c] = "poll"] /\ readers' = readers \cup {c} /\ writer' = writer
          BY <1>5, <2>2 DEF GetEnter
    <3>2. QED
          BY <3>1, <2>0
  <2>3. QED
        BY <2>1, <2>2
<1>6. CASE GetReuse(c)  BY <1>6 DEF GetReuse
<1>7. CASE GetMiss(c)  BY <1>7 DEF GetMiss
<1>8. CASE GrowLoad(c)  BY <1>8 DEF GrowLoad
<1>9. CASE GrowReserve(c)  BY <1>9 DEF GrowReserve
<1>10. CASE GrowRetry(c)  BY <1>10 DEF GrowRetry
<1>11. CASE New(c)  BY <1>11 DEF New
<1>12. CASE WaitReceive(c)  BY <1>12 DEF WaitReceive
<1>13. CASE WaitClosed(c)  BY <1>13 DEF WaitClosed
<1>14. CASE WaitPark(c)  BY <1>14 DEF WaitPark
<1>15. CASE PutEnter(c)  BY <1>15 DEF PutEnter
<1>16. CASE PutHandOff(c)
  <2> DEFINE d == Head(waitq)
  <2>1. d \in Client /\ pc[d] = "parked" /\ d # c /\ pc[c] = "send"
        BY <1>16 DEF PutHandOff, ParkInv
  <2>2. pc' = [pc EXCEPT ![d] = "hold", ![c] = "rest"] /\ readers' = readers \ {c} /\ writer' = writer
        BY <1>16 DEF PutHandOff
  <2> HIDE DEF d
  <2>3. QED
        BY <2>1, <2>2
<1>17. CASE PutSend(c)
  <2>1. CASE Len(idle) < Size
        BY <1>17, <2>1 DEF PutSend
  <2>2. CASE ~(Len(idle) < Size)
    <3>1. /\ pc[c] = "send" /\ pc' = [pc EXCEPT ![c] = "drop"]
          /\ readers' = readers /\ writer' = writer
          BY <1>17, <2>2 DEF PutSend
    <3>2. QED
          BY <3>1
  <2>3. QED
        BY <2>1, <2>2
<1>18. CASE DropClose(c)  BY <1>18 DEF DropClose, Detach
<1>19. CASE DropLive(c)  BY <1>19 DEF DropLive
<1>20. CASE CloseAnnounce(c)  BY <1>20 DEF CloseAnnounce
<1>21. CASE CloseMark(c)
  <2>0. pc[c] = "mark" /\ readers' = readers /\ writer' = NoClient
        BY <1>21 DEF CloseMark
  <2>1. CASE closed
    <3>1. \E l \in {"rest", "hold"} : pc' = [pc EXCEPT ![c] = l]
          BY <1>21, <2>1 DEF CloseMark, Returned
    <3>2. QED
          BY <3>1, <2>0
  <2>2. CASE ~closed
    <3>1. pc' = [d \in Client |-> IF d = c THEN "drain"
                                  ELSE IF pc[d] = "parked" THEN "rest" ELSE pc[d]]
          BY <1>21, <2>2 DEF CloseMark
    <3>2. QED
          BY <3>1, <2>0
  <2>3. QED
        BY <2>1, <2>2
<1>22. CASE DrainReceive(c)  BY <1>22 DEF DrainReceive
<1>23. CASE DrainClose(c)  BY <1>23 DEF DrainClose, Detach
<1>24. CASE DrainLive(c)  BY <1>24 DEF DrainLive
<1>25. CASE CloseCache(c)  BY <1>25 DEF CloseCache, Returned
<1>26. CASE WaitCancel(c)  BY <1>26 DEF WaitCancel
<1>27. CASE ParkCancel(c)  BY <1>27 DEF ParkCancel
<1>28. CASE Publish(c)  BY <1>28 DEF Publish
<1>29. CASE Sync(c)  BY <1>29 DEF Sync
<1>30. QED
      BY <1>1, <1>2, <1>3, <1>4, <1>5, <1>6, <1>7, <1>8, <1>9, <1>10, <1>11,
         <1>12, <1>13, <1>14, <1>15, <1>16, <1>17, <1>18, <1>19, <1>20, <1>21,
         <1>22, <1>23, <1>24, <1>25, <1>26, <1>27, <1>28, <1>29
      DEF GetStep, PutStep, CloseStep

\* A client has an interpreter in hand exactly between Get's return and Put's.
LEMMA HandStep ==
    ASSUME TypeOK, HandInv, ParkInv, Next
    PROVE  HandInv'
<1> USE SizeAssumption, InterpAssumption, NilAssumption DEF TypeOK, HandInv, ParkInv, PCs, Goto, RUnlock, lockVars, chanVars, cacheVars
<1>1. PICK c \in Client : \/ StartGet(c) \/ StartPut(c) \/ StartClose(c)
                            \/ GetStep(c) \/ PutStep(c) \/ CloseStep(c)
                            \/ WaitCancel(c) \/ ParkCancel(c) \/ Publish(c) \/ Sync(c)
      BY DEF Next
<1>2. CASE StartGet(c)  BY <1>2 DEF StartGet
<1>3. CASE StartPut(c)  BY <1>3 DEF StartPut
<1>4. CASE StartClose(c)  BY <1>4 DEF StartClose
<1>5. CASE GetEnter(c)  BY <1>5 DEF GetEnter
<1>6. CASE GetReuse(c)  BY <1>6 DEF GetReuse
<1>7. CASE GetMiss(c)  BY <1>7 DEF GetMiss
<1>8. CASE GrowLoad(c)  BY <1>8 DEF GrowLoad
<1>9. CASE GrowReserve(c)  BY <1>9 DEF GrowReserve
<1>10. CASE GrowRetry(c)  BY <1>10 DEF GrowRetry
<1>11. CASE New(c)  BY <1>11 DEF New
<1>12. CASE WaitReceive(c)  BY <1>12 DEF WaitReceive
<1>13. CASE WaitClosed(c)  BY <1>13 DEF WaitClosed
<1>14. CASE WaitPark(c)  BY <1>14 DEF WaitPark
<1>15. CASE PutEnter(c)  BY <1>15 DEF PutEnter
<1>16. CASE PutHandOff(c)  BY <1>16 DEF PutHandOff
<1>17. CASE PutSend(c)
  <2>1. CASE Len(idle) < Size
        BY <1>17, <2>1 DEF PutSend
  <2>2. CASE ~(Len(idle) < Size)
        BY <1>17, <2>2 DEF PutSend
  <2>3. QED
        BY <2>1, <2>2
<1>18. CASE DropClose(c)  BY <1>18 DEF DropClose, Detach
<1>19. CASE DropLive(c)  BY <1>19 DEF DropLive
<1>20. CASE CloseAnnounce(c)  BY <1>20 DEF CloseAnnounce
<1>21. CASE CloseMark(c)  BY <1>21 DEF CloseMark, Returned
<1>22. CASE DrainReceive(c)  BY <1>22 DEF DrainReceive
<1>23. CASE DrainClose(c)  BY <1>23 DEF DrainClose, Detach
<1>24. CASE DrainLive(c)  BY <1>24 DEF DrainLive
<1>25. CASE CloseCache(c)  BY <1>25 DEF CloseCache, Returned
<1>26. CASE WaitCancel(c)  BY <1>26 DEF WaitCancel
<1>27. CASE ParkCancel(c)  BY <1>27 DEF ParkCancel
<1>28. CASE Publish(c)  BY <1>28 DEF Publish
<1>29. CASE Sync(c)  BY <1>29 DEF Sync
<1>30. QED
      BY <1>1, <1>2, <1>3, <1>4, <1>5, <1>6, <1>7, <1>8, <1>9, <1>10, <1>11,
         <1>12, <1>13, <1>14, <1>15, <1>16, <1>17, <1>18, <1>19, <1>20, <1>21,
         <1>22, <1>23, <1>24, <1>25, <1>26, <1>27, <1>28, <1>29
      DEF GetStep, PutStep, CloseStep

\* The closed check made under the lock still holds where it is relied upon, and
\* one client at most drains.
LEMMA PhaseStep ==
    ASSUME TypeOK, LockInv, PhaseInv, ParkInv, Next
    PROVE  PhaseInv'
<1> USE SizeAssumption, InterpAssumption, NilAssumption DEF TypeOK, LockInv, PhaseInv, ParkInv, RLocked, PCs, Goto, RUnlock, lockVars, chanVars, cacheVars
<1>1. PICK c \in Client : \/ StartGet(c) \/ StartPut(c) \/ StartClose(c)
                            \/ GetStep(c) \/ PutStep(c) \/ CloseStep(c)
                            \/ WaitCancel(c) \/ ParkCancel(c) \/ Publish(c) \/ Sync(c)
      BY DEF Next
<1>2. CASE StartGet(c)  BY <1>2 DEF StartGet
<1>3. CASE StartPut(c)  BY <1>3 DEF StartPut
<1>4. CASE StartClose(c)  BY <1>4 DEF StartClose
<1>5. CASE GetEnter(c)
  <2>1. /\ pc[c] = "get" /\ closed' = closed /\ cclosed' = cclosed /\ draining' = draining
        BY <1>5 DEF GetEnter
  <2>2. CASE closed
    <3>1. pc' = [pc EXCEPT ![c] = "rest"]
          BY <1>5, <2>2 DEF GetEnter
    <3>2. QED
          BY <2>1, <3>1
  <2>3. CASE ~closed
    <3>1. pc' = [pc EXCEPT ![c] = "poll"]
          BY <1>5, <2>3 DEF GetEnter
    <3>2. QED
          BY <2>1, <2>3, <3>1
  <2>4. QED
        BY <2>2, <2>3
<1>6. CASE GetReuse(c)  BY <1>6 DEF GetReuse
<1>7. CASE GetMiss(c)  BY <1>7 DEF GetMiss
<1>8. CASE GrowLoad(c)  BY <1>8 DEF GrowLoad
<1>9. CASE GrowReserve(c)  BY <1>9 DEF GrowReserve
<1>10. CASE GrowRetry(c)  BY <1>10 DEF GrowRetry
<1>11. CASE New(c)  BY <1>11 DEF New
<1>12. CASE WaitReceive(c)  BY <1>12 DEF WaitReceive
<1>13. CASE WaitClosed(c)  BY <1>13 DEF WaitClosed
<1>14. CASE WaitPark(c)  BY <1>14 DEF WaitPark
<1>15. CASE PutEnter(c)  BY <1>15 DEF PutEnter
<1>16. CASE PutHandOff(c)  BY <1>16 DEF PutHandOff
<1>17. CASE PutSend(c)  BY <1>17 DEF PutSend
<1>18. CASE DropClose(c)  BY <1>18 DEF DropClose, Detach
<1>19. CASE DropLive(c)  BY <1>19 DEF DropLive
<1>20. CASE CloseAnnounce(c)  BY <1>20 DEF CloseAnnounce
<1>21. CASE CloseMark(c)
  <2>1. CASE closed
    <3>1. \E l \in {"rest", "hold"} : pc' = [pc EXCEPT ![c] = l]
          BY <1>21, <2>1 DEF CloseMark, Returned
    <3>2. pc[c] = "mark" /\ closed' = closed /\ cclosed' = cclosed /\ draining' = draining
          BY <1>21, <2>1 DEF CloseMark
    <3>3. \A d \in Client : pc'[d] \in {"rest", "hold"} \/ pc'[d] = pc[d]
          BY <3>1
    <3>4. \A d \in Client : pc[d] \in {"drainClose", "drainLive"} => pc'[d] = pc[d]
          BY <3>1, <3>2
    <3>5. draining' # NoInterp => \E d \in Client : pc'[d] \in {"drainClose", "drainLive"}
          BY <3>2, <3>4
    <3>6. QED
          BY <2>1, <3>2, <3>3, <3>5
  <2>2. CASE ~closed
    <3>1. pc' = [d \in Client |-> IF d = c THEN "drain"
                                  ELSE IF pc[d] = "parked" THEN "rest" ELSE pc[d]]
          BY <1>21, <2>2 DEF CloseMark
    <3>2. \A d \in Client : pc[d] \notin {"poll", "load", "cas", "new", "send"}
          BY <1>21 DEF CloseMark
    <3>3. \A d \in Client : pc[d] \notin {"drain", "drainClose", "drainLive"}
          BY <2>2
    <3>4. closed' /\ cclosed' = cclosed /\ ~cclosed /\ draining' = draining /\ draining = NoInterp
          BY <1>21, <2>2, <3>3 DEF CloseMark
    <3>5. \A d \in Client : pc'[d] \in {"drain", "drainClose", "drainLive"} => d = c /\ pc'[d] = "drain"
          BY <3>1, <3>3
    <3>6. \A d \in Client : pc'[d] \notin {"poll", "load", "cas", "new", "send"}
          BY <3>1, <3>2
    <3>7. QED
          BY <3>4, <3>5, <3>6
  <2>3. QED
        BY <2>1, <2>2
<1>22. CASE DrainReceive(c)  BY <1>22 DEF DrainReceive
<1>23. CASE DrainClose(c)  BY <1>23 DEF DrainClose, Detach
<1>24. CASE DrainLive(c)  BY <1>24 DEF DrainLive
<1>25. CASE CloseCache(c)  BY <1>25 DEF CloseCache, Returned
<1>26. CASE WaitCancel(c)  BY <1>26 DEF WaitCancel
<1>27. CASE ParkCancel(c)  BY <1>27 DEF ParkCancel
<1>28. CASE Publish(c)  BY <1>28 DEF Publish
<1>29. CASE Sync(c)  BY <1>29 DEF Sync
<1>30. QED
      BY <1>1, <1>2, <1>3, <1>4, <1>5, <1>6, <1>7, <1>8, <1>9, <1>10, <1>11,
         <1>12, <1>13, <1>14, <1>15, <1>16, <1>17, <1>18, <1>19, <1>20, <1>21,
         <1>22, <1>23, <1>24, <1>25, <1>26, <1>27, <1>28, <1>29
      DEF GetStep, PutStep, CloseStep

\* The value grow compares with was below the size when it was loaded.
LEMMA GrowStep ==
    ASSUME TypeOK, GrowInv, ParkInv, Next
    PROVE  GrowInv'
<1> USE SizeAssumption, InterpAssumption, NilAssumption DEF TypeOK, GrowInv, ParkInv, PCs, Goto, RUnlock, lockVars, chanVars, cacheVars
<1>1. PICK c \in Client : \/ StartGet(c) \/ StartPut(c) \/ StartClose(c)
                            \/ GetStep(c) \/ PutStep(c) \/ CloseStep(c)
                            \/ WaitCancel(c) \/ ParkCancel(c) \/ Publish(c) \/ Sync(c)
      BY DEF Next
<1>2. CASE StartGet(c)  BY <1>2 DEF StartGet
<1>3. CASE StartPut(c)  BY <1>3 DEF StartPut
<1>4. CASE StartClose(c)  BY <1>4 DEF StartClose
<1>5. CASE GetEnter(c)  BY <1>5 DEF GetEnter
<1>6. CASE GetReuse(c)  BY <1>6 DEF GetReuse
<1>7. CASE GetMiss(c)  BY <1>7 DEF GetMiss
<1>8. CASE GrowLoad(c)  BY <1>8 DEF GrowLoad
<1>9. CASE GrowReserve(c)  BY <1>9 DEF GrowReserve
<1>10. CASE GrowRetry(c)  BY <1>10 DEF GrowRetry
<1>11. CASE New(c)  BY <1>11 DEF New
<1>12. CASE WaitReceive(c)  BY <1>12 DEF WaitReceive
<1>13. CASE WaitClosed(c)  BY <1>13 DEF WaitClosed
<1>14. CASE WaitPark(c)  BY <1>14 DEF WaitPark
<1>15. CASE PutEnter(c)  BY <1>15 DEF PutEnter
<1>16. CASE PutHandOff(c)  BY <1>16 DEF PutHandOff
<1>17. CASE PutSend(c)  BY <1>17 DEF PutSend
<1>18. CASE DropClose(c)  BY <1>18 DEF DropClose, Detach
<1>19. CASE DropLive(c)  BY <1>19 DEF DropLive
<1>20. CASE CloseAnnounce(c)  BY <1>20 DEF CloseAnnounce
<1>21. CASE CloseMark(c)  BY <1>21 DEF CloseMark, Returned
<1>22. CASE DrainReceive(c)  BY <1>22 DEF DrainReceive
<1>23. CASE DrainClose(c)  BY <1>23 DEF DrainClose, Detach
<1>24. CASE DrainLive(c)  BY <1>24 DEF DrainLive
<1>25. CASE CloseCache(c)  BY <1>25 DEF CloseCache, Returned
<1>26. CASE WaitCancel(c)  BY <1>26 DEF WaitCancel
<1>27. CASE ParkCancel(c)  BY <1>27 DEF ParkCancel
<1>28. CASE Publish(c)  BY <1>28 DEF Publish
<1>29. CASE Sync(c)  BY <1>29 DEF Sync
<1>30. QED
      BY <1>1, <1>2, <1>3, <1>4, <1>5, <1>6, <1>7, <1>8, <1>9, <1>10, <1>11,
         <1>12, <1>13, <1>14, <1>15, <1>16, <1>17, <1>18, <1>19, <1>20, <1>21,
         <1>22, <1>23, <1>24, <1>25, <1>26, <1>27, <1>28, <1>29
      DEF GetStep, PutStep, CloseStep

\* The channel's queue holds the parked clients, each once, while it is open.
LEMMA ParkStep ==
    ASSUME TypeOK, LockInv, PhaseInv, ParkInv, Next
    PROVE  ParkInv'
<1> USE SizeAssumption, InterpAssumption, NilAssumption DEF TypeOK, LockInv, PhaseInv, ParkInv, RLocked, PCs, Goto, RUnlock, lockVars, chanVars, cacheVars
<1>1. PICK c \in Client : \/ StartGet(c) \/ StartPut(c) \/ StartClose(c)
                            \/ GetStep(c) \/ PutStep(c) \/ CloseStep(c)
                            \/ WaitCancel(c) \/ ParkCancel(c) \/ Publish(c) \/ Sync(c)
      BY DEF Next
<1>2. CASE StartGet(c)  BY <1>2 DEF StartGet
<1>3. CASE StartPut(c)  BY <1>3 DEF StartPut
<1>4. CASE StartClose(c)  BY <1>4 DEF StartClose
<1>5. CASE GetEnter(c)  BY <1>5 DEF GetEnter
<1>6. CASE GetReuse(c)  BY <1>6 DEF GetReuse
<1>7. CASE GetMiss(c)  BY <1>7 DEF GetMiss
<1>8. CASE GrowLoad(c)  BY <1>8 DEF GrowLoad
<1>9. CASE GrowReserve(c)  BY <1>9 DEF GrowReserve
<1>10. CASE GrowRetry(c)  BY <1>10 DEF GrowRetry
<1>11. CASE New(c)  BY <1>11 DEF New
<1>12. CASE WaitReceive(c)  BY <1>12 DEF WaitReceive
<1>13. CASE WaitClosed(c)  BY <1>13 DEF WaitClosed
<1>14. CASE WaitPark(c)  BY <1>14 DEF WaitPark
<1>15. CASE PutEnter(c)  BY <1>15 DEF PutEnter
<1>16. CASE PutHandOff(c)  BY <1>16 DEF PutHandOff
<1>17. CASE PutSend(c)  BY <1>17 DEF PutSend
<1>18. CASE DropClose(c)  BY <1>18 DEF DropClose, Detach
<1>19. CASE DropLive(c)  BY <1>19 DEF DropLive
<1>20. CASE CloseAnnounce(c)  BY <1>20 DEF CloseAnnounce
<1>21. CASE CloseMark(c)  BY <1>21 DEF CloseMark, Returned
<1>22. CASE DrainReceive(c)  BY <1>22 DEF DrainReceive
<1>23. CASE DrainClose(c)  BY <1>23 DEF DrainClose, Detach
<1>24. CASE DrainLive(c)  BY <1>24 DEF DrainLive
<1>25. CASE CloseCache(c)  BY <1>25 DEF CloseCache, Returned
<1>26. CASE WaitCancel(c)  BY <1>26 DEF WaitCancel
<1>27. CASE ParkCancel(c)
  <2>1. PICK k \in 1 .. Len(waitq) :
           /\ waitq[k] = c
           /\ waitq' = [j \in 1 .. Len(waitq) - 1 |-> IF j < k THEN waitq[j] ELSE waitq[j + 1]]
        BY <1>27 DEF ParkCancel
  <2>2. Len(waitq') = Len(waitq) - 1
        BY <2>1
  <2>3. \A j \in 1 .. Len(waitq) - 1 : waitq'[j] = IF j < k THEN waitq[j] ELSE waitq[j + 1]
        BY <2>1
  <2>4. \A j \in 1 .. Len(waitq) - 1 : waitq'[j] # c /\ waitq'[j] \in Client /\ pc[waitq'[j]] = "parked"
        BY <2>1, <2>3
  <2>5. pc' = [pc EXCEPT ![c] = "rest"] /\ closed' = closed
        BY <1>27 DEF ParkCancel
  <2>6. \A j \in 1 .. Len(waitq') : pc'[waitq'[j]] = "parked"
        BY <2>2, <2>4, <2>5
  <2>7. \A j, m \in 1 .. Len(waitq') : j # m => waitq'[j] # waitq'[m]
    <3> SUFFICES ASSUME NEW j \in 1 .. Len(waitq) - 1, NEW m \in 1 .. Len(waitq) - 1, j # m
                 PROVE  waitq'[j] # waitq'[m]
        BY <2>2
    <3> DEFINE p == IF j < k THEN j ELSE j + 1
               q == IF m < k THEN m ELSE m + 1
    <3>1. p \in 1 .. Len(waitq) /\ q \in 1 .. Len(waitq) /\ p # q
          OBVIOUS
    <3>2. waitq'[j] = waitq[p] /\ waitq'[m] = waitq[q]
          BY <2>3
    <3> HIDE DEF p, q
    <3>3. QED
          BY <3>1, <3>2
  <2>8. waitq' # <<>> => ~closed'
        BY <2>1, <2>5
  <2>9. QED
        BY <2>6, <2>7, <2>8
<1>28. CASE Publish(c)  BY <1>28 DEF Publish
<1>29. CASE Sync(c)  BY <1>29 DEF Sync
<1>30. QED
      BY <1>1, <1>2, <1>3, <1>4, <1>5, <1>6, <1>7, <1>8, <1>9, <1>10, <1>11,
         <1>12, <1>13, <1>14, <1>15, <1>16, <1>17, <1>18, <1>19, <1>20, <1>21,
         <1>22, <1>23, <1>24, <1>25, <1>26, <1>27, <1>28, <1>29
      DEF GetStep, PutStep, CloseStep

\* No interpreter is ever in two places.
LEMMA LoanStep ==
    ASSUME TypeOK, HandInv, PhaseInv, ParkInv, LoanInv, Next
    PROVE  LoanInv'
<1> USE SizeAssumption, InterpAssumption, NilAssumption DEF TypeOK, HandInv, PhaseInv, ParkInv, LoanInv, PCs, Goto, RUnlock, lockVars, chanVars, cacheVars
<1>1. PICK c \in Client : \/ StartGet(c) \/ StartPut(c) \/ StartClose(c)
                            \/ GetStep(c) \/ PutStep(c) \/ CloseStep(c)
                            \/ WaitCancel(c) \/ ParkCancel(c) \/ Publish(c) \/ Sync(c)
      BY DEF Next
<1>2. CASE StartGet(c)  BY <1>2 DEF StartGet
<1>3. CASE StartPut(c)  BY <1>3 DEF StartPut
<1>4. CASE StartClose(c)  BY <1>4 DEF StartClose
<1>5. CASE GetEnter(c)  BY <1>5 DEF GetEnter
<1>6. CASE GetReuse(c)  BY <1>6 DEF GetReuse
<1>7. CASE GetMiss(c)  BY <1>7 DEF GetMiss
<1>8. CASE GrowLoad(c)  BY <1>8 DEF GrowLoad
<1>9. CASE GrowReserve(c)  BY <1>9 DEF GrowReserve
<1>10. CASE GrowRetry(c)  BY <1>10 DEF GrowRetry
<1>11. CASE New(c)  BY <1>11 DEF New
<1>12. CASE WaitReceive(c)  BY <1>12 DEF WaitReceive
<1>13. CASE WaitClosed(c)  BY <1>13 DEF WaitClosed
<1>14. CASE WaitPark(c)  BY <1>14 DEF WaitPark
<1>15. CASE PutEnter(c)  BY <1>15 DEF PutEnter
<1>16. CASE PutHandOff(c)
  <2> DEFINE d == Head(waitq)
  <2>0. has \in [Client -> Interp \cup {NoInterp}] /\ LoanInv
        OBVIOUS
  <2>1. d \in Client /\ d # c /\ has[d] = NoInterp /\ has[c] # NoInterp
        BY <1>16 DEF PutHandOff
  <2>2. /\ has' = [has EXCEPT ![d] = has[c], ![c] = NoInterp]
        /\ idle' = idle /\ made' = made /\ draining' = draining
        BY <1>16 DEF PutHandOff
  <2> HIDE DEF d, TypeOK, HandInv, PhaseInv, ParkInv, PCs, Goto, RUnlock, lockVars, chanVars, cacheVars, LoanInv
  <2>3. has'[d] = has[c] /\ has'[c] = NoInterp /\ \A e \in Client \ {c, d} : has'[e] = has[e]
        BY <2>1, <2>2, <2>0
  <2>4. \A e, g \in Client : e # g /\ has'[e] # NoInterp => has'[e] # has'[g]
        BY <2>1, <2>3, <2>0 DEF LoanInv
  <2>5. \A e \in Client : has'[e] # NoInterp => \E g \in Client : has'[e] = has[g]
        BY <2>1, <2>3
  <2>6. \A e \in Client : \A k \in 1 .. Len(idle) : has'[e] # idle[k]
    <3>1. \A k \in 1 .. Len(idle) : NoInterp # idle[k]
          BY <2>1, <2>0 DEF LoanInv
    <3>2. \A e \in Client : has'[e] = NoInterp \/ \E g \in Client : has'[e] = has[g]
          BY <2>5
    <3>3. QED
          BY <3>1, <3>2, <2>0 DEF LoanInv
  <2>7. QED
        BY <2>2, <2>0, <2>4, <2>5, <2>6 DEF LoanInv
<1>17. CASE PutSend(c)
  <2>1. CASE Len(idle) < Size
    <3>1. /\ has' = [has EXCEPT ![c] = NoInterp] /\ idle' = Append(idle, has[c])
          /\ made' = made /\ draining' = draining
          /\ has[c] \in Interp
          BY <1>17, <2>1 DEF PutSend
    <3>2. /\ Len(idle') = Len(idle) + 1
          /\ \A k \in 1 .. Len(idle) + 1 :
                idle'[k] = IF k <= Len(idle) THEN idle[k] ELSE has[c]
          BY <3>1
    <3>3. \A k \in 1 .. Len(idle) + 1 : idle'[k] \in made' /\ idle'[k] # draining'
          BY <3>1, <3>2
    <3>4. \A j, k \in 1 .. Len(idle) + 1 : j # k => idle'[j] # idle'[k]
          BY <3>1, <3>2
    <3>5. \A d \in Client : \A k \in 1 .. Len(idle) + 1 : has'[d] # idle'[k]
          BY <3>1, <3>2
    <3>6. QED
          BY <3>1, <3>2, <3>3, <3>4, <3>5
  <2>2. CASE ~(Len(idle) < Size)
    <3>1. has' = has /\ idle' = idle /\ made' = made /\ draining' = draining
          BY <1>17, <2>2 DEF PutSend
    <3>2. QED
          BY <3>1
  <2>3. QED
        BY <2>1, <2>2
<1>18. CASE DropClose(c)  BY <1>18 DEF DropClose, Detach
<1>19. CASE DropLive(c)  BY <1>19 DEF DropLive
<1>20. CASE CloseAnnounce(c)  BY <1>20 DEF CloseAnnounce
<1>21. CASE CloseMark(c)  BY <1>21 DEF CloseMark, Returned
<1>22. CASE DrainReceive(c)  BY <1>22 DEF DrainReceive
<1>23. CASE DrainClose(c)  BY <1>23 DEF DrainClose, Detach
<1>24. CASE DrainLive(c)  BY <1>24 DEF DrainLive
<1>25. CASE CloseCache(c)  BY <1>25 DEF CloseCache, Returned
<1>26. CASE WaitCancel(c)  BY <1>26 DEF WaitCancel
<1>27. CASE ParkCancel(c)  BY <1>27 DEF ParkCancel
<1>28. CASE Publish(c)  BY <1>28 DEF Publish
<1>29. CASE Sync(c)  BY <1>29 DEF Sync
<1>30. QED
      BY <1>1, <1>2, <1>3, <1>4, <1>5, <1>6, <1>7, <1>8, <1>9, <1>10, <1>11,
         <1>12, <1>13, <1>14, <1>15, <1>16, <1>17, <1>18, <1>19, <1>20, <1>21,
         <1>22, <1>23, <1>24, <1>25, <1>26, <1>27, <1>28, <1>29
      DEF GetStep, PutStep, CloseStep

\* Nor does one get lost: a slot is given up only by live.Add(-1).
LEMMA SlotStep ==
    ASSUME TypeOK, HandInv, PhaseInv, ParkInv, LoanInv, SlotInv, Next
    PROVE  SlotInv'
<1> USE SizeAssumption, InterpAssumption, NilAssumption DEF TypeOK, HandInv, PhaseInv, ParkInv, LoanInv, SlotInv, PCs, Goto, RUnlock, lockVars, chanVars, cacheVars
<1>1. PICK c \in Client : \/ StartGet(c) \/ StartPut(c) \/ StartClose(c)
                            \/ GetStep(c) \/ PutStep(c) \/ CloseStep(c)
                            \/ WaitCancel(c) \/ ParkCancel(c) \/ Publish(c) \/ Sync(c)
      BY DEF Next
<1>2. CASE StartGet(c)  BY <1>2 DEF StartGet
<1>3. CASE StartPut(c)  BY <1>3 DEF StartPut
<1>4. CASE StartClose(c)  BY <1>4 DEF StartClose
<1>5. CASE GetEnter(c)  BY <1>5 DEF GetEnter
<1>6. CASE GetReuse(c)
  <2>1. /\ has' = [has EXCEPT ![c] = Head(idle)] /\ idle' = Tail(idle) /\ made' = made
        /\ idle # <<>> /\ has[c] = NoInterp
        /\ draining' = draining
        BY <1>6 DEF GetReuse
  <2>2. /\ Len(idle') = Len(idle) - 1
        /\ \A k \in 1 .. Len(idle) - 1 : idle'[k] = idle[k + 1]
        BY <2>1
  <2>3. SUFFICES ASSUME NEW i \in made
                 PROVE  \/ \E d \in Client : has'[d] = i
                        \/ \E k \in 1 .. Len(idle') : idle'[k] = i
                        \/ draining' = i
        BY <2>1
  <2>4. CASE \E d \in Client : has[d] = i
        BY <2>1, <2>4
  <2>5. CASE \E k \in 1 .. Len(idle) : idle[k] = i
    <3>1. PICK k \in 1 .. Len(idle) : idle[k] = i
          BY <2>5
    <3>2. CASE k = 1
          BY <2>1, <3>1, <3>2
    <3>3. CASE k # 1
      <4>1. k - 1 \in 1 .. Len(idle') /\ idle'[k - 1] = i
            BY <2>2, <3>1, <3>3
      <4>2. QED
            BY <4>1
    <3>4. QED
          BY <3>2, <3>3
  <2>6. CASE draining = i
        BY <2>1, <2>6
  <2>7. QED
        BY <2>4, <2>5, <2>6
<1>7. CASE GetMiss(c)  BY <1>7 DEF GetMiss
<1>8. CASE GrowLoad(c)  BY <1>8 DEF GrowLoad
<1>9. CASE GrowReserve(c)
  <2>1. has[c] = NoInterp /\ idle' = idle /\ draining' = draining
        BY <1>9 DEF GrowReserve
  <2>2. PICK i \in Interp \ made : made' = made \cup {i} /\ has' = [has EXCEPT ![c] = i]
        BY <1>9 DEF GrowReserve
  <2>3. has'[c] = i /\ \A e \in Client \ {c} : has'[e] = has[e]
        BY <2>2
  <2>4. ASSUME NEW j \in made', NEW e \in Client, has[e] = j, j # i
        PROVE  has'[e] = j
        BY <2>1, <2>2, <2>3, <2>4
  <2>5. QED
        BY <2>1, <2>2, <2>3, <2>4
<1>10. CASE GrowRetry(c)  BY <1>10 DEF GrowRetry
<1>11. CASE New(c)  BY <1>11 DEF New
<1>12. CASE WaitReceive(c)
  <2>1. /\ has' = [has EXCEPT ![c] = Head(idle)] /\ idle' = Tail(idle) /\ made' = made
        /\ idle # <<>> /\ has[c] = NoInterp
        /\ draining' = draining
        BY <1>12 DEF WaitReceive
  <2>2. /\ Len(idle') = Len(idle) - 1
        /\ \A k \in 1 .. Len(idle) - 1 : idle'[k] = idle[k + 1]
        BY <2>1
  <2>3. SUFFICES ASSUME NEW i \in made
                 PROVE  \/ \E d \in Client : has'[d] = i
                        \/ \E k \in 1 .. Len(idle') : idle'[k] = i
                        \/ draining' = i
        BY <2>1
  <2>4. CASE \E d \in Client : has[d] = i
        BY <2>1, <2>4
  <2>5. CASE \E k \in 1 .. Len(idle) : idle[k] = i
    <3>1. PICK k \in 1 .. Len(idle) : idle[k] = i
          BY <2>5
    <3>2. CASE k = 1
          BY <2>1, <3>1, <3>2
    <3>3. CASE k # 1
      <4>1. k - 1 \in 1 .. Len(idle') /\ idle'[k - 1] = i
            BY <2>2, <3>1, <3>3
      <4>2. QED
            BY <4>1
    <3>4. QED
          BY <3>2, <3>3
  <2>6. CASE draining = i
        BY <2>1, <2>6
  <2>7. QED
        BY <2>4, <2>5, <2>6
<1>13. CASE WaitClosed(c)  BY <1>13 DEF WaitClosed
<1>14. CASE WaitPark(c)  BY <1>14 DEF WaitPark
<1>15. CASE PutEnter(c)  BY <1>15 DEF PutEnter
<1>16. CASE PutHandOff(c)
  <2> DEFINE d == Head(waitq)
  <2>1. d \in Client /\ d # c /\ has[d] = NoInterp
        BY <1>16 DEF PutHandOff
  <2>2. /\ has' = [has EXCEPT ![d] = has[c], ![c] = NoInterp]
        /\ idle' = idle /\ made' = made /\ draining' = draining
        BY <1>16 DEF PutHandOff
  <2>3. has'[d] = has[c] /\ \A e \in Client : e # c /\ e # d => has'[e] = has[e]
        BY <2>1, <2>2
  <2> HIDE DEF d
  <2>4. \A i \in Interp : (\E e \in Client : has[e] = i) => \E e \in Client : has'[e] = i
    <3>1. SUFFICES ASSUME NEW i \in Interp, NEW e \in Client, has[e] = i
                   PROVE  \E f \in Client : has'[f] = i
          OBVIOUS
    <3>2. CASE e = c
          BY <2>1, <2>3, <3>1, <3>2
    <3>3. CASE e = d
          BY <2>1, <3>1, <3>3
    <3>4. CASE e # c /\ e # d
          BY <2>3, <3>1, <3>4
    <3>5. QED
          BY <3>2, <3>3, <3>4
  <2>5. QED
        BY <2>2, <2>4
<1>17. CASE PutSend(c)
  <2>1. CASE Len(idle) < Size
    <3>1. /\ has' = [has EXCEPT ![c] = NoInterp] /\ idle' = Append(idle, has[c])
          /\ made' = made /\ draining' = draining
          /\ has[c] \in Interp
          BY <1>17, <2>1 DEF PutSend
    <3>2. /\ Len(idle') = Len(idle) + 1
          /\ idle'[Len(idle) + 1] = has[c]
          /\ \A k \in 1 .. Len(idle) : idle'[k] = idle[k]
          BY <3>1
    <3>3. \A i \in Interp : (\E k \in 1 .. Len(idle) : idle[k] = i) =>
                               \E k \in 1 .. Len(idle') : idle'[k] = i
          BY <3>2
    <3>4. \E k \in 1 .. Len(idle') : idle'[k] = has[c]
          BY <3>2
    <3>5. \A i \in Interp : (\E d \in Client : has[d] = i) =>
                               \/ i = has[c]
                               \/ \E d \in Client : has'[d] = i
          BY <3>1
    <3>6. QED
          BY <3>1, <3>3, <3>4, <3>5
  <2>2. CASE ~(Len(idle) < Size)
    <3>1. has' = has /\ idle' = idle /\ made' = made /\ draining' = draining
          BY <1>17, <2>2 DEF PutSend
    <3>2. QED
          BY <3>1
  <2>3. QED
        BY <2>1, <2>2
<1>18. CASE DropClose(c)  BY <1>18 DEF DropClose, Detach
<1>19. CASE DropLive(c)  BY <1>19 DEF DropLive
<1>20. CASE CloseAnnounce(c)  BY <1>20 DEF CloseAnnounce
<1>21. CASE CloseMark(c)  BY <1>21 DEF CloseMark, Returned
<1>22. CASE DrainReceive(c)
  <2>1. /\ draining' = Head(idle) /\ idle' = Tail(idle) /\ made' = made
        /\ idle # <<>> /\ draining = NoInterp
        /\ has' = has
        BY <1>22, NoDrainTwice DEF DrainReceive
  <2>2. /\ Len(idle') = Len(idle) - 1
        /\ \A k \in 1 .. Len(idle) - 1 : idle'[k] = idle[k + 1]
        BY <2>1
  <2>3. SUFFICES ASSUME NEW i \in made
                 PROVE  \/ \E d \in Client : has'[d] = i
                        \/ \E k \in 1 .. Len(idle') : idle'[k] = i
                        \/ draining' = i
        BY <2>1
  <2>4. CASE \E d \in Client : has[d] = i
        BY <2>1, <2>4
  <2>5. CASE \E k \in 1 .. Len(idle) : idle[k] = i
    <3>1. PICK k \in 1 .. Len(idle) : idle[k] = i
          BY <2>5
    <3>2. CASE k = 1
          BY <2>1, <3>1, <3>2
    <3>3. CASE k # 1
      <4>1. k - 1 \in 1 .. Len(idle') /\ idle'[k - 1] = i
            BY <2>2, <3>1, <3>3
      <4>2. QED
            BY <4>1
    <3>4. QED
          BY <3>2, <3>3
  <2>6. CASE draining = i
        BY <2>1, <2>6
  <2>7. QED
        BY <2>4, <2>5, <2>6
<1>23. CASE DrainClose(c)  BY <1>23 DEF DrainClose, Detach
<1>24. CASE DrainLive(c)  BY <1>24 DEF DrainLive
<1>25. CASE CloseCache(c)  BY <1>25 DEF CloseCache, Returned
<1>26. CASE WaitCancel(c)  BY <1>26 DEF WaitCancel
<1>27. CASE ParkCancel(c)  BY <1>27 DEF ParkCancel
<1>28. CASE Publish(c)  BY <1>28 DEF Publish
<1>29. CASE Sync(c)  BY <1>29 DEF Sync
<1>30. QED
      BY <1>1, <1>2, <1>3, <1>4, <1>5, <1>6, <1>7, <1>8, <1>9, <1>10, <1>11,
         <1>12, <1>13, <1>14, <1>15, <1>16, <1>17, <1>18, <1>19, <1>20, <1>21,
         <1>22, <1>23, <1>24, <1>25, <1>26, <1>27, <1>28, <1>29
      DEF GetStep, PutStep, CloseStep

\* The atomic counter follows the slots and stays within the size.
LEMMA LiveStep ==
    ASSUME TypeOK, HandInv, PhaseInv, GrowInv, LoanInv, LiveCounted, Next
    PROVE  LiveCounted'
<1> USE SizeAssumption, InterpAssumption, NilAssumption DEF TypeOK, HandInv, PhaseInv, GrowInv, LoanInv, LiveCounted, PCs, Goto, RUnlock, lockVars, chanVars, cacheVars
<1>1. PICK c \in Client : \/ StartGet(c) \/ StartPut(c) \/ StartClose(c)
                            \/ GetStep(c) \/ PutStep(c) \/ CloseStep(c)
                            \/ WaitCancel(c) \/ ParkCancel(c) \/ Publish(c) \/ Sync(c)
      BY DEF Next
<1>2. CASE StartGet(c)  BY <1>2 DEF StartGet
<1>3. CASE StartPut(c)  BY <1>3 DEF StartPut
<1>4. CASE StartClose(c)  BY <1>4 DEF StartClose
<1>5. CASE GetEnter(c)  BY <1>5 DEF GetEnter
<1>6. CASE GetReuse(c)  BY <1>6 DEF GetReuse
<1>7. CASE GetMiss(c)  BY <1>7 DEF GetMiss
<1>8. CASE GrowLoad(c)  BY <1>8 DEF GrowLoad
<1>9. CASE GrowReserve(c)
  <2>1. PICK i \in Interp \ made : made' = made \cup {i}
        BY <1>9 DEF GrowReserve
  <2>2. live' = live + 1 /\ live < Size
        BY <1>9 DEF GrowReserve
  <2>3. IsFiniteSet(made)
        BY FS_Subset
  <2>4. Cardinality(made') = Cardinality(made) + 1
        BY <2>1, <2>3, FS_AddElement
  <2>5. QED
        BY <2>2, <2>4
<1>10. CASE GrowRetry(c)  BY <1>10 DEF GrowRetry
<1>11. CASE New(c)  BY <1>11 DEF New
<1>12. CASE WaitReceive(c)  BY <1>12 DEF WaitReceive
<1>13. CASE WaitClosed(c)  BY <1>13 DEF WaitClosed
<1>14. CASE WaitPark(c)  BY <1>14 DEF WaitPark
<1>15. CASE PutEnter(c)  BY <1>15 DEF PutEnter
<1>16. CASE PutHandOff(c)  BY <1>16 DEF PutHandOff
<1>17. CASE PutSend(c)  BY <1>17 DEF PutSend
<1>18. CASE DropClose(c)  BY <1>18 DEF DropClose, Detach
<1>19. CASE DropLive(c)
  <2>1. made' = made \ {has[c]} /\ live' = live - 1 /\ has[c] \in made
        BY <1>19 DEF DropLive
  <2>2. Cardinality(made') = Cardinality(made) - 1
        BY <2>1, SlotFinite, RemoveOne
  <2>3. QED
        BY <2>1, <2>2
<1>20. CASE CloseAnnounce(c)  BY <1>20 DEF CloseAnnounce
<1>21. CASE CloseMark(c)  BY <1>21 DEF CloseMark, Returned
<1>22. CASE DrainReceive(c)  BY <1>22 DEF DrainReceive
<1>23. CASE DrainClose(c)  BY <1>23 DEF DrainClose, Detach
<1>24. CASE DrainLive(c)
  <2>1. made' = made \ {draining} /\ live' = live - 1 /\ draining \in made
        BY <1>24 DEF DrainLive
  <2>2. Cardinality(made') = Cardinality(made) - 1
        BY <2>1, SlotFinite, RemoveOne
  <2>3. QED
        BY <2>1, <2>2
<1>25. CASE CloseCache(c)  BY <1>25 DEF CloseCache, Returned
<1>26. CASE WaitCancel(c)  BY <1>26 DEF WaitCancel
<1>27. CASE ParkCancel(c)  BY <1>27 DEF ParkCancel
<1>28. CASE Publish(c)  BY <1>28 DEF Publish
<1>29. CASE Sync(c)  BY <1>29 DEF Sync
<1>30. QED
      BY <1>1, <1>2, <1>3, <1>4, <1>5, <1>6, <1>7, <1>8, <1>9, <1>10, <1>11,
         <1>12, <1>13, <1>14, <1>15, <1>16, <1>17, <1>18, <1>19, <1>20, <1>21,
         <1>22, <1>23, <1>24, <1>25, <1>26, <1>27, <1>28, <1>29
      DEF GetStep, PutStep, CloseStep

\* The cache counts what is attached, and keeps its code mapped.
LEMMA AttachStep ==
    ASSUME TypeOK, HandInv, PhaseInv, ParkInv, LoanInv, AttachInv, RefsExact, Next
    PROVE  AttachInv'
<1> USE SizeAssumption, InterpAssumption, NilAssumption DEF TypeOK, HandInv, PhaseInv, ParkInv, LoanInv, AttachInv, RefsExact, PCs, Goto, RUnlock, lockVars, chanVars, cacheVars
<1>1. PICK c \in Client : \/ StartGet(c) \/ StartPut(c) \/ StartClose(c)
                            \/ GetStep(c) \/ PutStep(c) \/ CloseStep(c)
                            \/ WaitCancel(c) \/ ParkCancel(c) \/ Publish(c) \/ Sync(c)
      BY DEF Next
<1>2. CASE StartGet(c)  BY <1>2 DEF StartGet
<1>3. CASE StartPut(c)  BY <1>3 DEF StartPut
<1>4. CASE StartClose(c)  BY <1>4 DEF StartClose
<1>5. CASE GetEnter(c)
  <2>1. /\ has' = has /\ idle' = idle /\ made' = made /\ draining' = draining
        /\ attached' = attached /\ installed' = installed /\ mods' = mods
        /\ refs' = refs /\ buffers' = buffers /\ pc[c] = "get"
        BY <1>5 DEF GetEnter
  <2>2. pc' = [pc EXCEPT ![c] = "rest"] \/ pc' = [pc EXCEPT ![c] = "poll"]
        BY <1>5 DEF GetEnter
  <2>3. \A d \in Client : /\ pc'[d] \in {"new", "dropped", "drainClose", "drainLive"} <=>
                             pc[d] \in {"new", "dropped", "drainClose", "drainLive"}
                          /\ pc[d] \in {"new", "dropped", "drainClose", "drainLive"} => pc'[d] = pc[d]
        BY <2>1, <2>2
  <2>4. QED
        BY <2>1, <2>3
<1>6. CASE GetReuse(c)  BY <1>6 DEF GetReuse
<1>7. CASE GetMiss(c)  BY <1>7 DEF GetMiss
<1>8. CASE GrowLoad(c)
  <2>1. /\ has' = has /\ idle' = idle /\ made' = made /\ draining' = draining
        /\ attached' = attached /\ installed' = installed /\ mods' = mods
        /\ refs' = refs /\ buffers' = buffers /\ pc[c] = "load"
        BY <1>8 DEF GrowLoad
  <2>2. pc' = [pc EXCEPT ![c] = "wait"] \/ pc' = [pc EXCEPT ![c] = "cas"]
        BY <1>8 DEF GrowLoad
  <2>3. \A d \in Client : /\ pc'[d] \in {"new", "dropped", "drainClose", "drainLive"} <=>
                             pc[d] \in {"new", "dropped", "drainClose", "drainLive"}
                          /\ pc[d] \in {"new", "dropped", "drainClose", "drainLive"} => pc'[d] = pc[d]
        BY <2>1, <2>2
  <2>4. QED
        BY <2>1, <2>3
<1>9. CASE GrowReserve(c)  BY <1>9 DEF GrowReserve
<1>10. CASE GrowRetry(c)  BY <1>10 DEF GrowRetry
<1>11. CASE New(c)
  <2>1. /\ pc[c] = "new" /\ pc' = [pc EXCEPT ![c] = "hold"] /\ ~cclosed
        /\ has' = has /\ idle' = idle /\ made' = made /\ draining' = draining
        /\ mods' = mods /\ buffers' = buffers /\ has[c] \in made
        BY <1>11 DEF New
  <2>2. /\ attached' = attached \cup {has[c]} /\ refs' = refs + 1
        /\ installed' = [installed EXCEPT ![has[c]] = {}]
        BY <1>11, <2>1 DEF New
  <2>3. refs > 0
        BY <2>1, SlotFinite, FS_CardinalityType
  <2>4. \A i \in attached' : installed'[i] \subseteq mods
        BY <2>1, <2>2
  <2>5. /\ \A d \in Client : pc'[d] \in {"new", "dropped"} => has'[d] \notin attached'
        /\ \A d \in Client : has'[d] # NoInterp /\ pc'[d] \notin {"new", "dropped"} => has'[d] \in attached'
        BY <2>1, <2>2
  <2>6. /\ \A d \in Client : pc'[d] = "drainClose" => draining \in attached'
        /\ \A d \in Client : pc'[d] = "drainLive" => draining \notin attached'
        BY <2>1, <2>2
  <2>7. attached' \subseteq made' /\ \A k \in 1 .. Len(idle') : idle'[k] \in attached'
        BY <2>1, <2>2
  <2>8. QED
        BY <2>1, <2>2, <2>3, <2>4, <2>5, <2>6, <2>7
<1>12. CASE WaitReceive(c)  BY <1>12 DEF WaitReceive
<1>13. CASE WaitClosed(c)  BY <1>13 DEF WaitClosed
<1>14. CASE WaitPark(c)  BY <1>14 DEF WaitPark
<1>15. CASE PutEnter(c)  BY <1>15 DEF PutEnter
<1>16. CASE PutHandOff(c)  BY <1>16 DEF PutHandOff
<1>17. CASE PutSend(c)
  <2>1. CASE Len(idle) < Size
    <3>1. /\ has' = [has EXCEPT ![c] = NoInterp] /\ idle' = Append(idle, has[c])
          /\ made' = made /\ draining' = draining /\ attached' = attached
          /\ installed' = installed /\ mods' = mods /\ refs' = refs /\ buffers' = buffers
          /\ pc[c] = "send" /\ pc' = [pc EXCEPT ![c] = "rest"] /\ has[c] \in attached
          BY <1>17, <2>1 DEF PutSend
    <3>2. \A k \in 1 .. Len(idle') : idle'[k] \in attached
          BY <3>1
    <3>3. \A d \in Client : d # c => has'[d] = has[d] /\ pc'[d] = pc[d]
          BY <3>1
    <3>4. QED
          BY <3>1, <3>2, <3>3
  <2>2. CASE ~(Len(idle) < Size)
    <3>1. /\ has' = has /\ idle' = idle /\ made' = made /\ draining' = draining
          /\ attached' = attached /\ installed' = installed /\ mods' = mods
          /\ refs' = refs /\ buffers' = buffers
          /\ pc[c] = "send" /\ pc' = [pc EXCEPT ![c] = "drop"]
          BY <1>17, <2>2 DEF PutSend
    <3>2. QED
          BY <3>1
  <2>3. QED
        BY <2>1, <2>2
<1>18. CASE DropClose(c)  BY <1>18 DEF DropClose, Detach
<1>19. CASE DropLive(c)  BY <1>19 DEF DropLive
<1>20. CASE CloseAnnounce(c)  BY <1>20 DEF CloseAnnounce
<1>21. CASE CloseMark(c)
  <2>1. /\ has' = has /\ idle' = idle /\ made' = made /\ draining' = draining
        /\ attached' = attached /\ installed' = installed /\ mods' = mods
        /\ refs' = refs /\ buffers' = buffers /\ pc[c] = "mark"
        BY <1>21 DEF CloseMark
  <2>2. \A d \in Client : pc'[d] \in {"rest", "hold", "drain"} \/ pc'[d] = pc[d]
        BY <1>21 DEF CloseMark, Returned
  <2>3. \A d \in Client : pc[d] \in {"new", "dropped"} => pc'[d] = pc[d]
        BY <1>21, <2>1 DEF CloseMark, Returned
  <2>4. QED
        BY <2>1, <2>2, <2>3
<1>22. CASE DrainReceive(c)  BY <1>22 DEF DrainReceive
<1>23. CASE DrainClose(c)  BY <1>23 DEF DrainClose, Detach
<1>24. CASE DrainLive(c)  BY <1>24 DEF DrainLive
<1>25. CASE CloseCache(c)  BY <1>25 DEF CloseCache, Returned
<1>26. CASE WaitCancel(c)  BY <1>26 DEF WaitCancel
<1>27. CASE ParkCancel(c)  BY <1>27 DEF ParkCancel
<1>28. CASE Publish(c)  BY <1>28 DEF Publish
<1>29. CASE Sync(c)  BY <1>29 DEF Sync
<1>30. QED
      BY <1>1, <1>2, <1>3, <1>4, <1>5, <1>6, <1>7, <1>8, <1>9, <1>10, <1>11,
         <1>12, <1>13, <1>14, <1>15, <1>16, <1>17, <1>18, <1>19, <1>20, <1>21,
         <1>22, <1>23, <1>24, <1>25, <1>26, <1>27, <1>28, <1>29
      DEF GetStep, PutStep, CloseStep

\* cache.refs is the number of attached interpreters plus the open pool.
LEMMA RefsStep ==
    ASSUME TypeOK, HandInv, PhaseInv, LoanInv, AttachInv, RefsExact, Next
    PROVE  RefsExact'
<1> USE SizeAssumption, InterpAssumption, NilAssumption DEF TypeOK, HandInv, PhaseInv, LoanInv, AttachInv, RefsExact, PCs, Goto, RUnlock, lockVars, chanVars, cacheVars
<1>1. PICK c \in Client : \/ StartGet(c) \/ StartPut(c) \/ StartClose(c)
                            \/ GetStep(c) \/ PutStep(c) \/ CloseStep(c)
                            \/ WaitCancel(c) \/ ParkCancel(c) \/ Publish(c) \/ Sync(c)
      BY DEF Next
<1>2. CASE StartGet(c)  BY <1>2 DEF StartGet
<1>3. CASE StartPut(c)  BY <1>3 DEF StartPut
<1>4. CASE StartClose(c)  BY <1>4 DEF StartClose
<1>5. CASE GetEnter(c)  BY <1>5 DEF GetEnter
<1>6. CASE GetReuse(c)  BY <1>6 DEF GetReuse
<1>7. CASE GetMiss(c)  BY <1>7 DEF GetMiss
<1>8. CASE GrowLoad(c)  BY <1>8 DEF GrowLoad
<1>9. CASE GrowReserve(c)  BY <1>9 DEF GrowReserve
<1>10. CASE GrowRetry(c)  BY <1>10 DEF GrowRetry
<1>11. CASE New(c)
  <2>1. /\ pc[c] = "new" /\ ~cclosed /\ cclosed' = cclosed /\ has[c] \notin attached
        BY <1>11 DEF New
  <2>2. attached' = attached \cup {has[c]} /\ refs' = refs + 1
        BY <1>11, <2>1 DEF New
  <2>3. Cardinality(attached') = Cardinality(attached) + 1
        BY <2>1, <2>2, SlotFinite, FS_AddElement
  <2>4. Cardinality(attached) \in Nat
        BY SlotFinite, FS_CardinalityType
  <2>5. QED
        BY <2>1, <2>2, <2>3, <2>4
<1>12. CASE WaitReceive(c)  BY <1>12 DEF WaitReceive
<1>13. CASE WaitClosed(c)  BY <1>13 DEF WaitClosed
<1>14. CASE WaitPark(c)  BY <1>14 DEF WaitPark
<1>15. CASE PutEnter(c)  BY <1>15 DEF PutEnter
<1>16. CASE PutHandOff(c)  BY <1>16 DEF PutHandOff
<1>17. CASE PutSend(c)  BY <1>17 DEF PutSend
<1>18. CASE DropClose(c)
  <2>1. has[c] \in attached /\ cclosed' = cclosed
        BY <1>18 DEF DropClose
  <2>2. attached' = attached \ {has[c]} /\ refs' = refs - 1
        BY <1>18, <2>1 DEF DropClose, Detach
  <2>3. Cardinality(attached') = Cardinality(attached) - 1
        BY <2>1, <2>2, SlotFinite, RemoveOne
  <2>4. Cardinality(attached) \in Nat
        BY SlotFinite, FS_CardinalityType
  <2>5. QED
        BY <2>1, <2>2, <2>3, <2>4
<1>19. CASE DropLive(c)  BY <1>19 DEF DropLive
<1>20. CASE CloseAnnounce(c)  BY <1>20 DEF CloseAnnounce
<1>21. CASE CloseMark(c)  BY <1>21 DEF CloseMark, Returned
<1>22. CASE DrainReceive(c)  BY <1>22 DEF DrainReceive
<1>23. CASE DrainClose(c)
  <2>1. draining \in attached /\ cclosed' = cclosed
        BY <1>23 DEF DrainClose
  <2>2. attached' = attached \ {draining} /\ refs' = refs - 1
        BY <1>23, <2>1 DEF DrainClose, Detach
  <2>3. Cardinality(attached') = Cardinality(attached) - 1
        BY <2>1, <2>2, SlotFinite, RemoveOne
  <2>4. Cardinality(attached) \in Nat
        BY SlotFinite, FS_CardinalityType
  <2>5. QED
        BY <2>1, <2>2, <2>3, <2>4
<1>24. CASE DrainLive(c)  BY <1>24 DEF DrainLive
<1>25. CASE CloseCache(c)
  <2>1. ~cclosed /\ attached' = attached
        BY <1>25 DEF CloseCache
  <2>2. cclosed' /\ refs' = refs - 1
        BY <1>25, <2>1 DEF CloseCache
  <2>3. Cardinality(attached) \in Nat
        BY SlotFinite, FS_CardinalityType
  <2>4. QED
        BY <2>1, <2>2, <2>3
<1>26. CASE WaitCancel(c)  BY <1>26 DEF WaitCancel
<1>27. CASE ParkCancel(c)  BY <1>27 DEF ParkCancel
<1>28. CASE Publish(c)  BY <1>28 DEF Publish
<1>29. CASE Sync(c)  BY <1>29 DEF Sync
<1>30. QED
      BY <1>1, <1>2, <1>3, <1>4, <1>5, <1>6, <1>7, <1>8, <1>9, <1>10, <1>11,
         <1>12, <1>13, <1>14, <1>15, <1>16, <1>17, <1>18, <1>19, <1>20, <1>21,
         <1>22, <1>23, <1>24, <1>25, <1>26, <1>27, <1>28, <1>29
      DEF GetStep, PutStep, CloseStep

\* Types are preserved; the two counters need the invariants not to underflow.
LEMMA TypeStep ==
    ASSUME TypeOK, HandInv, PhaseInv, ParkInv, LoanInv, GrowInv, AttachInv, LiveCounted, RefsExact, Next
    PROVE  TypeOK'
<1> USE SizeAssumption, InterpAssumption, NilAssumption DEF TypeOK, HandInv, PhaseInv, ParkInv, LoanInv, GrowInv, PCs, Goto, RUnlock, lockVars, chanVars, cacheVars
<1>1. PICK c \in Client : \/ StartGet(c) \/ StartPut(c) \/ StartClose(c)
                            \/ GetStep(c) \/ PutStep(c) \/ CloseStep(c)
                            \/ WaitCancel(c) \/ ParkCancel(c) \/ Publish(c) \/ Sync(c)
      BY DEF Next
<1>2. CASE StartGet(c)  BY <1>2 DEF StartGet
<1>3. CASE StartPut(c)  BY <1>3 DEF StartPut
<1>4. CASE StartClose(c)  BY <1>4 DEF StartClose
<1>5. CASE GetEnter(c)  BY <1>5 DEF GetEnter
<1>6. CASE GetReuse(c)  BY <1>6 DEF GetReuse
<1>7. CASE GetMiss(c)  BY <1>7 DEF GetMiss
<1>8. CASE GrowLoad(c)
  <2>1. loaded' = [loaded EXCEPT ![c] = live]
        BY <1>8 DEF GrowLoad
  <2>2. UNCHANGED <<has, closed, live, idle, waitq, writer, draining, made, attached,
                    refs, cclosed, mods, buffers, installed>>
        BY <1>8 DEF GrowLoad
  <2>3. readers' \subseteq Client
        BY <1>8 DEF GrowLoad
  <2>4. pc' = [pc EXCEPT ![c] = "wait"] \/ pc' = [pc EXCEPT ![c] = "cas"]
        BY <1>8 DEF GrowLoad
  <2>5. pc' \in [Client -> PCs]
        BY <2>4
  <2>6. loaded' \in [Client -> 0 .. Size]
        BY <2>1
  <2>7. QED
        BY <2>2, <2>3, <2>5, <2>6
<1>9. CASE GrowReserve(c)  BY <1>9 DEF GrowReserve
<1>10. CASE GrowRetry(c)  BY <1>10 DEF GrowRetry
<1>11. CASE New(c)  BY <1>11 DEF New
<1>12. CASE WaitReceive(c)  BY <1>12 DEF WaitReceive
<1>13. CASE WaitClosed(c)  BY <1>13 DEF WaitClosed
<1>14. CASE WaitPark(c)  BY <1>14 DEF WaitPark
<1>15. CASE PutEnter(c)  BY <1>15 DEF PutEnter
<1>16. CASE PutHandOff(c)
  <2> DEFINE d == Head(waitq)
  <2>1. d \in Client /\ Tail(waitq) \in Seq(Client) /\ has[c] \in Interp
        BY <1>16 DEF PutHandOff
  <2>2. /\ has' = [has EXCEPT ![d] = has[c], ![c] = NoInterp]
        /\ pc' = [pc EXCEPT ![d] = "hold", ![c] = "rest"]
        /\ waitq' = Tail(waitq) /\ readers' = readers \ {c}
        /\ UNCHANGED <<loaded, closed, live, idle, writer, draining, made, attached,
                       refs, cclosed, mods, buffers, installed>>
        BY <1>16 DEF PutHandOff
  <2> HIDE DEF d
  <2>3. pc' \in [Client -> PCs] /\ has' \in [Client -> Interp \cup {NoInterp}]
        BY <2>1, <2>2
  <2>4. QED
        BY <2>1, <2>2, <2>3
<1>17. CASE PutSend(c)
  <2>1. has[c] \in Interp /\ Append(idle, has[c]) \in Seq(Interp)
        BY <1>17 DEF PutSend
  <2>2. \/ has' = [has EXCEPT ![c] = NoInterp] /\ idle' = Append(idle, has[c])
        \/ has' = has /\ idle' = idle
        BY <1>17 DEF PutSend
  <2>3. pc' = [pc EXCEPT ![c] = "rest"] \/ pc' = [pc EXCEPT ![c] = "drop"]
        BY <1>17 DEF PutSend
  <2>4. readers' = readers \ {c} \/ readers' = readers
        BY <1>17 DEF PutSend
  <2>5. UNCHANGED <<loaded, closed, live, waitq, writer, draining, made, attached,
                    refs, cclosed, mods, buffers, installed>>
        BY <1>17 DEF PutSend
  <2>6. has' \in [Client -> Interp \cup {NoInterp}]
        BY <2>2
  <2>7. idle' \in Seq(Interp)
        BY <2>1, <2>2
  <2>8. pc' \in [Client -> PCs]
        BY <2>3
  <2>9. readers' \subseteq Client
        BY <2>4
  <2>10. QED
        BY <2>5, <2>6, <2>7, <2>8, <2>9
<1>18. CASE DropClose(c)
  <2>1. has[c] \in attached
        BY <1>18 DEF DropClose, AttachInv
  <2>2. /\ attached' = attached \ {has[c]} /\ refs' = refs - 1
        /\ buffers' = IF refs = 1 THEN {} ELSE buffers
        BY <1>18, <2>1 DEF DropClose, Detach
  <2>3. refs' \in Nat
        BY <2>1, <2>2, RefsPositive
  <2>4. pc' \in [Client -> PCs]
        BY <1>18 DEF DropClose
  <2>5. UNCHANGED <<has, loaded, closed, live, idle, waitq, readers, writer, draining,
                    made, cclosed, mods, installed>>
        BY <1>18 DEF DropClose
  <2>6. QED
        BY <2>2, <2>3, <2>4, <2>5
<1>19. CASE DropLive(c)
  <2>1. has[c] \in made /\ live' = live - 1
        BY <1>19 DEF DropLive
  <2>2. live' \in 0 .. Size
        BY <2>1, LivePositive
  <2>3. QED
        BY <2>2, <1>19 DEF DropLive
<1>20. CASE CloseAnnounce(c)  BY <1>20 DEF CloseAnnounce
<1>21. CASE CloseMark(c)
  <2>1. pc' \in [Client -> PCs]
        BY <1>21 DEF CloseMark, Returned
  <2>2. closed' \in BOOLEAN
        BY <1>21 DEF CloseMark
  <2>3. <<>> \in Seq(Client) /\ waitq \in Seq(Client)
        OBVIOUS
  <2>4. writer' = NoClient /\ (waitq' = waitq \/ waitq' = <<>>)
        BY <1>21 DEF CloseMark
  <2>5. waitq' \in Seq(Client)
        BY <2>3, <2>4, Zenon
  <2>6. UNCHANGED <<has, loaded, live, idle, readers, draining, made, attached, refs,
                    cclosed, mods, buffers, installed>>
        BY <1>21 DEF CloseMark
  <2>7. QED
        BY <2>1, <2>2, <2>4, <2>5, <2>6
<1>22. CASE DrainReceive(c)  BY <1>22 DEF DrainReceive
<1>23. CASE DrainClose(c)
  <2>1. draining \in attached
        BY <1>23 DEF DrainClose, AttachInv
  <2>2. /\ attached' = attached \ {draining} /\ refs' = refs - 1
        /\ buffers' = IF refs = 1 THEN {} ELSE buffers
        BY <1>23, <2>1 DEF DrainClose, Detach
  <2>3. refs' \in Nat
        BY <2>1, <2>2, RefsPositive
  <2>4. pc' \in [Client -> PCs]
        BY <1>23 DEF DrainClose
  <2>5. UNCHANGED <<has, loaded, closed, live, idle, waitq, readers, writer, draining,
                    made, cclosed, mods, installed>>
        BY <1>23 DEF DrainClose
  <2>6. QED
        BY <2>2, <2>3, <2>4, <2>5
<1>24. CASE DrainLive(c)
  <2>1. draining \in made /\ live' = live - 1
        BY <1>24 DEF DrainLive
  <2>2. live' \in 0 .. Size
        BY <2>1, LivePositive
  <2>3. QED
        BY <2>2, <1>24 DEF DrainLive
<1>25. CASE CloseCache(c)
  <2>1. ~cclosed
        BY <1>25 DEF CloseCache
  <2>2. /\ cclosed' = TRUE /\ refs' = refs - 1
        /\ buffers' = IF refs = 1 THEN {} ELSE buffers
        BY <1>25, <2>1 DEF CloseCache
  <2>3. refs' \in Nat
        BY <2>1, <2>2, RefsPositive
  <2>4. pc' \in [Client -> PCs]
        BY <1>25 DEF CloseCache, Returned
  <2>5. UNCHANGED <<has, loaded, closed, live, idle, waitq, readers, writer, draining,
                    made, attached, mods, installed>>
        BY <1>25 DEF CloseCache
  <2>6. QED
        BY <2>2, <2>3, <2>4, <2>5
<1>26. CASE WaitCancel(c)  BY <1>26 DEF WaitCancel
<1>27. CASE ParkCancel(c)  BY <1>27 DEF ParkCancel
<1>28. CASE Publish(c)  BY <1>28 DEF Publish
<1>29. CASE Sync(c)  BY <1>29 DEF Sync
<1>30. QED
      BY <1>1, <1>2, <1>3, <1>4, <1>5, <1>6, <1>7, <1>8, <1>9, <1>10, <1>11,
         <1>12, <1>13, <1>14, <1>15, <1>16, <1>17, <1>18, <1>19, <1>20, <1>21,
         <1>22, <1>23, <1>24, <1>25, <1>26, <1>27, <1>28, <1>29
      DEF GetStep, PutStep, CloseStep
-----------------------------------------------------------------------------
\* A fresh pool satisfies the invariant.
LEMMA PoolInitial == Init => PoolInv
<1> SUFFICES ASSUME Init PROVE PoolInv
    OBVIOUS
<1>1. TypeOK
  <2>1. pc \in [Client -> PCs] /\ has \in [Client -> Interp \cup {NoInterp}]
        BY DEF Init, PCs
  <2>2. loaded \in [Client -> 0 .. Size] /\ live \in 0 .. Size /\ refs \in Nat
        BY SizeAssumption DEF Init
  <2>3. idle \in Seq(Interp) /\ waitq \in Seq(Client)
        BY DEF Init
  <2>4. installed \in [Interp -> SUBSET Buf]
        BY DEF Init
  <2>5. QED
        BY <2>1, <2>2, <2>3, <2>4 DEF Init, TypeOK
<1>2. LockInv /\ HandInv /\ PhaseInv /\ GrowInv
      BY NilAssumption DEF Init, LockInv, HandInv, PhaseInv, GrowInv, RLocked
<1>3. ParkInv /\ LoanInv /\ SlotInv /\ AttachInv
      BY NilAssumption DEF Init, ParkInv, LoanInv, SlotInv, AttachInv
<1>4. LiveCounted /\ RefsExact
      BY FS_EmptySet, SizeAssumption DEF Init, LiveCounted, RefsExact
<1>5. QED
      BY <1>1, <1>2, <1>3, <1>4 DEF PoolInv

\* A step in which nothing changes keeps it.
LEMMA PoolStutter == PoolInv /\ UNCHANGED vars => PoolInv'
<1> SUFFICES ASSUME PoolInv, UNCHANGED vars PROVE PoolInv'
    OBVIOUS
<1> USE DEF PoolInv, vars
<1>1. TypeOK'
      BY DEF TypeOK
<1>2. LockInv' /\ HandInv' /\ PhaseInv' /\ GrowInv'
      BY DEF LockInv, HandInv, PhaseInv, GrowInv
<1>3. ParkInv' /\ LoanInv' /\ SlotInv' /\ AttachInv'
      BY DEF ParkInv, LoanInv, SlotInv, AttachInv
<1>4. LiveCounted' /\ RefsExact'
      BY DEF LiveCounted, RefsExact
<1>5. QED
      BY <1>1, <1>2, <1>3, <1>4

\* PoolInv is inductive: every reachable state of the pool satisfies it.
THEOREM PoolInvariant == Spec => []PoolInv
<1>1. Init => PoolInv
      BY PoolInitial
<1>2. PoolInv /\ [Next]_vars => PoolInv'
  <2>1. SUFFICES ASSUME PoolInv, Next PROVE PoolInv'
        BY PoolStutter
  <2>2. QED
        BY <2>1, LockStep, HandStep, PhaseStep, GrowStep, ParkStep, LoanStep,
           SlotStep, LiveStep, AttachStep, RefsStep, TypeStep DEF PoolInv
<1>3. QED
      BY <1>1, <1>2, PTL DEF Spec

\* Type correctness: in particular live and cache.refs never go negative.
THEOREM PoolTypeCorrect == Spec => []TypeOK
BY PoolInvariant, PTL DEF PoolInv

\* Every live interpreter is in exactly one place: no two goroutines ever share
\* one (Pool.Get, Pool.Put, Pool.Close), and none is lost.
THEOREM PoolExclusiveLoan == Spec => []ExclusiveLoan
<1>1. PoolInv => ExclusiveLoan
  <2> SUFFICES ASSUME PoolInv PROVE ExclusiveLoan
      OBVIOUS
  <2> USE NilAssumption DEF PoolInv, TypeOK
  <2>0. /\ \A c, d \in Client : c # d /\ has[c] # NoInterp => has[c] # has[d]
        /\ \A j, k \in 1 .. Len(idle) : j # k => idle[j] # idle[k]
        BY DEF LoanInv
  <2>1. InHand \cap Waiting = {}
    <3>1. \A c \in Client : \A k \in 1 .. Len(idle) : has[c] # idle[k]
          BY DEF LoanInv
    <3>2. QED
          BY <3>1 DEF InHand, Waiting
  <2>2. draining \notin InHand \cup Waiting
        BY DEF LoanInv, InHand, Waiting
  <2>3. InHand \cup Waiting \cup ({draining} \ {NoInterp}) \subseteq made
        BY DEF LoanInv, InHand, Waiting
  <2>4. \A i \in made : i \in InHand \cup Waiting \cup ({draining} \ {NoInterp})
        BY DEF SlotInv, InHand, Waiting
  <2>5. QED
        BY <2>0, <2>1, <2>2, <2>3, <2>4 DEF ExclusiveLoan
<1>2. QED
      BY <1>1, PoolInvariant, PTL

\* The counter live is the number of interpreters in existence and never passes
\* the size, for any number of clients racing in grow.
THEOREM PoolLiveCounted == Spec => []LiveCounted
BY PoolInvariant, PTL DEF PoolInv

\* Put never sends on the channel Close has closed: its check of closed still holds
\* when it sends, because it keeps the read lock.
THEOREM PoolNoLateUse == Spec => []NoSendOnClosed
<1>1. PoolInv => NoSendOnClosed
      BY DEF PoolInv, PhaseInv, NoSendOnClosed
<1>2. QED
      BY <1>1, PoolInvariant, PTL

\* grow's New never meets a closed cache, so every interpreter of the pool is counted
\* by the cache whose code it runs.
THEOREM PoolAttachNeverRefused == Spec => []AttachNeverRefused
<1>1. PoolInv => AttachNeverRefused
      BY DEF PoolInv, PhaseInv, AttachNeverRefused
<1>2. QED
      BY <1>1, PoolInvariant, PTL

\* The cache's reference count is exact.
THEOREM PoolRefsExact == Spec => []RefsExact
BY PoolInvariant, PTL DEF PoolInv

\* Native code is not unmapped while a borrower may run it, whoever closes the
\* pool and whenever.
THEOREM PoolCodeMapped == Spec => []RunningCodeMapped
<1>1. PoolInv => RunningCodeMapped
  <2> SUFFICES ASSUME PoolInv, NEW c \in Client, Borrowed(c) # NoInterp
               PROVE  installed[Borrowed(c)] \subseteq buffers
      BY DEF RunningCodeMapped
  <2>1. Borrowed(c) \in attached
        BY DEF PoolInv, AttachInv, Borrowed
  <2>2. Cardinality(attached) \in Nat /\ Cardinality(attached) > 0
        BY <2>1, SlotFinite, NonEmpty DEF PoolInv
  <2>3. refs > 0
        BY <2>2 DEF PoolInv, RefsExact, TypeOK
  <2>4. QED
        BY <2>1, <2>3 DEF PoolInv, AttachInv
<1>2. QED
      BY <1>1, PoolInvariant, PTL

-----------------------------------------------------------------------------
(***************************************************************************)
(* No wake-up is lost, and the pool implements Lending, for every set of   *)
(* clients and every size.  Both rest on PoolInv and on WakeInv, which     *)
(* says that the buffer of the channel never overflows: Put drops an       *)
(* interpreter only after Close.                                           *)
(***************************************************************************)
\* Slots are given up only once the pool is closed, and a client that has decided
\* to wait did so because all of them were taken.
WakeInv ==
    /\ \A c \in Client : pc[c] \in {"drop", "dropped"} => closed
    /\ \A c \in Client : pc[c] = "wait" /\ ~closed => live = Size
    /\ NoLostWakeup

\* A sequence of length n has n positions.
LEMMA Positions ==
    ASSUME NEW n \in Nat
    PROVE  Cardinality(1 .. n) = n
<1>1. 1 \in Int /\ n \in Int
      OBVIOUS
<1>2. Cardinality(1 .. n) = IF 1 > n THEN 0 ELSE n - 1 + 1
      BY <1>1, FS_Interval
<1>3. QED
      BY <1>2

\* The interpreters in the channel's buffer are distinct live ones, so one in a
\* client's hand leaves room in the buffer.
LEMMA BufferRoom ==
    ASSUME PoolInv, NEW c \in Client, has[c] # NoInterp
    PROVE  Len(idle) < Size
<1> USE DEF PoolInv, TypeOK
<1> DEFINE S == made \ {has[c]}
<1>1. IsFiniteSet(made) /\ has[c] \in made
      BY SlotFinite DEF LoanInv
<1>2. IsFiniteSet(S) /\ Cardinality(S) = Cardinality(made) - 1
      BY <1>1, RemoveOne, FS_Subset
<1>3. idle \in Injection(1 .. Len(idle), S)
  <2>1. idle \in [1 .. Len(idle) -> S]
    <3>1. idle \in [1 .. Len(idle) -> Interp]
          OBVIOUS
    <3>2. QED
          BY <3>1 DEF LoanInv
  <2>2. IsInjective(idle)
        BY <2>1 DEF LoanInv, IsInjective
  <2>3. QED
        BY <2>1, <2>2 DEF Injection
<1>4. Len(idle) \in Nat /\ Cardinality(1 .. Len(idle)) = Len(idle)
  <2>1. Len(idle) \in Nat
        OBVIOUS
  <2>2. QED
        BY <2>1, Positions
<1>5. Cardinality(1 .. Len(idle)) <= Cardinality(S)
      BY <1>2, <1>3, FS_Injection
<1>6. QED
      BY <1>2, <1>4, <1>5, <1>1, FS_CardinalityType, SizeAssumption DEF LiveCounted

\* A slot is never given up while somebody waits for one.
LEMMA WakeStep ==
    ASSUME PoolInv, WakeInv, Next
    PROVE  WakeInv'
<1> USE SizeAssumption, NilAssumption DEF PoolInv, TypeOK, WakeInv, NoLostWakeup, Goto, RUnlock,
        lockVars, chanVars, cacheVars
<1>1. PICK c \in Client : \/ StartGet(c) \/ StartPut(c) \/ StartClose(c)
                            \/ GetStep(c) \/ PutStep(c) \/ CloseStep(c)
                            \/ WaitCancel(c) \/ ParkCancel(c) \/ Publish(c) \/ Sync(c)
      BY DEF Next
<1>2. CASE StartGet(c)  BY <1>2 DEF StartGet
<1>3. CASE StartPut(c)  BY <1>3 DEF StartPut
<1>4. CASE StartClose(c)  BY <1>4 DEF StartClose
<1>5. CASE GetEnter(c)  BY <1>5 DEF GetEnter
<1>6. CASE GetReuse(c)
  BY <1>6 DEF GetReuse
<1>7. CASE GetMiss(c)  BY <1>7 DEF GetMiss
<1>8. CASE GrowLoad(c)  BY <1>8 DEF GrowLoad
<1>9. CASE GrowReserve(c)
  BY <1>9 DEF GrowReserve, GrowInv
<1>10. CASE GrowRetry(c)  BY <1>10 DEF GrowRetry
<1>11. CASE New(c)  BY <1>11 DEF New
<1>12. CASE WaitReceive(c)  BY <1>12 DEF WaitReceive
<1>13. CASE WaitClosed(c)  BY <1>13 DEF WaitClosed
<1>14. CASE WaitPark(c)  BY <1>14 DEF WaitPark
<1>15. CASE PutEnter(c)
  BY <1>15 DEF PutEnter
<1>16. CASE PutHandOff(c)  BY <1>16 DEF PutHandOff
<1>17. CASE PutSend(c)
  <2>1. has[c] # NoInterp
        BY <1>17 DEF PutSend, HandInv
  <2>2. Len(idle) < Size
        BY <2>1, BufferRoom
  <2>3. QED
        BY <1>17, <2>2 DEF PutSend
<1>18. CASE DropClose(c)  BY <1>18 DEF DropClose, Detach
<1>19. CASE DropLive(c)
  BY <1>19 DEF DropLive, ParkInv
<1>20. CASE CloseAnnounce(c)  BY <1>20 DEF CloseAnnounce
<1>21. CASE CloseMark(c)
  BY <1>21 DEF CloseMark, Returned
<1>22. CASE DrainReceive(c)  BY <1>22 DEF DrainReceive
<1>23. CASE DrainClose(c)  BY <1>23 DEF DrainClose, Detach
<1>24. CASE DrainLive(c)
  BY <1>24 DEF DrainLive, PhaseInv, ParkInv
<1>25. CASE CloseCache(c)  BY <1>25 DEF CloseCache, Returned
<1>26. CASE WaitCancel(c)  BY <1>26 DEF WaitCancel
<1>27. CASE ParkCancel(c)
  BY <1>27 DEF ParkCancel
<1>28. CASE Publish(c)  BY <1>28 DEF Publish
<1>29. CASE Sync(c)  BY <1>29 DEF Sync
<1>30. QED
      BY <1>1, <1>2, <1>3, <1>4, <1>5, <1>6, <1>7, <1>8, <1>9, <1>10, <1>11,
         <1>12, <1>13, <1>14, <1>15, <1>16, <1>17, <1>18, <1>19, <1>20, <1>21,
         <1>22, <1>23, <1>24, <1>25, <1>26, <1>27, <1>28, <1>29
      DEF GetStep, PutStep, CloseStep

\* WakeInv holds throughout.
LEMMA WakeInvariant == Spec => []WakeInv
<1>1. Init => WakeInv
      BY DEF Init, WakeInv, NoLostWakeup
<1>2. PoolInv /\ WakeInv /\ [Next]_vars => WakeInv'
  <2>1. PoolInv /\ WakeInv /\ Next => WakeInv'
        BY WakeStep
  <2>2. WakeInv /\ UNCHANGED vars => WakeInv'
        BY DEF WakeInv, NoLostWakeup, vars
  <2>3. QED
        BY <2>1, <2>2
<1>3. QED
      BY <1>1, <1>2, PoolInvariant, PTL DEF Spec

\* A client is parked only while every slot is taken and nothing is idle: between the
\* failed grow and the blocking receive no Put can go unnoticed, for any number of
\* clients.
THEOREM PoolNoLostWakeup == Spec => []NoLostWakeup
<1>1. WakeInv => NoLostWakeup
      BY DEF WakeInv
<1>2. QED
      BY <1>1, WakeInvariant, PTL

-----------------------------------------------------------------------------
(***************************************************************************)
(* The refinement.  A step that hands an interpreter to a client is        *)
(* Borrow, the call of Put is GiveBack, a publication is Map, the closing  *)
(* of the channel is Shut, the last detach is Unmap; every other step      *)
(* leaves the loans, the closed flag and the mapped code as they are.      *)
(***************************************************************************)
lentTo == [c \in Client |-> Borrowed(c)]
LendingStep == Abstract!LendingNext \/ UNCHANGED Abstract!absVars

\* Nothing of what Lending speaks about changes.
LEMMA LendSame ==
    ASSUME \A d \in Client : Borrowed(d)' = Borrowed(d), closed' = closed, buffers' = buffers
    PROVE  LendingStep
<1>1. lentTo' = lentTo
      BY DEF lentTo
<1>2. QED
      BY <1>1 DEF LendingStep, Abstract!absVars, lentTo

\* Get returns i.
LEMMA LendTo ==
    ASSUME PoolInv, NEW c \in Client, NEW i \in made, Borrowed(c) = NoInterp,
           \A d \in Client : Borrowed(d) # i,
           \A d \in Client : Borrowed(d)' = IF d = c THEN i ELSE Borrowed(d),
           closed' = closed, buffers' = buffers
    PROVE  LendingStep
<1>1. i \in Interp /\ IsFiniteSet(made \ {i}) /\ Cardinality(made \ {i}) < Size
  <2>1. Cardinality(made \ {i}) = Cardinality(made) - 1 /\ Cardinality(made) \in Nat
        BY SlotFinite, RemoveOne, FS_CardinalityType DEF PoolInv
  <2>2. QED
        BY <2>1, SlotFinite, FS_Subset, SizeAssumption DEF PoolInv, TypeOK, LiveCounted
<1>2. Abstract!Out \subseteq made \ {i}
      BY DEF Abstract!Out, Borrowed, PoolInv, LoanInv
<1>3. Cardinality(Abstract!Out) < Size
      BY <1>1, <1>2, FS_Subset, FS_CardinalityType, SizeAssumption
<1>4. i \notin Abstract!Out
      BY DEF Abstract!Out
<1>5. lentTo' = [lentTo EXCEPT ![c] = i]
      BY DEF lentTo
<1>6. Abstract!Borrow(c, i)
  <2>1. [d \in Client |-> Borrowed(d)][c] = NoInterp
        OBVIOUS
  <2>2. UNCHANGED <<~closed, buffers>>
        OBVIOUS
  <2>3. Abstract!Cardinality(Abstract!Out) = Cardinality(Abstract!Out)
        BY DEF Cardinality, Abstract!Cardinality
  <2>4. QED
        BY <1>3, <1>4, <1>5, <2>1, <2>2, <2>3 DEF Abstract!Borrow, lentTo
<1>7. QED
      BY <1>1, <1>6 DEF LendingStep, Abstract!LendingNext

\* Put is called.
LEMMA LendBack ==
    ASSUME NEW c \in Client, Borrowed(c) # NoInterp,
           \A d \in Client : Borrowed(d)' = IF d = c THEN NoInterp ELSE Borrowed(d),
           closed' = closed, buffers' = buffers
    PROVE  LendingStep
<1>1. lentTo' = [lentTo EXCEPT ![c] = NoInterp]
      BY DEF lentTo
<1>2. Abstract!GiveBack(c)
      BY <1>1 DEF Abstract!GiveBack, lentTo
<1>3. QED
      BY <1>2 DEF LendingStep, Abstract!LendingNext

\* A borrower publishes native code.
LEMMA LendMap ==
    ASSUME NEW c \in Client, Borrowed(c) # NoInterp,
           \A d \in Client : Borrowed(d)' = Borrowed(d),
           NEW b \in Buf \ buffers, buffers' = buffers \cup {b}, closed' = closed
    PROVE  LendingStep
<1>1. lentTo' = lentTo
      BY DEF lentTo
<1>2. Abstract!Map(c)
      BY <1>1 DEF Abstract!Map, lentTo
<1>3. QED
      BY <1>2 DEF LendingStep, Abstract!LendingNext

\* The first Close takes the write lock.
LEMMA LendShut ==
    ASSUME \A d \in Client : Borrowed(d)' = Borrowed(d), ~closed, closed', buffers' = buffers
    PROVE  LendingStep
<1>1. lentTo' = lentTo
      BY DEF lentTo
<1>2. Abstract!Shut
      BY <1>1 DEF Abstract!Shut, lentTo
<1>3. QED
      BY <1>2 DEF LendingStep, Abstract!LendingNext

\* The last reference to the cache goes.
LEMMA LendUnmap ==
    ASSUME \A d \in Client : Borrowed(d)' = Borrowed(d), \A d \in Client : Borrowed(d) = NoInterp,
           closed, closed' = closed, buffers' = {}
    PROVE  LendingStep
<1>1. lentTo' = lentTo
      BY DEF lentTo
<1>2. Abstract!Out = {}
      BY DEF Abstract!Out
<1>3. Abstract!Unmap
      BY <1>1, <1>2 DEF Abstract!Unmap, lentTo
<1>4. QED
      BY <1>3 DEF LendingStep, Abstract!LendingNext

\* The last reference is the only attached interpreter's, or the pool's own.
LEMMA LastRef ==
    ASSUME PoolInv, refs = 1
    PROVE  /\ ~cclosed => attached = {}
           /\ \A i \in attached : cclosed /\ attached = {i}
<1>1. Cardinality(attached) \in Nat /\ IsFiniteSet(attached)
      BY SlotFinite, FS_CardinalityType DEF PoolInv
<1>2. ~cclosed => attached = {}
      BY <1>1, FS_EmptySet DEF PoolInv, RefsExact
<1>3. ASSUME NEW i \in attached, cclosed
      PROVE  attached = {i}
  <2>1. Cardinality(attached) = 1
        BY <1>1, <1>3 DEF PoolInv, RefsExact
  <2>2. Cardinality(attached \ {i}) = 0 /\ IsFiniteSet(attached \ {i})
        BY <1>1, <2>1, RemoveOne, FS_Subset
  <2>3. QED
        BY <2>2, FS_EmptySet
<1>4. QED
      BY <1>2, <1>3 DEF PoolInv, TypeOK

\* Every step of the pool is a step of Lending, or none.
LEMMA StepLends ==
    ASSUME PoolInv, Next
    PROVE  LendingStep
<1> USE NilAssumption DEF PoolInv, TypeOK, Borrowed, Goto, RUnlock, lockVars, chanVars, cacheVars
<1>1. PICK c \in Client : \/ StartGet(c) \/ StartPut(c) \/ StartClose(c)
                            \/ GetStep(c) \/ PutStep(c) \/ CloseStep(c)
                            \/ WaitCancel(c) \/ ParkCancel(c) \/ Publish(c) \/ Sync(c)
      BY DEF Next
<1>2. CASE StartGet(c)
  <2>1. /\ \A d \in Client : Borrowed(d)' = Borrowed(d)
        /\ closed' = closed /\ buffers' = buffers
        BY <1>2 DEF StartGet, HandInv
  <2>2. QED
        BY <2>1, LendSame
<1>3. CASE StartPut(c)
  <2>1. \A d \in Client : Borrowed(d)' = IF d = c THEN NoInterp ELSE Borrowed(d)
        BY <1>3 DEF StartPut
  <2>2. Borrowed(c) # NoInterp
        BY <1>3 DEF StartPut, HandInv
  <2>3. closed' = closed /\ buffers' = buffers
        BY <1>3 DEF StartPut
  <2>4. QED
        BY <2>1, <2>2, <2>3, LendBack
<1>4. CASE StartClose(c)
  <2>1. /\ \A d \in Client : Borrowed(d)' = Borrowed(d)
        /\ closed' = closed /\ buffers' = buffers
        BY <1>4 DEF StartClose, HandInv
  <2>2. QED
        BY <2>1, LendSame
<1>5. CASE GetEnter(c)
  <2>1. /\ \A d \in Client : Borrowed(d)' = Borrowed(d)
        /\ closed' = closed /\ buffers' = buffers
        BY <1>5 DEF GetEnter, HandInv
  <2>2. QED
        BY <2>1, LendSame
<1>6. CASE GetReuse(c)
  <2>1. c \in Client /\ Head(idle) \in made /\ Borrowed(c) = NoInterp
        BY <1>6 DEF GetReuse, LoanInv
  <2>2. \A d \in Client : Borrowed(d) # Head(idle)
        BY <1>6 DEF GetReuse, LoanInv
  <2>3. \A d \in Client : Borrowed(d)' = IF d = c THEN Head(idle) ELSE Borrowed(d)
        BY <1>6 DEF GetReuse
  <2>4. closed' = closed /\ buffers' = buffers
        BY <1>6 DEF GetReuse
  <2>5. QED
        BY <2>1, <2>2, <2>3, <2>4, LendTo
<1>7. CASE GetMiss(c)
  <2>1. /\ \A d \in Client : Borrowed(d)' = Borrowed(d)
        /\ closed' = closed /\ buffers' = buffers
        BY <1>7 DEF GetMiss, HandInv
  <2>2. QED
        BY <2>1, LendSame
<1>8. CASE GrowLoad(c)
  <2>1. /\ \A d \in Client : Borrowed(d)' = Borrowed(d)
        /\ closed' = closed /\ buffers' = buffers
        BY <1>8 DEF GrowLoad, HandInv
  <2>2. QED
        BY <2>1, LendSame
<1>9. CASE GrowReserve(c)
  <2>1. /\ \A d \in Client : Borrowed(d)' = Borrowed(d)
        /\ closed' = closed /\ buffers' = buffers
        BY <1>9 DEF GrowReserve, HandInv
  <2>2. QED
        BY <2>1, LendSame
<1>10. CASE GrowRetry(c)
  <2>1. /\ \A d \in Client : Borrowed(d)' = Borrowed(d)
        /\ closed' = closed /\ buffers' = buffers
        BY <1>10 DEF GrowRetry, HandInv
  <2>2. QED
        BY <2>1, LendSame
<1>11. CASE New(c)
  <2>1. c \in Client /\ has[c] \in made /\ Borrowed(c) = NoInterp
        BY <1>11 DEF New, LoanInv, HandInv
  <2>2. \A d \in Client : Borrowed(d) # has[c]
        BY <1>11 DEF New, LoanInv, HandInv
  <2>3. \A d \in Client : Borrowed(d)' = IF d = c THEN has[c] ELSE Borrowed(d)
        BY <1>11 DEF New
  <2>4. closed' = closed /\ buffers' = buffers
        BY <1>11 DEF New
  <2>5. QED
        BY <2>1, <2>2, <2>3, <2>4, LendTo
<1>12. CASE WaitReceive(c)
  <2>1. c \in Client /\ Head(idle) \in made /\ Borrowed(c) = NoInterp
        BY <1>12 DEF WaitReceive, LoanInv
  <2>2. \A d \in Client : Borrowed(d) # Head(idle)
        BY <1>12 DEF WaitReceive, LoanInv
  <2>3. \A d \in Client : Borrowed(d)' = IF d = c THEN Head(idle) ELSE Borrowed(d)
        BY <1>12 DEF WaitReceive
  <2>4. closed' = closed /\ buffers' = buffers
        BY <1>12 DEF WaitReceive
  <2>5. QED
        BY <2>1, <2>2, <2>3, <2>4, LendTo
<1>13. CASE WaitClosed(c)
  <2>1. /\ \A d \in Client : Borrowed(d)' = Borrowed(d)
        /\ closed' = closed /\ buffers' = buffers
        BY <1>13 DEF WaitClosed, HandInv
  <2>2. QED
        BY <2>1, LendSame
<1>14. CASE WaitPark(c)
  <2>1. /\ \A d \in Client : Borrowed(d)' = Borrowed(d)
        /\ closed' = closed /\ buffers' = buffers
        BY <1>14 DEF WaitPark, HandInv
  <2>2. QED
        BY <2>1, LendSame
<1>15. CASE PutEnter(c)
  <2>1. /\ \A d \in Client : Borrowed(d)' = Borrowed(d)
        /\ closed' = closed /\ buffers' = buffers
        BY <1>15 DEF PutEnter, HandInv
  <2>2. QED
        BY <2>1, LendSame
<1>16. CASE PutHandOff(c)
  <2>0. Head(waitq) \in Client /\ pc[Head(waitq)] = "parked"
        BY <1>16 DEF PutHandOff, ParkInv
  <2>1. Head(waitq) \in Client /\ has[c] \in made /\ Borrowed(Head(waitq)) = NoInterp
        BY <1>16, <2>0 DEF PutHandOff, LoanInv, HandInv
  <2>2. \A d \in Client : Borrowed(d) # has[c]
        BY <1>16 DEF PutHandOff, LoanInv, HandInv
  <2>3. \A d \in Client : Borrowed(d)' = IF d = Head(waitq) THEN has[c] ELSE Borrowed(d)
        BY <1>16, <2>0 DEF PutHandOff, HandInv
  <2>4. closed' = closed /\ buffers' = buffers
        BY <1>16 DEF PutHandOff
  <2>5. QED
        BY <2>1, <2>2, <2>3, <2>4, LendTo
<1>17. CASE PutSend(c)
  <2>1. /\ \A d \in Client : Borrowed(d)' = Borrowed(d)
        /\ closed' = closed /\ buffers' = buffers
        BY <1>17 DEF PutSend, HandInv
  <2>2. QED
        BY <2>1, LendSame
<1>18. CASE DropClose(c)
  <2>1. \A d \in Client : Borrowed(d)' = Borrowed(d)
        BY <1>18 DEF DropClose, HandInv
  <2>2. closed' = closed
        BY <1>18 DEF DropClose, HandInv
  <2>3. CASE buffers' = buffers
        BY <2>1, <2>2, <2>3, LendSame
  <2>4. CASE buffers' # buffers
    <3>1. (\A d \in Client : Borrowed(d) = NoInterp) /\ cclosed
          <4>1. has[c] \in attached /\ refs = 1 /\ has[c] \in made
                BY <1>18, <2>4 DEF DropClose, Detach, AttachInv
          <4>2. attached = {has[c]} /\ cclosed
                BY <4>1, LastRef
          <4>3. QED
                BY <1>18, <4>2 DEF DropClose, AttachInv, LoanInv
    <3>2. closed /\ buffers' = {}
          BY <1>18, <2>4, <3>1 DEF DropClose, Detach, PhaseInv
    <3>3. QED
          BY <2>1, <2>2, <3>1, <3>2, LendUnmap
  <2>5. QED
        BY <2>3, <2>4
<1>19. CASE DropLive(c)
  <2>1. /\ \A d \in Client : Borrowed(d)' = Borrowed(d)
        /\ closed' = closed /\ buffers' = buffers
        BY <1>19 DEF DropLive, HandInv
  <2>2. QED
        BY <2>1, LendSame
<1>20. CASE CloseAnnounce(c)
  <2>1. /\ \A d \in Client : Borrowed(d)' = Borrowed(d)
        /\ closed' = closed /\ buffers' = buffers
        BY <1>20 DEF CloseAnnounce, HandInv
  <2>2. QED
        BY <2>1, LendSame
<1>21. CASE CloseMark(c)
  <2>1. \A d \in Client : Borrowed(d)' = Borrowed(d)
        BY <1>21 DEF CloseMark, Returned, HandInv
  <2>2. buffers' = buffers /\ (closed' = closed \/ (closed' /\ ~closed))
        BY <1>21 DEF CloseMark
  <2>3. QED
        BY <2>1, <2>2, LendSame, LendShut
<1>22. CASE DrainReceive(c)
  <2>1. /\ \A d \in Client : Borrowed(d)' = Borrowed(d)
        /\ closed' = closed /\ buffers' = buffers
        BY <1>22 DEF DrainReceive, HandInv
  <2>2. QED
        BY <2>1, LendSame
<1>23. CASE DrainClose(c)
  <2>1. \A d \in Client : Borrowed(d)' = Borrowed(d)
        BY <1>23 DEF DrainClose, HandInv
  <2>2. closed' = closed
        BY <1>23 DEF DrainClose, HandInv
  <2>3. CASE buffers' = buffers
        BY <2>1, <2>2, <2>3, LendSame
  <2>4. CASE buffers' # buffers
    <3>1. \A d \in Client : Borrowed(d) = NoInterp
          <4>1. draining \in attached /\ refs = 1
                BY <1>23, <2>4 DEF DrainClose, Detach, AttachInv
          <4>2. attached = {draining}
                BY <4>1, LastRef
          <4>3. QED
                BY <1>23, <4>2 DEF DrainClose, AttachInv, LoanInv
    <3>2. closed /\ buffers' = {}
          BY <1>23, <2>4, <3>1 DEF DrainClose, Detach, PhaseInv
    <3>3. QED
          BY <2>1, <2>2, <3>1, <3>2, LendUnmap
  <2>5. QED
        BY <2>3, <2>4
<1>24. CASE DrainLive(c)
  <2>1. /\ \A d \in Client : Borrowed(d)' = Borrowed(d)
        /\ closed' = closed /\ buffers' = buffers
        BY <1>24 DEF DrainLive, HandInv
  <2>2. QED
        BY <2>1, LendSame
<1>25. CASE CloseCache(c)
  <2>1. \A d \in Client : Borrowed(d)' = Borrowed(d)
        BY <1>25 DEF CloseCache, Returned, HandInv
  <2>2. closed' = closed
        BY <1>25 DEF CloseCache, Returned, HandInv
  <2>3. CASE buffers' = buffers
        BY <2>1, <2>2, <2>3, LendSame
  <2>4. CASE buffers' # buffers
    <3>1. \A d \in Client : Borrowed(d) = NoInterp
          <4>1. ~cclosed /\ refs = 1
                BY <1>25, <2>4 DEF CloseCache
          <4>2. attached = {}
                BY <4>1, LastRef
          <4>3. QED
                BY <4>2 DEF AttachInv
    <3>2. closed /\ buffers' = {}
          BY <1>25, <2>4, <3>1 DEF CloseCache, PhaseInv
    <3>3. QED
          BY <2>1, <2>2, <3>1, <3>2, LendUnmap
  <2>5. QED
        BY <2>3, <2>4
<1>26. CASE WaitCancel(c)
  <2>1. /\ \A d \in Client : Borrowed(d)' = Borrowed(d)
        /\ closed' = closed /\ buffers' = buffers
        BY <1>26 DEF WaitCancel, HandInv
  <2>2. QED
        BY <2>1, LendSame
<1>27. CASE ParkCancel(c)
  <2>1. /\ \A d \in Client : Borrowed(d)' = Borrowed(d)
        /\ closed' = closed /\ buffers' = buffers
        BY <1>27 DEF ParkCancel, HandInv
  <2>2. QED
        BY <2>1, LendSame
<1>28. CASE Publish(c)
  <2>1. \A d \in Client : Borrowed(d)' = Borrowed(d)
        BY <1>28 DEF Publish
  <2>2. Borrowed(c) # NoInterp /\ closed' = closed
        BY <1>28 DEF Publish, HandInv
  <2>3. PICK b \in Buf \ mods : buffers' = buffers \cup {b}
        BY <1>28 DEF Publish
  <2>4. buffers = mods
    <3>1. Cardinality(attached) \in Nat /\ Cardinality(attached) > 0
          BY <1>28, SlotFinite, NonEmpty DEF Publish
    <3>2. QED
          BY <3>1 DEF RefsExact, AttachInv
  <2>5. QED
        BY <2>1, <2>2, <2>3, <2>4, LendMap
<1>29. CASE Sync(c)
  <2>1. /\ \A d \in Client : Borrowed(d)' = Borrowed(d)
        /\ closed' = closed /\ buffers' = buffers
        BY <1>29 DEF Sync, HandInv
  <2>2. QED
        BY <2>1, LendSame
<1>30. QED
      BY <1>1, <1>2, <1>3, <1>4, <1>5, <1>6, <1>7, <1>8, <1>9, <1>10, <1>11,
         <1>12, <1>13, <1>14, <1>15, <1>16, <1>17, <1>18, <1>19, <1>20, <1>21,
         <1>22, <1>23, <1>24, <1>25, <1>26, <1>27, <1>28, <1>29
      DEF GetStep, PutStep, CloseStep

\* The pool implements Lending for any number of clients and any size: no interpreter
\* is lent twice or past the size, and the borrowers' native code is unmapped only
\* after Close, when everything is back.
THEOREM PoolImplementsLending == Spec => ImplementsLending
<1>1. Init => Abstract!LendingInit
  <2> SUFFICES ASSUME Init PROVE Abstract!LendingInit
      OBVIOUS
  <2>1. \A c \in Client : Borrowed(c) = NoInterp
        BY DEF Init, Borrowed
  <2>2. QED
        BY <2>1 DEF Init, Abstract!LendingInit
<1>2. PoolInv /\ [Next]_vars => [Abstract!LendingNext]_(Abstract!absVars)
  <2> SUFFICES ASSUME PoolInv, [Next]_vars PROVE LendingStep
      BY DEF LendingStep
  <2>1. CASE Next
        BY <2>1, StepLends
  <2>2. CASE UNCHANGED vars
    <3>1. \A d \in Client : Borrowed(d)' = Borrowed(d)
          BY <2>2 DEF vars, Borrowed
    <3>2. QED
          BY <2>2, <3>1, LendSame DEF vars
  <2>3. QED
        BY <2>1, <2>2
<1>3. QED
      BY <1>1, <1>2, PoolInvariant, PTL DEF Spec, ImplementsLending, Abstract!LendingSpec
=============================================================================
