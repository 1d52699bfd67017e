-------------------------------- MODULE Pool --------------------------------
(***************************************************************************)
(* The interpreter pool (interp/pool.go) together with the lifetime half   *)
(* of the shared native-code cache (interp/cache.go: attach, detach,       *)
(* close, release, the buffer list) and the RWMutex, atomic counter and    *)
(* channel the two are built from.                                         *)
(*                                                                         *)
(* A client is a goroutine.  It calls Get, runs what it borrowed, calls    *)
(* Put, and any client may call Close at any moment it is not inside       *)
(* another call.  One action is one step no other goroutine can split: a   *)
(* lock operation, an atomic load or compare-and-swap, a channel operation *)
(* or a critical section of the cache's mutex.                             *)
(***************************************************************************)
EXTENDS Naturals, Sequences, FiniteSets

CONSTANTS
    Client,    \* goroutines that use the pool
    Interp,    \* interpreters New can return; a dropped one may stand for a new one
    Size,      \* Pool.size: how many interpreters may be alive
    Buf,       \* executable buffers the compilers can fill (bounds the compiles)
    NoInterp,  \* the nil *Interpreter
    NoClient   \* no writer has announced itself on the RWMutex

ASSUME SizeAssumption == Size \in Nat \ {0}
ASSUME InterpAssumption == IsFiniteSet(Interp) /\ Cardinality(Interp) >= Size
ASSUME NilAssumption == NoInterp \notin Interp /\ NoClient \notin Client

VARIABLES
    pc,         \* where each client stands
    has,        \* the interpreter a client has in hand (also inside Put)
    loaded,     \* the value of live a client read in grow
    closed,     \* Pool.closed
    live,       \* Pool.live
    idle,       \* the buffer of the channel Pool.idle
    waitq,      \* receivers parked on that channel, oldest first
    readers,    \* clients that hold Pool.mu for reading
    writer,     \* the client that has announced or holds the write lock
    draining,   \* the interpreter Close's range loop has received
    made,       \* interpreters that occupy one of the live slots
    attached,   \* interpreters whose cache field is the pool's cache
    refs,       \* cache.refs
    cclosed,    \* cache.closed
    mods,       \* cache.modules: what compiles have published so far
    buffers,    \* cache.buffers: the published buffers that are still mapped
    installed   \* buffers an interpreter's dispatch table jumps into

lockVars  == <<readers, writer>>
chanVars  == <<idle, waitq>>
cacheVars == <<attached, refs, cclosed, mods, buffers, installed>>
vars == <<pc, has, loaded, closed, live, idle, waitq, readers, writer,
          draining, made, attached, refs, cclosed, mods, buffers, installed>>

PCs == {"rest", "get", "poll", "load", "cas", "new", "wait", "parked",
        "hold", "put", "send", "drop", "dropped",
        "close", "mark", "drain", "drainClose", "drainLive"}

(***************************************************************************)
(* Points at which a client holds Pool.mu for reading.                     *)
(***************************************************************************)
RLocked == {"poll", "load", "cas", "new", "send", "drop", "dropped"}

TypeOK ==
    /\ pc \in [Client -> PCs]
    /\ has \in [Client -> Interp \cup {NoInterp}]
    /\ loaded \in [Client -> 0 .. Size]
    /\ closed \in BOOLEAN
    /\ live \in 0 .. Size
    /\ idle \in Seq(Interp)
    /\ waitq \in Seq(Client)
    /\ readers \subseteq Client
    /\ writer \in Client \cup {NoClient}
    /\ draining \in Interp \cup {NoInterp}
    /\ made \subseteq Interp
    /\ attached \subseteq Interp
    /\ refs \in Nat
    /\ cclosed \in BOOLEAN
    /\ mods \subseteq Buf
    /\ buffers \subseteq Buf
    /\ installed \in [Interp -> SUBSET Buf]

(***************************************************************************)
(* NewPool and newCache: nothing is built yet, the pool itself holds the   *)
(* cache's first reference.                                                *)
(***************************************************************************)
Init ==
    /\ pc = [c \in Client |-> "rest"]
    /\ has = [c \in Client |-> NoInterp]
    /\ loaded = [c \in Client |-> 0]
    /\ closed = FALSE
    /\ live = 0
    /\ idle = <<>>
    /\ waitq = <<>>
    /\ readers = {}
    /\ writer = NoClient
    /\ draining = NoInterp
    /\ made = {}
    /\ attached = {}
    /\ refs = 1
    /\ cclosed = FALSE
    /\ mods = {}
    /\ buffers = {}
    /\ installed = [i \in Interp |-> {}]

Goto(c, l) == pc' = [pc EXCEPT ![c] = l]
RUnlock(c) == readers' = readers \ {c}

(***************************************************************************)
(* Where a client goes when a call other than Get or Put returns.          *)
(***************************************************************************)
Returned(c) == IF has[c] = NoInterp THEN "rest" ELSE "hold"

-----------------------------------------------------------------------------
(***************************************************************************)
(* Get.                                                                    *)
(***************************************************************************)
StartGet(c) ==
    /\ pc[c] = "rest"
    /\ Goto(c, "get")
    /\ UNCHANGED <<has, loaded, closed, live, chanVars, lockVars, draining,
                   made, cacheVars>>

\* Slip: the read lock is released before grow has attached the interpreter.
GetEnterUnlocked(c) ==
    /\ pc[c] = "get"
    /\ writer = NoClient
    /\ IF closed
         THEN /\ Goto(c, "rest")                        \* ErrPoolClosed
              /\ UNCHANGED readers
         ELSE /\ Goto(c, "poll")
              /\ UNCHANGED readers
    /\ UNCHANGED <<has, loaded, closed, live, chanVars, writer, draining,
                   made, cacheVars>>

\* RLock, which waits for an announced writer, and the closed check: closed
\* only changes under the write lock, so the two are one step.
GetEnter(c) ==
    /\ pc[c] = "get"
    /\ writer = NoClient
    /\ IF closed
         THEN /\ Goto(c, "rest")                        \* ErrPoolClosed
              /\ UNCHANGED readers
         ELSE /\ Goto(c, "poll")
              /\ readers' = readers \cup {c}
    /\ UNCHANGED <<has, loaded, closed, live, chanVars, writer, draining,
                   made, cacheVars>>

\* The non-blocking receive: reuse an idle interpreter, or go on to grow.
GetReuse(c) ==
    /\ pc[c] = "poll"
    /\ idle # <<>>
    /\ has' = [has EXCEPT ![c] = Head(idle)]
    /\ idle' = Tail(idle)
    /\ RUnlock(c)
    /\ Goto(c, "hold")
    /\ UNCHANGED <<loaded, closed, live, waitq, writer, draining, made, cacheVars>>

GetMiss(c) ==
    /\ pc[c] = "poll"
    /\ idle = <<>>
    /\ Goto(c, "load")
    /\ UNCHANGED <<has, loaded, closed, live, chanVars, lockVars, draining,
                   made, cacheVars>>

\* Slip: off by one at the size cap.
GrowLoadPastSize(c) ==
    /\ pc[c] = "load"
    /\ loaded' = [loaded EXCEPT ![c] = live]
    /\ IF live > Size
         THEN RUnlock(c) /\ Goto(c, "wait")
         ELSE UNCHANGED readers /\ Goto(c, "cas")
    /\ UNCHANGED <<has, closed, live, chanVars, writer, draining, made, cacheVars>>

\* Slip: the last slot is never used.
GrowLoadEarly(c) ==
    /\ pc[c] = "load"
    /\ loaded' = [loaded EXCEPT ![c] = live]
    /\ IF live + 1 >= Size
         THEN RUnlock(c) /\ Goto(c, "wait")
         ELSE UNCHANGED readers /\ Goto(c, "cas")
    /\ UNCHANGED <<has, closed, live, chanVars, writer, draining, made, cacheVars>>

\* grow: load live, then reserve a slot with compare-and-swap or start over.
GrowLoad(c) ==
    /\ pc[c] = "load"
    /\ loaded' = [loaded EXCEPT ![c] = live]
    /\ IF live >= Size
         THEN RUnlock(c) /\ Goto(c, "wait")
         ELSE UNCHANGED readers /\ Goto(c, "cas")
    /\ UNCHANGED <<has, closed, live, chanVars, writer, draining, made, cacheVars>>

GrowReserve(c) ==
    /\ pc[c] = "cas"
    /\ live = loaded[c]
    /\ live' = live + 1
    /\ \E i \in Interp \ made :
          /\ made' = made \cup {i}
          /\ has' = [has EXCEPT ![c] = i]
    /\ Goto(c, "new")
    /\ UNCHANGED <<loaded, closed, chanVars, lockVars, draining, cacheVars>>

GrowRetry(c) ==
    /\ pc[c] = "cas"
    /\ live # loaded[c]
    /\ Goto(c, "load")
    /\ UNCHANGED <<has, loaded, closed, live, chanVars, lockVars, draining,
                   made, cacheVars>>

\* Slip: attach forgets to count the new member.
NewUncounted(c) ==
    /\ pc[c] = "new"
    /\ IF cclosed
         THEN UNCHANGED <<attached, refs>>
         ELSE attached' = attached \cup {has[c]} /\ UNCHANGED refs
    /\ installed' = [installed EXCEPT ![has[c]] = {}]
    /\ RUnlock(c)
    /\ Goto(c, "hold")
    /\ UNCHANGED <<has, loaded, closed, live, chanVars, writer, draining, made,
                   cclosed, mods, buffers>>

\* New, whose only shared step is cache.attach; a closed cache refuses.
New(c) ==
    /\ pc[c] = "new"
    /\ IF cclosed
         THEN UNCHANGED <<attached, refs>>
         ELSE attached' = attached \cup {has[c]} /\ refs' = refs + 1
    /\ installed' = [installed EXCEPT ![has[c]] = {}]
    /\ RUnlock(c)
    /\ Goto(c, "hold")
    /\ UNCHANGED <<has, loaded, closed, live, chanVars, writer, draining, made,
                   cclosed, mods, buffers>>

\* wait: the blocking select.  A closed channel still delivers what is buffered.
WaitReceive(c) ==
    /\ pc[c] = "wait"
    /\ idle # <<>>
    /\ has' = [has EXCEPT ![c] = Head(idle)]
    /\ idle' = Tail(idle)
    /\ Goto(c, "hold")
    /\ UNCHANGED <<loaded, closed, live, waitq, lockVars, draining, made, cacheVars>>

WaitClosed(c) ==
    /\ pc[c] = "wait"
    /\ idle = <<>> /\ closed
    /\ Goto(c, "rest")                                  \* ErrPoolClosed
    /\ UNCHANGED <<has, loaded, closed, live, chanVars, lockVars, draining,
                   made, cacheVars>>

WaitPark(c) ==
    /\ pc[c] = "wait"
    /\ idle = <<>> /\ ~closed
    /\ waitq' = Append(waitq, c)
    /\ Goto(c, "parked")
    /\ UNCHANGED <<has, loaded, closed, live, idle, lockVars, draining, made,
                   cacheVars>>

\* ctx.Done() wins the select, before the client parked ...
WaitCancel(c) ==
    /\ pc[c] = "wait"
    /\ Goto(c, "rest")                                  \* ctx.Err()
    /\ UNCHANGED <<has, loaded, closed, live, chanVars, lockVars, draining,
                   made, cacheVars>>

\* ... or after, which takes it out of the channel's queue of receivers.
ParkCancel(c) ==
    /\ pc[c] = "parked"
    /\ \E k \in 1 .. Len(waitq) :
          /\ waitq[k] = c
          /\ waitq' = [j \in 1 .. Len(waitq) - 1 |->
                          IF j < k THEN waitq[j] ELSE waitq[j + 1]]
    /\ Goto(c, "rest")
    /\ UNCHANGED <<has, loaded, closed, live, idle, lockVars, draining, made,
                   cacheVars>>

-----------------------------------------------------------------------------
(***************************************************************************)
(* A borrowed interpreter runs.  Publish is shared() ending in a module    *)
(* (cache.publish); Sync is the safepoint's sync(), which installs every   *)
(* module published so far.                                                *)
(***************************************************************************)
Publish(c) ==
    /\ pc[c] = "hold"
    /\ has[c] \in attached
    /\ \E b \in Buf \ mods :
          /\ mods' = mods \cup {b}
          /\ buffers' = buffers \cup {b}
    /\ UNCHANGED <<pc, has, loaded, closed, live, chanVars, lockVars, draining,
                   made, attached, refs, cclosed, installed>>

Sync(c) ==
    /\ pc[c] = "hold"
    /\ has[c] \in attached
    /\ installed[has[c]] # mods
    /\ installed' = [installed EXCEPT ![has[c]] = mods]
    /\ UNCHANGED <<pc, has, loaded, closed, live, chanVars, lockVars, draining,
                   made, attached, refs, cclosed, mods, buffers>>

-----------------------------------------------------------------------------
(***************************************************************************)
(* Put.                                                                    *)
(***************************************************************************)
\* The call: flush and Reset touch only the interpreter in hand.
StartPut(c) ==
    /\ pc[c] = "hold"
    /\ Goto(c, "put")
    /\ UNCHANGED <<has, loaded, closed, live, chanVars, lockVars, draining,
                   made, cacheVars>>

\* Slip: Put checks closed without keeping the read lock.
PutEnterUnlocked(c) ==
    /\ pc[c] = "put"
    /\ writer = NoClient
    /\ UNCHANGED readers
    /\ Goto(c, IF closed THEN "drop" ELSE "send")
    /\ UNCHANGED <<has, loaded, closed, live, chanVars, writer, draining, made,
                   cacheVars>>

PutEnter(c) ==
    /\ pc[c] = "put"
    /\ writer = NoClient
    /\ readers' = readers \cup {c}
    /\ Goto(c, IF closed THEN "drop" ELSE "send")
    /\ UNCHANGED <<has, loaded, closed, live, chanVars, writer, draining, made,
                   cacheVars>>

\* The non-blocking send: straight to the oldest parked receiver if there is one.
PutHandOff(c) ==
    /\ pc[c] = "send"
    /\ waitq # <<>>
    /\ LET d == Head(waitq)
       IN  /\ has' = [has EXCEPT ![d] = has[c], ![c] = NoInterp]
           /\ pc' = [pc EXCEPT ![d] = "hold", ![c] = "rest"]
    /\ waitq' = Tail(waitq)
    /\ RUnlock(c)
    /\ UNCHANGED <<loaded, closed, live, idle, writer, draining, made, cacheVars>>

\* Otherwise into the buffer, or drop when the buffer is full.
PutSend(c) ==
    /\ pc[c] = "send"
    /\ waitq = <<>>
    /\ IF Len(idle) < Size
         THEN /\ idle' = Append(idle, has[c])
              /\ has' = [has EXCEPT ![c] = NoInterp]
              /\ RUnlock(c)
              /\ Goto(c, "rest")
         ELSE /\ Goto(c, "drop")
              /\ UNCHANGED <<idle, has, readers>>
    /\ UNCHANGED <<loaded, closed, live, waitq, writer, draining, made, cacheVars>>

\* Slip: the buffers go with the last but one reference.
DetachEarly(i) ==
    IF i \in attached
      THEN /\ attached' = attached \ {i}
           /\ refs' = refs - 1
           /\ buffers' = IF refs <= 2 THEN {} ELSE buffers
      ELSE UNCHANGED <<attached, refs, buffers>>

\* cache.detach and cache.release: the last reference frees every buffer.
Detach(i) ==
    IF i \in attached
      THEN /\ attached' = attached \ {i}
           /\ refs' = refs - 1
           /\ buffers' = IF refs = 1 THEN {} ELSE buffers
      ELSE UNCHANGED <<attached, refs, buffers>>

\* Slip: drop gives up the slot without closing the interpreter.
DropUnclosed(c) ==
    /\ pc[c] = "drop"
    /\ Goto(c, "dropped")
    /\ UNCHANGED <<has, loaded, closed, live, chanVars, lockVars, draining,
                   made, cacheVars>>

\* drop: i.Close(), then live.Add(-1), then the deferred RUnlock.
DropClose(c) ==
    /\ pc[c] = "drop"
    /\ Detach(has[c])
    /\ Goto(c, "dropped")
    /\ UNCHANGED <<has, loaded, closed, live, chanVars, lockVars, draining,
                   made, cclosed, mods, installed>>

\* Slip: drop forgets live.Add(-1).
DropUncounted(c) ==
    /\ pc[c] = "dropped"
    /\ UNCHANGED live
    /\ made' = made \ {has[c]}
    /\ has' = [has EXCEPT ![c] = NoInterp]
    /\ RUnlock(c)
    /\ Goto(c, "rest")
    /\ UNCHANGED <<loaded, closed, chanVars, writer, draining, cacheVars>>

DropLive(c) ==
    /\ pc[c] = "dropped"
    /\ live' = live - 1
    /\ made' = made \ {has[c]}
    /\ has' = [has EXCEPT ![c] = NoInterp]
    /\ RUnlock(c)
    /\ Goto(c, "rest")
    /\ UNCHANGED <<loaded, closed, chanVars, writer, draining, cacheVars>>

-----------------------------------------------------------------------------
(***************************************************************************)
(* Close.                                                                  *)
(***************************************************************************)
StartClose(c) ==
    /\ pc[c] \in {"rest", "hold"}
    /\ Goto(c, "close")
    /\ UNCHANGED <<has, loaded, closed, live, chanVars, lockVars, draining,
                   made, cacheVars>>

\* Lock: announce the writer (from here on RLock blocks) ...
CloseAnnounce(c) ==
    /\ pc[c] = "close"
    /\ writer = NoClient
    /\ writer' = c
    /\ Goto(c, "mark")
    /\ UNCHANGED <<has, loaded, closed, live, chanVars, readers, draining,
                   made, cacheVars>>

\* Slip: the channel is never closed, so nobody wakes the parked clients.
CloseMarkSilent(c) ==
    /\ pc[c] = "mark"
    /\ readers = {}
    /\ writer' = NoClient
    /\ IF closed
         THEN /\ Goto(c, Returned(c))
              /\ UNCHANGED <<closed, waitq>>
         ELSE /\ closed' = TRUE
              /\ UNCHANGED waitq
              /\ pc' = [d \in Client |-> IF d = c THEN "drain"
                                         ELSE pc[d]]
    /\ UNCHANGED <<has, loaded, live, idle, readers, draining, made, cacheVars>>

\* ... and enter once the readers have left: mark the pool closed and close the
\* channel, which wakes every parked receiver empty-handed.  A second Close
\* returns at once.
CloseMark(c) ==
    /\ pc[c] = "mark"
    /\ readers = {}
    /\ writer' = NoClient
    /\ IF closed
         THEN /\ Goto(c, Returned(c))
              /\ UNCHANGED <<closed, waitq>>
         ELSE /\ closed' = TRUE
              /\ waitq' = <<>>
              /\ pc' = [d \in Client |-> IF d = c THEN "drain"
                                         ELSE IF pc[d] = "parked" THEN "rest"
                                         ELSE pc[d]]
    /\ UNCHANGED <<has, loaded, live, idle, readers, draining, made, cacheVars>>

\* Slip: Close walks the idle interpreters without taking them out of the channel.
DrainPeek(c) ==
    /\ pc[c] = "drain"
    /\ idle # <<>>
    /\ draining' = Head(idle)
    /\ UNCHANGED idle
    /\ Goto(c, "drainClose")
    /\ UNCHANGED <<has, loaded, closed, live, waitq, lockVars, made, cacheVars>>

\* for i := range p.idle { i.Close(); p.live.Add(-1) }
DrainReceive(c) ==
    /\ pc[c] = "drain"
    /\ idle # <<>>
    /\ draining' = Head(idle)
    /\ idle' = Tail(idle)
    /\ Goto(c, "drainClose")
    /\ UNCHANGED <<has, loaded, closed, live, waitq, lockVars, made, cacheVars>>

DrainClose(c) ==
    /\ pc[c] = "drainClose"
    /\ Detach(draining)
    /\ Goto(c, "drainLive")
    /\ UNCHANGED <<has, loaded, closed, live, chanVars, lockVars, draining,
                   made, cclosed, mods, installed>>

DrainLive(c) ==
    /\ pc[c] = "drainLive"
    /\ live' = live - 1
    /\ made' = made \ {draining}
    /\ draining' = NoInterp
    /\ Goto(c, "drain")
    /\ UNCHANGED <<has, loaded, closed, chanVars, lockVars, cacheVars>>

\* Slip: closing the cache frees the buffers whoever still runs in them.
CloseCacheEager(c) ==
    /\ pc[c] = "drain"
    /\ idle = <<>>
    /\ IF cclosed
         THEN UNCHANGED <<cclosed, refs, buffers>>
         ELSE /\ cclosed' = TRUE
              /\ refs' = refs - 1
              /\ buffers' = {}
    /\ Goto(c, Returned(c))
    /\ UNCHANGED <<has, loaded, closed, live, chanVars, lockVars, draining,
                   made, attached, mods, installed>>

\* cache.close: give up the pool's own reference, once.
CloseCache(c) ==
    /\ pc[c] = "drain"
    /\ idle = <<>>
    /\ IF cclosed
         THEN UNCHANGED <<cclosed, refs, buffers>>
         ELSE /\ cclosed' = TRUE
              /\ refs' = refs - 1
              /\ buffers' = IF refs = 1 THEN {} ELSE buffers
    /\ Goto(c, Returned(c))
    /\ UNCHANGED <<has, loaded, closed, live, chanVars, lockVars, draining,
                   made, attached, mods, installed>>

-----------------------------------------------------------------------------
GetStep(c) ==
    \/ GetEnter(c) \/ GetReuse(c) \/ GetMiss(c)
    \/ GrowLoad(c) \/ GrowReserve(c) \/ GrowRetry(c) \/ New(c)
    \/ WaitReceive(c) \/ WaitClosed(c) \/ WaitPark(c)

PutStep(c) ==
    \/ PutEnter(c) \/ PutHandOff(c) \/ PutSend(c)
    \/ DropClose(c) \/ DropLive(c)

CloseStep(c) ==
    \/ CloseAnnounce(c) \/ CloseMark(c)
    \/ DrainReceive(c) \/ DrainClose(c) \/ DrainLive(c) \/ CloseCache(c)

Next ==
    \E c \in Client :
        \/ StartGet(c) \/ StartPut(c) \/ StartClose(c)
        \/ GetStep(c) \/ PutStep(c) \/ CloseStep(c)
        \/ WaitCancel(c) \/ ParkCancel(c) \/ Publish(c) \/ Sync(c)

(***************************************************************************)
(* Fairness.  The scheduler runs every goroutine that can run; the RWMutex *)
(* lets in neither readers nor writers for ever past a waiting one, hence  *)
(* strong fairness on the two entries and the announcement; a borrower     *)
(* returns what it borrowed.  Nobody has to call Get or Close, and no      *)
(* context has to be cancelled.                                            *)
(***************************************************************************)
Fairness ==
    \A c \in Client :
        /\ WF_vars(GetStep(c)) /\ WF_vars(PutStep(c)) /\ WF_vars(CloseStep(c))
        /\ SF_vars(GetEnter(c)) /\ SF_vars(PutEnter(c)) /\ SF_vars(CloseAnnounce(c))
        /\ SF_vars(StartPut(c))

Spec == Init /\ [][Next]_vars
FairSpec == Spec /\ Fairness
-----------------------------------------------------------------------------
(***************************************************************************)
(* The parts of the inductive invariant behind the safety properties.      *)
(***************************************************************************)
\* The RWMutex: who is inside, and at most one announced writer.
LockInv ==
    /\ \A c \in Client : c \in readers <=> pc[c] \in RLocked
    /\ \A c \in Client : writer = c <=> pc[c] = "mark"

\* Which clients have an interpreter in hand.
HandInv ==
    \A c \in Client :
        /\ pc[c] \in {"new", "hold", "put", "send", "drop", "dropped"} => has[c] # NoInterp
        /\ pc[c] \in {"rest", "get", "poll", "load", "cas", "wait", "parked"} => has[c] = NoInterp

\* What a client may conclude from the closed check it made under the lock, and
\* that only the first Close drains.
PhaseInv ==
    /\ \A c \in Client : pc[c] \in {"poll", "load", "cas", "new", "send"} => ~closed
    /\ \A c \in Client : pc[c] \in {"drain", "drainClose", "drainLive"} => closed /\ ~cclosed
    /\ \A c, d \in Client :
          pc[c] \in {"drain", "drainClose", "drainLive"} /\
          pc[d] \in {"drain", "drainClose", "drainLive"} => c = d
    /\ cclosed => closed
    /\ draining # NoInterp => \E c \in Client : pc[c] \in {"drainClose", "drainLive"}
    /\ \A c \in Client : pc[c] \in {"drainClose", "drainLive"} => draining # NoInterp

\* A successful compare-and-swap in grow cannot pass the size.
GrowInv == \A c \in Client : pc[c] = "cas" => loaded[c] < Size

\* The channel's parked receivers.
ParkInv ==
    /\ \A k \in 1 .. Len(waitq) : pc[waitq[k]] = "parked"
    /\ \A j, k \in 1 .. Len(waitq) : j # k => waitq[j] # waitq[k]
    /\ waitq # <<>> => ~closed

\* Every interpreter in a live slot is in one place only ...
LoanInv ==
    /\ \A c, d \in Client : c # d /\ has[c] # NoInterp => has[c] # has[d]
    /\ \A j, k \in 1 .. Len(idle) : j # k => idle[j] # idle[k]
    /\ \A c \in Client : \A k \in 1 .. Len(idle) : has[c] # idle[k]
    /\ \A c \in Client : has[c] # NoInterp => has[c] \in made /\ has[c] # draining
    /\ \A k \in 1 .. Len(idle) : idle[k] \in made /\ idle[k] # draining
    /\ draining # NoInterp => draining \in made

\* ... and in one at least, so no slot leaks.
SlotInv ==
    \A i \in made : \/ \E c \in Client : has[c] = i
                    \/ \E k \in 1 .. Len(idle) : idle[k] = i
                    \/ draining = i

\* Which interpreters the cache counts, and that their code is mapped.
AttachInv ==
    /\ attached \subseteq made
    /\ \A c \in Client : pc[c] \in {"new", "dropped"} => has[c] \notin attached
    /\ \A c \in Client : has[c] # NoInterp /\ pc[c] \notin {"new", "dropped"} => has[c] \in attached
    /\ \A k \in 1 .. Len(idle) : idle[k] \in attached
    /\ \A c \in Client : pc[c] = "drainClose" => draining \in attached
    /\ \A c \in Client : pc[c] = "drainLive" => draining \notin attached
    /\ \A i \in attached : installed[i] \subseteq mods
    /\ refs > 0 => buffers = mods

-----------------------------------------------------------------------------
(***************************************************************************)
(* Properties.                                                             *)
(***************************************************************************)
\* What a client may be executing: Put ends the loan when it is called.
Borrowed(c) ==
    IF pc[c] \in {"hold", "close", "mark", "drain", "drainClose", "drainLive"}
      THEN has[c] ELSE NoInterp

InHand == {has[c] : c \in Client} \ {NoInterp}
Waiting == {idle[k] : k \in 1 .. Len(idle)}

\* Every interpreter that occupies a live slot is in exactly one place: in one
\* client's hand, once in the idle channel, or in Close's drain loop.
\* (Pool.Get, Pool.Put, Pool.Close: "Each Interpreter owns its runtime state";
\* two goroutines on one interpreter would be a data race.)
ExclusiveLoan ==
    /\ \A c, d \in Client : c # d /\ has[c] # NoInterp => has[c] # has[d]
    /\ \A j, k \in 1 .. Len(idle) : j # k => idle[j] # idle[k]
    /\ InHand \cap Waiting = {}
    /\ draining \notin InHand \cup Waiting
    /\ made = InHand \cup Waiting \cup ({draining} \ {NoInterp})

\* The atomic counter live is the number of interpreters in existence and never
\* passes the size, whatever compare-and-swaps race in grow.
LiveCounted == live = Cardinality(made) /\ live <= Size

\* Put never sends on the channel Close has closed, which would panic.
NoSendOnClosed == \A c \in Client : pc[c] = "send" => ~closed

\* grow's New never meets a closed cache, so every interpreter of the pool shares
\* its native code and is counted by it.
AttachNeverRefused == \A c \in Client : pc[c] = "new" => ~cclosed

\* cache.refs counts the attached interpreters and the open pool, nothing else.
RefsExact == refs = Cardinality(attached) + (IF cclosed THEN 0 ELSE 1)

\* The native code a borrower's dispatch table jumps into is mapped, also after
\* Close closed the cache underneath it.
RunningCodeMapped ==
    \A c \in Client : Borrowed(c) # NoInterp => installed[Borrowed(c)] \subseteq buffers

\* A client is only parked when every slot is taken and nothing is idle, so a
\* wake-up cannot have been lost (Get's "otherwise blocks until another
\* goroutine calls Put").
NoLostWakeup ==
    waitq # <<>> => ~closed /\ idle = <<>> /\ live = Size

\* A Get that was called returns, with an interpreter or an error, as long as
\* the borrowers return theirs.
GetReturns == \A c \in Client : pc[c] = "get" ~> pc[c] \in {"hold", "rest"}

\* Once the pool is closed every interpreter is eventually closed too and all
\* native code is unmapped ("Outstanding Interpreters are closed on their next
\* Put").
CloseReleasesAll == closed ~> (live = 0 /\ refs = 0 /\ buffers = {})

\* The pool implements the abstract lending discipline.
Abstract == INSTANCE Lending
    WITH lent <- [c \in Client |-> Borrowed(c)], open <- ~closed, mapped <- buffers
ImplementsLending == Abstract!LendingSpec
=============================================================================
