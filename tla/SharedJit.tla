----------------------------- MODULE SharedJit ------------------------------
(***************************************************************************)
(* How the members of a pool share native code: the compile cache          *)
(* (interp/cache.go: claim, request, covers, publish, fail, finishLocked)  *)
(* and what each member does with it (interp/interp.go: hit, trace, exit,  *)
(* shared, sync, install, retire, cool).                                   *)
(*                                                                         *)
(* A root is a place native code can start at: <<f, 0>> is the entry of    *)
(* function f, <<f, ip>> a loop header in it.  The compiler emits at most  *)
(* one native entry per build, for the root it was asked for, so a         *)
(* published module is the root of its entry.                              *)
(*                                                                         *)
(* claim reads the state and counts the hit before it takes the lock, and  *)
(* a build runs outside the lock: those are the places where members       *)
(* interleave.  Every other cache operation is one critical section.       *)
(***************************************************************************)
EXTENDS Integers, Sequences, SequencesExt

CONSTANTS
    Member,      \* interpreters attached to the cache
    Fn,          \* the functions considered
    Main,        \* the module's own code, address 0 in the program
    Header,      \* instruction offsets of loop headers
    Threshold,   \* WithThreshold
    MaxModules   \* bound on the builds that publish

ASSUME SharedJitAssumption ==
    /\ Header \subseteq Nat \ {0}
    /\ Threshold \in Nat /\ MaxModules \in Nat

Anchor  == Fn \X ({0} \cup Header)
Addr(a) == a[1]
Ip(a)   == a[2]
Request == [root : Anchor, trigger : {"hot", "exit"}]
NoRequest == [root |-> <<Main, 0>>, trigger |-> "none"]

VARIABLES
    \* the cache
    hits,         \* hot events counted, up to the threshold
    state,        \* "cold", "build" or "ready"
    active,       \* the request being built
    pending,      \* requests waiting, per function
    modules,      \* the published list
    \* the members
    pc,           \* "run", "claim" (between the count and the lock) or "build"
    job,          \* the request a member builds; while it claims, the function's entry
    gen,          \* modules installed
    saved,        \* exits: roots whose threaded handler was saved, so installed once
    native,       \* roots whose dispatch slot holds native code
    cold,         \* functions no longer instrumented
    backedges,    \* functions whose back edges report
    tried         \* roots a trace was requested for

cacheVars  == <<hits, state, active, pending, modules>>
tableVars  == <<gen, saved, native, cold, backedges>>
vars == <<cacheVars, pc, job, tableVars, tried>>

CacheTypeOK ==
    /\ hits \in [Fn -> 0 .. Threshold]
    /\ state \in [Fn -> {"cold", "build", "ready"}]
    /\ active \in [Fn -> Request \cup {NoRequest}]
    /\ pending \in [Fn -> Seq(Request)]
    /\ modules \in Seq(Anchor)
    /\ pc \in [Member -> {"run", "claim", "build"}]
    /\ job \in [Member -> Request \cup {NoRequest}]

TypeOK ==
    /\ CacheTypeOK
    /\ gen \in [Member -> 0 .. Len(modules)]
    /\ saved \in [Member -> SUBSET Anchor] /\ native \in [Member -> SUBSET Anchor]
    /\ cold \in [Member -> SUBSET Fn] /\ backedges \in [Member -> SUBSET Fn]
    /\ tried \in [Member -> SUBSET Anchor]

Init ==
    /\ hits = [f \in Fn |-> 0]
    /\ state = [f \in Fn |-> "cold"]
    /\ active = [f \in Fn |-> NoRequest]
    /\ pending = [f \in Fn |-> <<>>]
    /\ modules = <<>>
    /\ pc = [m \in Member |-> "run"]
    /\ job = [m \in Member |-> NoRequest]
    /\ gen = [m \in Member |-> 0]
    /\ saved = [m \in Member |-> {}] /\ native = [m \in Member |-> {}]
    /\ cold = [m \in Member |-> {}] /\ backedges = [m \in Member |-> Fn]
    /\ tried = [m \in Member |-> {}]

-----------------------------------------------------------------------------
(***************************************************************************)
(* Claiming a build.                                                       *)
(***************************************************************************)
HotEntry(f) == [root |-> <<f, 0>>, trigger |-> "hot"]

\* hit, and claim up to the lock: a hot event of a function nobody builds.  A call
\* reports its callee and Run the module's code, cold or not; a back edge reports
\* the function around it.
Hit(m, f) ==
    /\ pc[m] = "run"
    /\ state[f] = "cold"
    /\ IF hits[f] + 1 < Threshold
         THEN /\ hits' = [hits EXCEPT ![f] = @ + 1]
              /\ UNCHANGED <<pc, job>>
         ELSE /\ hits' = [hits EXCEPT ![f] = Threshold]
              /\ pc' = [pc EXCEPT ![m] = "claim"]
              /\ job' = [job EXCEPT ![m] = HotEntry(f)]
    /\ UNCHANGED <<state, active, pending, modules, tableVars, tried>>

\* claim under the lock: the first pending request, or the function's entry
Claimed(m, f) ==
    LET next == IF pending[f] = <<>> THEN HotEntry(f) ELSE Head(pending[f])
    IN  /\ active' = [active EXCEPT ![f] = next]
        /\ pending' = [pending EXCEPT ![f] = IF @ = <<>> THEN @ ELSE Tail(@)]
        /\ state' = [state EXCEPT ![f] = "build"]
        /\ pc' = [pc EXCEPT ![m] = "build"]
        /\ job' = [job EXCEPT ![m] = next]
        /\ UNCHANGED <<hits, modules, tableVars, tried>>

\* Slip: the state is not read again once the lock is held.
ClaimUnchecked(m) ==
    /\ pc[m] = "claim"
    /\ Claimed(m, Addr(job[m].root))

Claim(m) ==
    /\ pc[m] = "claim"
    /\ state[Addr(job[m].root)] = "cold"
    /\ Claimed(m, Addr(job[m].root))

ClaimLost(m) ==
    /\ pc[m] = "claim"
    /\ state[Addr(job[m].root)] # "cold"
    /\ pc' = [pc EXCEPT ![m] = "run"]
    /\ job' = [job EXCEPT ![m] = NoRequest]
    /\ UNCHANGED <<cacheVars, tableVars, tried>>

-----------------------------------------------------------------------------
(***************************************************************************)
(* Requests.                                                               *)
(***************************************************************************)
Covers(prior, next) ==
    /\ prior.trigger # "none"
    /\ prior.root = next.root
    /\ prior.trigger = "exit" \/ next.trigger = "hot"

\* Slip: the newest exit is served first.
PlacedFirst(queue, next) ==
    IF next.trigger = "exit" THEN <<next>> \o queue ELSE Append(queue, next)

\* A side exit goes behind the side exits at the front, a hot root to the end.
Placed(queue, next) ==
    LET hot == SelectInSeq(queue, LAMBDA r : r.trigger # "exit")
    IN  IF next.trigger = "exit" /\ hot # 0 THEN InsertAt(queue, hot, next)
                                            ELSE Append(queue, next)

\* Slip: the request a new one supersedes stays queued.
EnqueuedTwice(queue, next) ==
    IF \E k \in DOMAIN queue : Covers(queue[k], next) THEN queue ELSE Placed(queue, next)

\* Slip: one pending slot per function instead of a queue.
EnqueuedAlone(queue, next) ==
    IF \E k \in DOMAIN queue : Covers(queue[k], next) THEN queue ELSE <<next>>

Enqueued(queue, next) ==
    IF \E k \in DOMAIN queue : Covers(queue[k], next)
      THEN queue
      ELSE Placed(RemoveFirstMatch(queue, LAMBDA r : r.root = next.root), next)

\* request, one critical section
Requested(next) ==
    LET f == Addr(next.root)
    IN  IF Covers(active[f], next)
          \/ \E k \in DOMAIN pending[f] : Covers(pending[f][k], next)
          THEN UNCHANGED cacheVars
          ELSE /\ pending' = [pending EXCEPT ![f] = Enqueued(@, next)]
               /\ state' = [state EXCEPT ![f] = IF @ = "ready" THEN "cold" ELSE @]
               /\ UNCHANGED <<hits, active, modules>>

\* trace: a hot back edge at a header that has no native code yet.  When the
\* recording fails the header has been tried all the same.
Backedge(m, a, recorded) ==
    /\ pc[m] = "run"
    /\ Ip(a) # 0
    /\ Addr(a) \in backedges[m] \ cold[m]
    /\ a \notin saved[m] \cup tried[m]
    /\ tried' = [tried EXCEPT ![m] = @ \cup {a}]
    /\ IF recorded THEN Requested([root |-> a, trigger |-> "hot"]) ELSE UNCHANGED cacheVars
    /\ UNCHANGED <<pc, job, tableVars>>

\* exit: native code keeps leaving at the same place
Exit(m, a) ==
    /\ pc[m] = "run"
    /\ a \in native[m]
    /\ Requested([root |-> a, trigger |-> "exit"])
    /\ UNCHANGED <<pc, job, tableVars, tried>>

-----------------------------------------------------------------------------
(***************************************************************************)
(* Building (shared) and its two ends.                                     *)
(***************************************************************************)
\* Slip: requests that arrived during the build are forgotten.
FinishReady(m, f) ==
    /\ active' = [active EXCEPT ![f] = NoRequest]
    /\ state' = [state EXCEPT ![f] = "ready"]
    /\ pc' = [pc EXCEPT ![m] = "run"]
    /\ job' = [job EXCEPT ![m] = NoRequest]
    /\ UNCHANGED <<hits, pending, tableVars, tried>>

\* finishLocked
Finish(m, f) ==
    /\ active' = [active EXCEPT ![f] = NoRequest]
    /\ state' = [state EXCEPT ![f] = IF pending[f] = <<>> THEN "ready" ELSE "cold"]
    /\ pc' = [pc EXCEPT ![m] = "run"]
    /\ job' = [job EXCEPT ![m] = NoRequest]
    /\ UNCHANGED <<hits, pending, tableVars, tried>>

\* No compiler, an error, or no plan for the root.
Fail(m) ==
    /\ pc[m] = "build"
    /\ Finish(m, Addr(job[m].root))
    /\ UNCHANGED modules

Publish(m) ==
    /\ pc[m] = "build"
    /\ Len(modules) < MaxModules
    /\ modules' = Append(modules, job[m].root)
    /\ Finish(m, Addr(job[m].root))

-----------------------------------------------------------------------------
(***************************************************************************)
(* Installing at a safepoint, and retiring.                                *)
(***************************************************************************)
\* Slip: the whole-module entry stays when a loop of the module arrives.
InstallBeside(table, a) ==
    [saved |-> table.saved \cup {a}, native |-> table.native \cup {a},
     cold |-> table.cold \ {Addr(a)}]

\* install of one module.  A loop of the module's code takes the whole-module
\* entry out of the dispatch table again.
Install(table, a) ==
    [saved  |-> table.saved \cup {a},
     native |-> {a} \cup IF Addr(a) = Main /\ Ip(a) # 0 /\ <<Main, 0>> \in table.saved
                           THEN table.native \ {<<Main, 0>>} ELSE table.native,
     cold   |-> table.cold \ {Addr(a)}]

\* The dispatch table of m once everything published has been installed.
Synced(m) ==
    LET after[n \in Nat] ==
            IF n <= gen[m] THEN [saved |-> saved[m], native |-> native[m], cold |-> cold[m]]
            ELSE Install(after[n - 1], modules[n])
    IN  after[Len(modules)]

\* Slip: the count of installed modules runs one ahead.
SyncPast(m) ==
    /\ pc[m] = "run"
    /\ gen[m] < Len(modules)
    /\ saved' = [saved EXCEPT ![m] = Synced(m).saved]
    /\ native' = [native EXCEPT ![m] = Synced(m).native]
    /\ cold' = [cold EXCEPT ![m] = Synced(m).cold]
    /\ gen' = [gen EXCEPT ![m] = Len(modules) + 1]
    /\ UNCHANGED <<cacheVars, pc, job, backedges, tried>>

Sync(m) ==
    /\ pc[m] = "run"
    /\ gen[m] < Len(modules)
    /\ saved' = [saved EXCEPT ![m] = Synced(m).saved]
    /\ native' = [native EXCEPT ![m] = Synced(m).native]
    /\ cold' = [cold EXCEPT ![m] = Synced(m).cold]
    /\ gen' = [gen EXCEPT ![m] = Len(modules)]
    /\ UNCHANGED <<cacheVars, pc, job, backedges, tried>>

\* Slip: the function is not marked cold when its reports are taken away.
RetireWarm(m, a) ==
    /\ pc[m] = "run"
    /\ a \in native[m]
    /\ native' = [native EXCEPT ![m] = @ \ {a}]
    /\ backedges' = [backedges EXCEPT ![m] = IF Addr(a) \in cold[m] THEN @ ELSE @ \ {Addr(a)}]
    /\ UNCHANGED <<cacheVars, pc, job, gen, saved, cold, tried>>

\* The watchdog gives up on a: the threaded handler comes back, the function
\* goes cold and, unless it was cold already, is threaded without reporting.
Retire(m, a) ==
    /\ pc[m] = "run"
    /\ a \in native[m]
    /\ native' = [native EXCEPT ![m] = @ \ {a}]
    /\ cold' = [cold EXCEPT ![m] = @ \cup {Addr(a)}]
    /\ backedges' = [backedges EXCEPT ![m] = IF Addr(a) \in cold[m] THEN @ ELSE @ \ {Addr(a)}]
    /\ UNCHANGED <<cacheVars, pc, job, gen, saved, tried>>

Build(m) == Claim(m) \/ ClaimLost(m) \/ Fail(m) \/ Publish(m)

Next ==
    \E m \in Member :
        \/ \E f \in Fn : Hit(m, f)
        \/ Build(m)
        \/ \E a \in Anchor : (\E recorded \in BOOLEAN : Backedge(m, a, recorded)) \/ Exit(m, a) \/ Retire(m, a)
        \/ Sync(m)

\* Threaded code keeps calling every function, and a member that has begun a
\* claim or a build goes on with it.  The module's code is not called: one Run
\* reports it once, and nothing says that there is another.
Fairness ==
    /\ \A f \in Fn \ {Main} : WF_vars(\E m \in Member : Hit(m, f))
    /\ \A m \in Member : WF_vars(Build(m))

Spec == Init /\ [][Next]_vars
FairSpec == Spec /\ Fairness

-----------------------------------------------------------------------------
(***************************************************************************)
(* Properties.                                                             *)
(***************************************************************************)
Builds(m, f) == pc[m] = "build" /\ Addr(job[m].root) = f

\* "one winning interpreter compiles": the state says "build" exactly while one
\* member, and only one, builds the request the cache calls active.
BuildExclusive ==
    \A f \in Fn :
        /\ state[f] = "build" <=> \E m \in Member : Builds(m, f)
        /\ active[f] = NoRequest \/ state[f] = "build"
        /\ \A m, n \in Member : Builds(m, f) /\ Builds(n, f) => m = n
        /\ \A m \in Member : Builds(m, f) => active[f] = job[m]

\* A function with a request in its queue can still be claimed: it is being
\* built or cold, never "ready", where claim returns early and nobody looks.
NoRequestStranded ==
    \A f \in Fn : pending[f] # <<>> => state[f] # "ready"

\* The queue holds one request per root, side exits before hot roots, and
\* nothing the active build covers already.
QueueCoalesced ==
    \A f \in Fn : \A j \in DOMAIN pending[f] :
        /\ Addr(pending[f][j].root) = f
        /\ ~Covers(active[f], pending[f][j])
        /\ \A k \in DOMAIN pending[f] : j < k =>
              /\ pending[f][j].root # pending[f][k].root
              /\ pending[f][k].trigger = "exit" => pending[f][j].trigger = "exit"

\* A queued request stays queued, at its priority or a higher one, until it is
\* the one a member builds.
Waits(r, queue) == \E k \in DOMAIN queue : Covers(queue[k], r)
RequestKept ==
    [][\A f \in Fn : \A k \in DOMAIN pending[f] :
          \/ Waits(pending[f][k], pending'[f])
          \/ active'[f] = pending[f][k]]_vars

\* Every side exit queued for a function that keeps being called is built in the
\* end, however many more arrive.
ExitServed ==
    \A a \in {b \in Anchor : Addr(b) # Main} :
        LET r == [root |-> a, trigger |-> "exit"]
        IN  (\E k \in DOMAIN pending[Addr(a)] : pending[Addr(a)][k] = r) ~> (active[Addr(a)] = r)

\* "Retire the entry in favour of the loop": the whole-module entry shadows a module
\* loop in a dispatch table only after the entry was built again behind the loop.
EntryYields ==
    \A m \in Member :
        <<Main, 0>> \in native[m] /\ (\E h \in Header : <<Main, h>> \in native[m]) =>
            \E j, k \in 1 .. gen[m] :
                j < k /\ modules[k] = <<Main, 0>> /\ Addr(modules[j]) = Main /\ Ip(modules[j]) # 0

\* A function whose back edges stopped reporting is known as cold, or was revived
\* and has native code: none is silently left to threaded code.
SilentRunsNative ==
    \A m \in Member, f \in Fn :
        f \in backedges[m] \cup cold[m] \/ \E a \in native[m] : Addr(a) = f
=============================================================================
