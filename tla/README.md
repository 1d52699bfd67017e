# A verification development for minivm

minivm is a virtual machine in Go: NaN-boxed values, a reference-counted heap
with a cycle collector, threaded dispatch, a tracing JIT, and a pool that shares
native code between interpreters. This directory models the parts of it where
the order of events matters, checks the models with TLC on small instances and
proves the safety of the pool, the native-code cache, the heap and the frame stack
with its coroutines with TLAPS for every instance.

## 1. The system and its parts

| Part | State | Operations | Hard behaviour |
|---|---|---|---|
| `interp.Pool` | `idle` channel, `live` counter, `closed`, RWMutex | `Get`, `Put`, `Close` | any goroutine, any order; parked receivers; close against send |
| `interp.cache` | `refs`, `closed`, `buffers`, `modules`; per function `hits`, `state`, `active`, `pending` | `attach`, `detach`, `close`, `claim`, `request`, `publish`, `fail` | read before lock; requests during a build; freeing executable memory |
| `Interpreter` heap | `heap`, `rc`, `free`, `target`, scratch tables | `alloc`, `release`, `gc`, `Store`, `Reset`, every instruction that moves a reference | exactness over long instruction sequences; the heap limit; cycles |
| `Interpreter` JIT state | `code`, `exits`, `cold`, `backedges`, `tried`, `gen` | `hit`, `trace`, `exit`, `sync`, `install`, `retire`, `cool` | modules applied in publication order to a table that changed meanwhile |
| instruction handlers | operand stack, locals, globals, upvalues, constants, heap | one handler per opcode (`threaded.go`), `arrayGet`, `structField`, `mapKey`, `land` | ownership on each of the traps of each handler |
| fused handlers | the same | 443 families of handlers that replace two to four instructions | the same result, traps and counts as the instructions replaced |
| `Interpreter` machine | `frames`, `stack`, `fp`, `sp`, handler tables, coroutines | `CALL`, `RETURN`, `THROW`, `YIELD`, `RESUME`, `Run`, `safepoint` | unwinding through frames and coroutines, limits |
| tracer, planner, arm64 back end, assembler | traces, plans, code | `capture`, `Compile`, `Build` | speculation, deoptimisation |
| codec and host bridge | type caches | `Marshal`, `Unmarshal`, host functions | ownership across the boundary |
| verifier, analysis, transform, optimizer, pass manager | program facts | `Verify`, passes | fixpoints |
| debugger, profiler, cli | breakpoints, counters | hooks | stepping |

How they interact: `Pool.Get` hands an `Interpreter` to a goroutine; all
interpreters of a pool attach to one `cache` and one `tracer`. A running
interpreter reports hot events (`hit`, `backedge`, `exit`) to the cache, wins
the right to compile a root (`claim`), publishes a module (`publish`), and every
member installs published modules into its own dispatch table at a safepoint
(`sync`). `Put` resets the interpreter (`Reset`), which rebuilds the heap's
counts. `Close` closes what is idle, then gives up the pool's reference to the
cache; the last reference frees the executable buffers.

PROJECT.json lists every part under `components`, and under `hazards` what can
go wrong where.

## 2. Modules

### Pool, Lending, MCPool, PoolProofs

`Pool` is `interp/pool.go` with the lifetime half of `interp/cache.go`. A client
is a goroutine with a program counter; an action is one step no other goroutine
can split (a lock operation, an atomic operation, a channel operation, a
critical section of the cache's mutex). Names follow the calls: `GetEnter`,
`GetReuse`, `GetMiss`, `GrowLoad`, `GrowReserve`, `GrowRetry`, `New`, `Wait*`,
`Put*`, `Drop*`, `Close*`, `Drain*`. The Go runtime is modelled by what its
documentation guarantees: a writer that waits for the RWMutex blocks new
readers; a send finds the oldest parked receiver; closing the channel wakes all
receivers and leaves buffered elements receivable. `made` is a history variable,
the interpreters in existence; the code only has the counter `live`.

`Lending` is the contract without mechanism: one borrower per interpreter, at
most `Size` out, native code unmapped only after the pool is shut and everything
is back. `Pool` implements it under the mapping `Abstract` (a loan ends when
`Put` is called).

### Heap, MCHeap, Counting, Counts, HeapCounts, HeapProofs, HeapGarbage

`Heap` is the reference-counting heap of `interp/interp.go`. A *root slot* is
any owner outside the heap: an operand, a local, a global, a frame's callable,
a handle of the host. An object is the sequence of references its `Refs` method
reports; payloads are left out. Instructions are grouped by their effect on
ownership: `Dup` (DUP, LOCAL_GET, GLOBAL_GET, UPVAL_GET, `Retain`), `SetSlot`
(LOCAL_SET, GLOBAL_SET, UPVAL_SET), `TeeSlot`, `GetField`, `ArraySet`,
`StructSet`, `New`, and the host's `Release`/`Pop`, `SetGlobal`/`SetLocal`,
`Store`, `Alloc`/`Push`, `Reset`. An instruction's `release` calls are queued in
`todo` in the order the code makes them, and each call works through the
worklist `work` one address at a time; the collector runs as `Scan`,
`MarkRoots`, `MarkStep`, `Sweep`. The invariants therefore also hold between the
steps of an instruction. An allocation that fails leaves behind the operands the
handler had already taken off the stack (`PlaceExhausted`).

Two ways of releasing exist in the code and in the model: `releaseBox` skips the
null sentinel, `release` and the worklist do not; nulls are therefore counted.
`Closure`, what can be reached, is the least set that no edge leaves, and the order
in which `sweep` reclaims is stated as the one ascending enumeration (`Ascending`);
neither is recursive, so that both can be reasoned about.
Constants are immutable values without references, as host-integration.md asks.

### SharedJit, MCSharedJit, SharedJitProofs

`SharedJit` is the claim/request/publish machine of `interp/cache.go` and what
pool members do with it. The compiler emits one native entry, for the root it
was asked for, so a module is its root. `claim` is two steps, because it reads
the state and counts the hit before it locks; a build is the interval between
`Claim` and `Publish` or `Fail`. `publish`'s loop over other functions of a
module is dead for one-entry modules and left out. In a pool the entry root is
never marked tried (`warm` compiles only without a cache), so `checkCool` never
cools a pooled function; `Retire` is the only way a function goes cold.

### Machine, MCMachine, MachineProofs, MachineOwners

`Machine` is one interpreter's frame stack. The handlers are written in
`internal/cmd/geninterp/lower.go` (as Go code generators; `interp/threaded.go` is
their output), the unwinding in `interp/interp.go`. The program is left open: at
every step any instruction may come next whose operands lie on the frame's own
operand stack, which is what the bytecode verifier lets through. An instruction
pointer is reduced to the protected region it lies in (`region`, the height at
which it was entered; a frame is in one region at a time). A value is a number
or a reference to a closure, a coroutine or an error.

- Calls: `Call`, `CallCoroutine`, `CallDirect` (fused CONST_GET; CALL),
  `HostCall`, `TailFromMain`, `ReturnCall`, `ReturnCallDirect`, `Return`,
  `ReturnCoroutine`. `ref` is None where the code has `release = false`.
- Coroutines: `Yield`, `YieldMain`, `Resume`, `ResumeOverflow`, `CoroDone`,
  `CoroValue`.
- Failures: `Throw`, `Trap` (any check that fails before its instruction changed
  anything), `Unreachable`, `ResumeOverflow`; `Trapped` is `handle` with `wrap`,
  `Land` is `land` with `discard`.
- Host: `Interrupt` (a safepoint stops Run), `Run`, `Finish`, `Reset`.

`Alloc` may collect first and must when nothing is free; the collector is stated
declaratively here (what the counts from outside the heap reach survives), `Heap`
has its steps. References an instruction gives up are counted in `todo`, and
`Release` takes one of them at a time before the next instruction, whichever comes: the
code's order is one of the orders, so what holds of all holds of it. The order itself
is `Heap`'s subject.

Two constants widen the set of programs for one configuration each (section 4): `EntryThrows` admits a
region that begins between an operand and its THROW, `HollowResumes` a RESUME of
a coroutine that is not suspended. Both pass the verifier; `machine_frames` leaves
them out because what happens afterwards is the subject of those two. In that run the
stack pointer is therefore never below the region's recorded depth when `land` cuts
the stack; the opposite direction, which a THROW brings about in a region that counts
its operand, is covered by the theorem `MachineFramesWhole`, which holds for both
values of `EntryThrows`. A coroutine
counts as suspended (`Suspended`) when it is not done, no frame runs it, and a frame
was saved in it with its slots and the operands of its region.

### Threaded, Ownership, MCOwnership

`Threaded` has one operator per opcode of `interp/threaded.go` that moves values
between the operand stack, the slots and the heap, from machine record to machine
record, in the order of the code: which check comes first, what has been released
by then, whether the stack pointer was lowered, whether `ip` moved. A word is a
pair of kind and value; an I64 outside `Inline` lives on the heap, so numbers are
references too. Objects are strings, typed and generic arrays, structs of a number
and a reference, typed and generic maps, closures, errors, iterators and cells. A
map key is modelled by what `mapKey` makes of it (a string is found by its text, a
promoted number by its value). `Land` is `land`, `Handle` is `handle` with `wrap`.
Counts of the null sentinel are left to `Heap`.

`Ownership` runs these handlers: a statement pushes operands, executes one opcode,
and stores or drops the result under a protected region; `Complete` is a statement
that ends, `Catch` one that traps or throws and lands. Programs start from
`Preludes`, which fill the locals with a promoted number, a shared string, and
arrays, maps and structs that own one another. Three constants cut out what is
known to break exactness, each with a configuration that lets it in: `Late` (a
handler traps after it consumed an operand), `SelfStore` (a store of the word the
slot holds), and `Reserve` (a statement starts with that many free slots, so that
no allocation fails halfway).

### FusionShapes, GlobalFusions, LocalFusions, ConstFusions, UpvalFusions, Superinstructions, Fusion, MCFusion

The generator of `internal/cmd/geninterp` writes, besides the standalone handlers,
a table of fused ones, nine tenths of `interp/threaded.go`. `Superinstructions` and
the modules it extends are that table: one row per family of handlers that differ
only in the operator (within a group such as add, sub, mul) or in the slot an index
or value comes from, mapped to the lines the family occupies. `FusionShapes` names
what a row can say.

`Fusion` gives a row its meaning, following the emitters of `lower.go` (`numeric`,
`checked`, `branchTail`, `index`, `structIndex`, `element`, `consume`, `create`), and
runs it beside the bytecode it replaces on a second machine. `Fuse` runs a pattern
on both machines with 0, 2, 3 or 4 operands below those of the pattern, which leaves
it room for four words, or two, or one, or none; `Settle` lands the trap, if any, and drops the operands.
`exact` uses the handlers of `Threaded`, which `handlers_owned` checks on their own.
A pattern is offered when the guards of the fused handler accept the declared types
of the slots (`Accepts`, `Guarded`); what the container slot holds at run time is
free: null, a string, the declared array, one of another kind, a generic one, a
struct.

What `FusedAgrees` allows, because the code does it: fused execution may succeed
where exact execution runs out of stack or heap (it needs less room; the converse is
`FusedFits`), and a trap is delivered with another `ip` inside the same region.

## 3. Runs

| Run | Question | Instance |
|---|---|---|
| pool_safety | loans, counters, mapped code, refinement of Lending | 3 goroutines, size 2, 3 interpreters, 2 buffers |
| pool_live | does every Get return, does Close release everything | 2 goroutines, size 1 |
| heap_cycles | is nothing in use reclaimed, is all garbage, does every instruction end | 2 slots, limit 4, one field, one caught trap |
| heap_reset | the same with a constant, a global, two fields and Reset | 3 slots, limit 4 |
| heap_null_sentinel | is index 0 permanent (it is not) | 2 caught traps |
| jit_claims | one builder, no lost request, queue order, consistent dispatch tables | 2 members, the module with 3 roots, 3 modules |
| jit_exits_served | are side exits starved | 2 members, 1 function |
| machine_frames | frames whole, coroutines exclusive, counts conserved | 2 functions, 2 objects, stack 3, 3 frames |
| handlers_owned | are the counts exact after every handler and every early trap | 3 locals, 8 free slots, 4 preludes, 2 statements |
| handler_late_trap | and after a trap behind a consumed operand (no) | 1 statement, `Late` |
| fusion_agrees | does a fused handler do what it replaces | all rows but the array store, 56 scenarios, up to 2 patterns in a row |
| fusion_array_set | does the fused array store (no) | the array store rows |

Bounds. In the pool two clients are enough for each pairwise race (Get/Get,
Get/Put, Put/Close, Get/Close); the third makes a waiter overlap with both. Size 2
with three interpreters lets a dropped interpreter be replaced while another is
out. In the heap three dynamic addresses hold a self-loop, a two-ring, a
three-ring, a chain into a ring and a ring into a shared tail; `InitCap` below
`Limit` makes growth and the forced collection happen; `MaxRc` 2 lets an object
be shared. `MaxNull` and `MaxTraps` only cap counters. In SharedJit three roots
let a side exit arrive behind a hot request and in front of another one;
`MaxModules` bounds publications, failing builds are unbounded. In Machine two
objects are a callable and a coroutine that can hold each other and themselves
(so a collection has something to free), three frames are the module, a coroutine
and a call inside it, and a stack of three reaches both limits, an image that no
longer fits included. `Runway` 2 in heap_cycles makes the forced collection at a
full backing slice happen. In Ownership two statements are a handler that puts the
heap into a shape and a handler that meets it; the preludes stand for the longer
programs before them, and ten slots leave every statement the room `Reserve` asks
for. In Fusion five slots are the constants, the container and two promoted
numbers: a number that needs a slot of its own finds the heap full in some scenarios
and not in others; four numbers, two of them promoted, and an operator `Apply` that
does not commute tell the operands apart; two patterns in a row matter only where
the first stores into a slot the second reads.

`jit_*` runs do not check deadlock: once everything is compiled or has been
tried, the JIT legitimately has nothing left to do. `handlers_owned` and
`fusion_agrees` stop when their statements are used up.

Fairness. `pool_live`: every goroutine that can step does; the RWMutex starves
neither readers nor writers (Go's does not: a waiting writer blocks new readers
and the readers that waited meanwhile go first when it unlocks), hence strong
fairness on the lock entries; borrowers return what they borrowed. Nobody has to
call `Get` or `Close`. `jit_exits_served`: threaded code keeps calling the function, and a claim or
build that has begun ends; builds may always fail. Nothing is assumed of the module's
own code, which Run reports once (interp.go:418) and nobody calls. That instructions end
(`WorkRunsDown` in heap_cycles) needs no fairness: each step lowers a bound on those
left, and the deadlock check says that there is a step.

## 4. Disagreements between code and documentation

Three runs end in a counterexample; PROJECT.json quotes the lines.

1. *The null sentinel can be reclaimed* (heap_null_sentinel). A caught trap becomes
   an `Error` whose value is an uncounted `BoxedNull`; freeing it releases index 0
   through the worklist. `New` leaves one count to spare, `Reset` none.
2. *A trap behind a consumed operand releases it twice* (handler_late_trap): I64
   division by zero with a promoted operand, STRING_EQ with a second operand that is
   no string, ARRAY_LEN of something that is no array.
3. *The fused array store pops three operands nobody pushed* (fusion_array_set).

Five more have a configuration beside the models, to be run by hand (`tlc -config
<cfg> <module>`), each ending in a counterexample:

- MCMachine_escape.cfg, `NothingEscapes`: a trap caught at a full heap or a full stack
  panics again inside dispatch's recover (`wrap` allocates, `land` writes), and leaves
  Run as a Go panic, which interp.go:427 says cannot happen.
- MCMachine_entry.cfg, `StackCounted`: when the thrown operand was pushed before its
  region began, the region's depth counts it, and the exception ends up on the stack
  twice with one count.
- MCMachine_hollow.cfg, `ResumesSuspended`: RESUME refuses only a coroutine that is
  done, and continues one that is running or was unwound from an empty image.
- MCOwnership_self.cfg, `CountsExact`: a store of the reference the slot already holds
  keeps the operand's count (Heap's `LeaksOnlySelfStores` says that nothing else does).
- MCFusion_field.cfg, `FusedAgrees`: fused STRUCT_GET traps when the run-time struct
  gives the field another kind than the declared type does; the standalone handler
  boxes what it finds. Only unverified programs, or references of unknown type, get
  there.

Found while modelling and not stated as properties: a fused handler that traps leaves
`ip` at the start of its pattern, so a region that begins inside the pattern does not
see the trap; I32_OR of an I1 and an I8 ors their tags into the reserved one; a generic
map stores 0 as the key of an I64 entry, so MAP_KEYS loses it.

Others are written into the properties of passing runs as the exceptions they
admit, so that the property says exactly how far the code's promise goes:

- `LeaksOnlySelfStores` (Heap): LOCAL_SET, GLOBAL_SET and UPVAL_SET of the reference
  the slot already holds consume an owned operand and release nothing.
- `NothingLost` (Machine): the same, CORO_DONE, which overwrites the handle it pops,
  a RESUME whose image does not fit, and a host function that answers a reference it
  was passed twice.
- `RegionCatches` (Machine): UNREACHABLE (and YIELD without a coroutine) advances `ip`
  before it fails, so the last instruction of a region is not protected from it.
- `EntryYields` (SharedJit): a side-exit rebuild of the whole-module entry published
  after a module loop is installed over it again.
- `SilentRunsNative` (SharedJit): `install` clears `cold` of a retired function, but
  the back-edge reports `cool` removed do not come back.
- A yielding function entered by RETURN_CALL from a frame without a coroutine has
  none either (`TailFromMain`, `Replaced`), and its YIELD traps (`Trap`).

## 5. Proofs

Every invariant and action property of the runs on `Pool`, `Heap` and `SharedJit`
is a theorem for all values of the constants, and so is the refinement of `Lending`;
of these runs only the temporal properties (`pool_live`, `ExitServed`) are left to
TLC. Every property of `machine_frames` is a theorem too, for the programs that run
admits. The inductive invariants were themselves checked by TLC before they were
proved.

### The pool

`PoolProofs`: for any set of clients, any `Size`, any interpreters and buffers the
conjunction `PoolInv` of `TypeOK` and the parts `LockInv`, `HandInv`, `PhaseInv`,
`GrowInv`, `ParkInv`, `LoanInv`, `SlotInv`, `AttachInv`, `LiveCounted`, `RefsExact`
is inductive. Why the parts are needed: `NoSendOnClosed` holds because a client that
passed the closed check still holds the read lock (`LockInv`, `PhaseInv`);
exclusiveness of loans needs to know where each interpreter is (`LoanInv`,
`SlotInv`), and that in turn who has one in hand (`HandInv`); mapped code needs the
reference count to be exact (`RefsExact`), which needs to know who is attached at
each point (`AttachInv`). Each action has a lemma of its own, split by the conjuncts
it can disturb.

`NoLostWakeup` needs two more facts (`WakeInv`): a slot is given up
only after Close, and a client that is about to wait found all slots taken. The
refinement goes action by action: `LendTo`, `LendBack`, `LendMap`, `LendShut` and
`LendUnmap` are the steps of `Lending` that a step of the pool can be, and `LastRef`
says that when the reference count reaches zero everything is back.

Assumptions: `Size` is positive, the interpreters are a finite set at least that
large, the two "none" values are not members. TLC evaluates them in every run.

### The heap

Counting. `Counting` defines how often a reference occurs in a sequence, for `Heap` and
`Machine`. `Counts` has the lemmas about it when one place changes or a sequence is cut
or joined, `HeapCounts` those about the slots and the fields of the heap. `Owners`, which counts over live objects, is turned
into the sum `Total` of such numbers, one per place a reference can be in.

`HeapProofs`: `HeapInv` is inductive. `ShapeInv` is the type invariant with the
layout (constants in place, objects below `top`, a pending field write names a field
that exists); `CoverInv` says that counts cover owners and are positive exactly on
live objects; `QuietInv` and `PendInv` say what an allocation under way has and has
not; `FreeInv` is the free list; `TrialInv` is what makes the collector safe. For the
last, "counts minus edges is not negative" is not inductive: when mark is done, an
unmarked object must be known to be owned by unmarked objects only. So `TrialInv`
keeps, for every object that is not visited, that its trial count is still its count
minus its edges, for every visited one that is no longer grey, that its children are
visited, and that somebody vouches for it (`Vouched`). For each action one lemma
shows that the totals change as the counts do (`Exact`, or `Covering` where a
reference is lost), from which `CoverInv` and `LeaksOnlySelfStores` follow.

Hypotheses. The null sentinel can be reclaimed (finding 1), and once it is, address 0
is on the free list and nothing can be promised. The theorems therefore say
`Spec /\ []NullPermanent => ...`. Since a finite behaviour that keeps the sentinel can be
continued by stuttering, the safety theorems speak of every state up to the one in
which it is lost. How long that is, is proved too, without the hypothesis:
`HeapNullCovered` and `HeapSafeInBudget` hold until a second trap is caught, or a
first one where the host calls Reset (`NullBudget`), and by `HeapNullPermanent` the
hypothesis itself holds in every behaviour of an interpreter that stays below that
number, which is the case in `heap_cycles` and `heap_reset`.

`HeapGarbage`: completeness of the collector and termination. That visited objects
are reachable is not enough, because sweep takes the edges of dead objects away: a
path to a survivor has to run over visited objects only (`MarkReach`, with the sets
`Followed` that such paths cannot leave). After the sweep everything alive is reachable
(`PlaceReach`), hence an allocation that fails found a heap full of reachable objects.
`WorkRunsDown` is proved by splitting the bound into the fields on the heap, the
addresses still to release and the turns of the allocation; an object that is
reclaimed or placed moves its fields from one of the numbers to another, an object
that mark visits leaves a number that counts double.

Assumptions: `1 <= Base <= InitCap <= Limit`, `Width` positive, finitely many slots.

### The cache

`SharedJitProofs`: for any members, functions, loop headers, threshold and number of
builds `CacheInv` is inductive: `CacheTypeOK`, `BuildExclusive`, `NoRequestStranded`,
and two parts they need. `OwnQueue` says that a function's queue holds only roots of
that function, so that the request `claim` takes from it is built under the function
it marked; `BusyInv` says that a member past its hit has a request in hand, so that
`finishLocked` is called for a function of the program.

`TablesInv` adds the dispatch tables: `TableOK` relates a member's table to the
modules published so far, and is kept by every `Install`, by `Retire`, and so by
`Synced`, which applies any number of modules. `Synced` is a recursive function; that
such a function exists and satisfies its equation is derived (`PartialExists`,
`PartialUnique`, `SyncedUnfolds`), with the least counterexample in place of an
induction theorem.

What `request` does to a queue, by lemmas about removing and inserting at a
position (`RemovedAt`, `InsertedAt`, `QueueEnqueued`), gives
`QueueCoalesced` and the action property `RequestKept`.

Assumptions: loop headers are positive offsets, `Threshold` and `MaxModules` are
natural numbers.

### The machine

`MachineProofs`: for any functions and signatures, any objects, any depth of the stack
and of the frame stack, `MachineFramesWhole` (`FramesWhole`) and `MachineRegionCatches`
(`RegionCatches`). `FramesWhole` relates a frame to its neighbour only and is not
inductive: unwinding drops any number of frames at once. `FrameInv` therefore says that
each frame is whole below *every* later one (`Nested`), and adds what the steps need to
keep that: a region is entered above the slots, so that a handler starting at the
region's height finds them (`Whole`); the same of the frame a coroutine saved
(`Saved`), which RESUME puts back; and a coroutine's frame starts below the limit of
the stack, so that the handle that replaces it fits (`Hosting`: CALL has consumed a
callable, RESUME two operands). Every frame operation is one of four (`Opened`,
`Closed`, `Swapped`, `Landed`), all instances of `Regrown`: the frames below some index
stay, and one comes on them. For `RegionCatches`, `FailingActions` lists the actions
that can make Run fail; `InnermostOf` shows that `handler` finds a frame when one covers.

Hypothesis: `~HollowResumes`. A RESUME of a coroutine that lost its frame builds one
whose slots are not on the stack, and `FramesWhole` is false of it. `EntryThrows` may
be either.

`MachineOwners`: `TypeOK`, `NoDangling`, `CoroutineExclusive` and the action property
`NothingLost`. That counts cover owners is not inductive alone, and `OwnInv` adds what
the steps need:

- `FrameInv`, since which slots an instruction moves depends on where its frame begins,
  and `Fitting`: a saved image is no longer than the stack, so that every reference an
  object holds is among the places that are counted.
- `Short`: a frame returns one value at most, so that what RETURN leaves on a coroutine's
  frame is exactly what it puts in the coroutine.
- `Sound`: a free address is blank and has no count, so that an allocation overwrites
  nothing and a new object starts with exactly the count of the slot it is put in.
- `Lending`: a coroutine is in one frame at most; there, image, callable and value are
  empty, so YIELD and RETURN overwrite no reference; done, image and callable are. RESUME
  keeps this because what it continues is in no frame, unwinding because `discard` drops
  a frame with its reference.

The argument is a sum. `Owners` counts places; `OwnersSum` makes it six numbers: cells
of objects, stack slots, pending releases, the global, callables and coroutines of
frames. Each frame operation has a lemma on how it changes them (`FramesPushed`,
`FramesClosed`, `FramesSwapped`, `FramesLanded`), a stack operation cuts and joins
(`CountCut`, `CountConcat`), and a write to one object changes the cells by the
difference of its fields (`CellsUpdate`). Every instruction then has one lemma that
says `OwnInv' /\ Exact`: count and owners of each object change by the same number. The
four that leave a count over have `OwnInv'` alone (HostCall says of which object), and
that is `NothingLost`; a step into "failed" may drop operands, and Run does not go on.
For a collection, `GarbageOwned` shows that what nothing outside leads to is held by
other garbage only and sits in no frame.

Hypotheses: `~HollowResumes`, as above; without it a coroutine that runs can be resumed
again and is then in two frames. `~EntryThrows`: THROW of an operand below its
region's base leaves the operand on the stack twice with one count. `StackCounted`,
which MCMachine_entry.cfg refutes, is proved under them (`MachineStackCounted`).

Assumptions on the constants: finitely many heap slots, none of them named like a
number or like no reference; positive limits of both stacks; functions return no value
or one. TLC evaluates them in `machine_frames`.

### Only model-checked

- Liveness: `pool_live` and `ExitServed`. Fairness is out of the prover's reach.
- `Ownership` and `Fusion` (`CountsExact`, `FusedAgrees`, `FusedOwns`, `FusedFits`):
  `Threaded` follows release's worklist with a RECURSIVE operator, for which the
  prover has no backend. That the counts of every single handler are exact is
  therefore checked by `handlers_owned` on its instance and not proved; what `Heap`
  proves is that the ownership effects the handlers are grouped by keep them exact.

## 6. Not modelled

See `components`: encoders, the arm64 back end and planners (data
transformations without interleaving), text formats, the command line,
profiling, the catalogue and the validation of the generator (their product is
modelled). Panics out of `New` inside `Pool.grow`. In `Threaded`: containers backed by
the host (HostArray, HostMap, HostStruct), the computed branches, the data of strings
and numbers beyond what tells operands apart, and the bit layout of words. In
`Fusion`: regions that begin or end inside a pattern. In `Machine`: `invoke` and the
host-callback trampoline, iterators behind RESUME, nested regions of one frame,
several return values, captures, Run again after a failure, and what an
allocation that fails in mid-instruction leaves on the stack (Run ends there).

## 7. Plan

1. `Machine`: `invoke` and the trampoline, nested regions, iterators.
2. `Reuse`: struct and array pools against values the host detached with `Pop`.
3. `Tracer`: trees, attempts, `forget`, capture under `recordMu`, shared by a
   pool; the solo compile path (`warm`, `settled`, `checkCool`).
4. `Verify`: the verifier's worklist checked against a path-based reference.
