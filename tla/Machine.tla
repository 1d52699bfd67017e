------------------------------- MODULE Machine -------------------------------
(***************************************************************************)
(* Frames, calls, exceptions and coroutines of one interpreter: the CALL,  *)
(* RETURN, RETURN_CALL, YIELD, RESUME, CORO_DONE, CORO_VALUE and THROW     *)
(* handlers (internal/cmd/geninterp/lower.go, from which                   *)
(* interp/threaded.go is generated), land, discard, handler, handle and    *)
(* wrap (interp/interp.go), coroutine (interp/coroutine.go), Run, dispatch *)
(* and Reset.                                                              *)
(*                                                                         *)
(* The program is left open: at every step any instruction may come next   *)
(* that a verified program could have there, that is, one whose operands   *)
(* are on the frame's own operand stack.  An instruction pointer is        *)
(* reduced to the protected region it lies in.  Values are numbers (Num)   *)
(* or references to closures, coroutines and errors.                       *)
(***************************************************************************)
EXTENDS Integers, Sequences, FiniteSets, SequencesExt, Counting

CONSTANTS
    Fn,            \* functions of the program besides the module body
    Sig,           \* Sig[f].params, .locals, .returns; .yields: the body has a YIELD
    Obj,           \* heap slots
    StackCap,      \* len(i.stack)
    FrameCap,      \* len(i.frames)
    MaxRc,         \* bound on the count an object can accumulate
    EntryThrows,   \* programs may open a region between an operand and its THROW
    HollowResumes  \* programs may RESUME a coroutine that is not suspended

Main == "main"                  \* the module body, frame 1
Num  == "number"                \* any value that is not a reference
None == "none"
NoRegion == -1

ASSUME MachineAssumption ==
    /\ IsFiniteSet(Obj) /\ Num \notin Obj /\ None \notin Obj
    /\ StackCap \in Nat \ {0} /\ FrameCap \in Nat \ {0} /\ MaxRc \in Nat
    /\ EntryThrows \in BOOLEAN /\ HollowResumes \in BOOLEAN
    /\ Sig \in [Fn -> [params : Nat, locals : Nat, returns : 0 .. 1, yields : BOOLEAN]]

VARIABLES
    frames,   \* i.frames[:i.fp]
    stack,    \* i.stack[:i.sp]
    obj,      \* the heap
    rc,       \* reference counts
    global,   \* a global of type any
    todo,     \* how often the current instruction still has to release each object
    status    \* of Run: "running", "stopped", "done", "failed" or "panicked"

vars == <<frames, stack, obj, rc, global, todo, status>>

Value == Obj \cup {Num}
Blank == [kind |-> "free", fn |-> None, image |-> <<>>, value |-> Num, ref |-> None,
          slots |-> 0, returns |-> 0, region |-> NoRegion, done |-> FALSE]
Frame == [fn : Fn \cup {Main}, bp : Nat, slots : Nat, returns : Nat,
          region : Nat \cup {NoRegion}, ref : Obj \cup {None}, coro : Obj \cup {None}]
Object == [kind : {"free", "closure", "coroutine", "error"}, fn : Fn \cup {None},
           image : Seq(Value), value : Value, ref : Obj \cup {None}, slots : Nat,
           returns : Nat, region : Nat \cup {NoRegion}, done : BOOLEAN]

TypeOK ==
    /\ frames \in Seq(Frame) /\ Len(frames) \in 1 .. FrameCap
    /\ stack \in Seq(Value) /\ Len(stack) <= StackCap
    /\ obj \in [Obj -> Object]
    /\ rc \in [Obj -> Nat]
    /\ global \in Value
    /\ todo \in [Obj -> Nat]
    /\ status \in {"running", "stopped", "done", "failed", "panicked"}

\* Releases to make: one for every reference in s, in whichever order
Nothing == [o \in Obj |-> 0]
Releases(s) == [o \in Obj |-> Count(s, o)]

MainFrame == [fn |-> Main, bp |-> 0, slots |-> 0, returns |-> 0, region |-> NoRegion,
              ref |-> None, coro |-> None]

Init ==
    /\ frames = <<MainFrame>>
    /\ stack = <<>>
    /\ obj = [o \in Obj |-> Blank]
    /\ rc = [o \in Obj |-> 0]
    /\ global = Num
    /\ todo = Nothing
    /\ status = "running"

-----------------------------------------------------------------------------
Top == Last(frames)
Height == Len(stack)
Running == status = "running" /\ todo = Nothing
Free == {o \in Obj : obj[o].kind = "free"}
Nums(n) == [k \in 1 .. n |-> Num]

\* The lowest height an instruction of the current frame may pop to: operands below
\* a region's entry are not touched inside it.
Floor(f) == f.bp + (IF f.region = NoRegion THEN f.slots ELSE f.region)
Operands(n) == Height - n >= Floor(Top)
Room(n) == Height + n <= StackCap

\* What the frames hold
Callables(fs) == [k \in DOMAIN fs |-> fs[k].ref]
Coroutines(fs) == [k \in DOMAIN fs |-> fs[k].coro]

\* References held by objects, and by everything else
Fields(v) == v.image \o <<v.value, v.ref>>
HeldBy(S, o) ==
    Cardinality({e \in S \X (1 .. StackCap + 2) :
                    LET fields == Fields(obj[e[1]]) IN e[2] \in DOMAIN fields /\ fields[e[2]] = o})
Held(o) == HeldBy(Obj, o)
External(o) == Count(stack, o) + todo[o] + One(global = o)
               + Count(Callables(frames), o) + Count(Coroutines(frames), o)
Owners(o) == Held(o) + External(o)

\* release, one address of its worklist, whichever is next on it
Release(o) ==
    /\ todo[o] > 0
    /\ LET last == rc[o] = 1
           children == IF last THEN Fields(obj[o]) ELSE <<>>
       IN  /\ rc' = [rc EXCEPT ![o] = @ - 1]
           /\ obj' = IF last THEN [obj EXCEPT ![o] = Blank] ELSE obj
           /\ todo' = [p \in Obj |-> todo[p] - One(p = o) + Count(children, p)]
    /\ UNCHANGED <<frames, stack, global, status>>

\* gc: an object is garbage when no object with a count from outside the heap leads
\* to it
Reached ==
    LET Closed(S) == \A p \in S : Range(Fields(obj[p])) \cap Obj \subseteq S
        rooted == {o \in Obj : rc[o] > Held(o)}
    IN  {o \in Obj : \A S \in SUBSET Obj : rooted \subseteq S /\ Closed(S) => o \in S}
Garbage == Obj \ (Free \cup Reached)

\* alloc: a collection may come first, and does when no address is free
Alloc(o, v) ==
    \E dead \in {{}, Garbage} :
        /\ o \in Free \cup dead
        /\ obj' = [p \in Obj |-> IF p = o THEN v ELSE IF p \in dead THEN Blank ELSE obj[p]]
        /\ rc' = [p \in Obj |-> IF p = o THEN 1
                               ELSE IF p \in dead THEN 0 ELSE rc[p] - HeldBy(dead, p)]

Exhausted == Free \cup Garbage = {}

-----------------------------------------------------------------------------
(***************************************************************************)
(* Values and protected regions.                                           *)
(***************************************************************************)
Push(v) ==
    /\ Room(1)
    /\ stack' = Append(stack, v)

\* I32_CONST and its kin
Const ==
    /\ Running
    /\ Push(Num)
    /\ UNCHANGED <<frames, obj, rc, global, todo, status>>

\* CLOSURE_NEW of a function without captures
ClosureNew(f, o) ==
    /\ Running
    /\ Alloc(o, [Blank EXCEPT !.kind = "closure", !.fn = f])
    /\ Push(o)
    /\ UNCHANGED <<frames, global, todo, status>>

\* retainBox
Retain(v) ==
    /\ v \in Obj => rc[v] < MaxRc
    /\ rc' = IF v \in Obj THEN [rc EXCEPT ![v] = @ + 1] ELSE rc

\* DUP, LOCAL_GET
Copy(k) ==
    /\ Running
    /\ k \in Top.bp + 1 .. Height
    /\ Push(stack[k])
    /\ Retain(stack[k])
    /\ UNCHANGED <<frames, obj, global, todo, status>>

Drop ==
    /\ Running
    /\ Operands(1)
    /\ stack' = Front(stack)
    /\ todo' = Releases(<<Last(stack)>>)
    /\ UNCHANGED <<frames, obj, rc, global, status>>

GlobalGet ==
    /\ Running
    /\ Push(global)
    /\ Retain(global)
    /\ UNCHANGED <<frames, obj, global, todo, status>>

\* GLOBAL_SET: nothing is released when the global already holds the operand
GlobalSet ==
    /\ Running
    /\ Operands(1)
    /\ global' = Last(stack)
    /\ stack' = Front(stack)
    /\ todo' = IF global = Last(stack) THEN Nothing ELSE Releases(<<global>>)
    /\ UNCHANGED <<frames, obj, rc, status>>

\* The instruction pointer moves into a region entered at the present height, or out
Enter ==
    /\ Running
    /\ Top.region = NoRegion
    /\ frames' = [frames EXCEPT ![Len(frames)].region = Height - Top.bp]
    /\ UNCHANGED <<stack, obj, rc, global, todo, status>>

Leave ==
    /\ Running
    /\ Top.region # NoRegion
    /\ frames' = [frames EXCEPT ![Len(frames)].region = NoRegion]
    /\ UNCHANGED <<stack, obj, rc, global, todo, status>>

-----------------------------------------------------------------------------
(***************************************************************************)
(* Calls.  A closure on the stack is consumed and becomes the frame's      *)
(* callable; the fused CONST_GET; CALL enters a function that does not     *)
(* yield and takes no reference (ref is None).  n is 1 or 0 accordingly.   *)
(***************************************************************************)
\* Slip: the depth of the frame stack is not checked.
PushedUnchecked(f, ref, coro, n) ==
    LET bp == Height - n - Sig[f].params
    IN  /\ Operands(n + Sig[f].params) /\ Room(Sig[f].locals - n)
        /\ stack' = SubSeq(stack, 1, Height - n) \o Nums(Sig[f].locals)
        /\ frames' = Append(frames,
              [fn |-> f, bp |-> bp, slots |-> Sig[f].params + Sig[f].locals,
               returns |-> Sig[f].returns, region |-> NoRegion, ref |-> ref, coro |-> coro])

\* Slip: the stack pointer is left below the locals.
PushedShort(f, ref, coro, n) ==
    LET bp == Height - n - Sig[f].params
    IN  /\ Len(frames) < FrameCap
        /\ Operands(n + Sig[f].params) /\ Room(Sig[f].locals - n)
        /\ stack' = SubSeq(stack, 1, Height - n)
        /\ frames' = Append(frames,
              [fn |-> f, bp |-> bp, slots |-> Sig[f].params + Sig[f].locals,
               returns |-> Sig[f].returns, region |-> NoRegion, ref |-> ref, coro |-> coro])

Pushed(f, ref, coro, n) ==
    LET bp == Height - n - Sig[f].params
    IN  /\ Len(frames) < FrameCap
        /\ Operands(n + Sig[f].params) /\ Room(Sig[f].locals - n)
        /\ stack' = SubSeq(stack, 1, Height - n) \o Nums(Sig[f].locals)
        /\ frames' = Append(frames,
              [fn |-> f, bp |-> bp, slots |-> Sig[f].params + Sig[f].locals,
               returns |-> Sig[f].returns, region |-> NoRegion, ref |-> ref, coro |-> coro])

Callee == IF Height > 0 /\ Last(stack) \in Obj /\ obj[Last(stack)].kind = "closure"
            THEN {obj[Last(stack)].fn} ELSE {}

Call(f) ==
    /\ Running
    /\ f \in Callee /\ ~Sig[f].yields
    /\ Pushed(f, Last(stack), None, 1)
    /\ UNCHANGED <<obj, rc, global, todo, status>>

\* CALL of a function with a YIELD: the frame owns a new coroutine
CallCoroutine(f, o) ==
    /\ Running
    /\ f \in Callee /\ Sig[f].yields
    /\ Alloc(o, [Blank EXCEPT !.kind = "coroutine"])
    /\ Pushed(f, Last(stack), o, 1)
    /\ UNCHANGED <<global, todo, status>>

CallDirect(f) ==
    /\ Running
    /\ ~Sig[f].yields
    /\ Pushed(f, None, None, 0)
    /\ UNCHANGED <<obj, rc, global, todo, status>>

\* CONST_GET; CALL of a host function of two parameters that answers a number or an
\* argument: an argument it answers is not released, however often it was passed
HostCall(r) ==
    /\ Running
    /\ Room(1) /\ Operands(2)
    /\ LET args == SubSeq(stack, Height - 1, Height)
       IN  /\ r \in Range(args) \cup {Num}
           /\ stack' = Append(SubSeq(stack, 1, Height - 2), r)
           /\ todo' = [o \in Obj |-> IF o = r THEN 0 ELSE Count(args, o)]
    /\ UNCHANGED <<frames, obj, rc, global, status>>

\* RETURN_CALL from the module body is a call; it never makes a coroutine
TailFromMain(f) ==
    /\ Running
    /\ Len(frames) = 1
    /\ f \in Callee
    /\ Pushed(f, Last(stack), None, 1)
    /\ UNCHANGED <<obj, rc, global, todo, status>>

\* RETURN_CALL elsewhere replaces the frame, which keeps its coroutine: everything
\* below the arguments is released, then the old callable
Replaced(f, ref, n) ==
    LET args == Height - n - Sig[f].params
    IN  /\ Len(frames) > 1
        /\ args >= Top.bp + Top.slots
        /\ Top.bp + Sig[f].params + Sig[f].locals <= StackCap
        /\ stack' = SubSeq(stack, 1, Top.bp) \o SubSeq(stack, args + 1, Height - n)
                       \o Nums(Sig[f].locals)
        /\ todo' = Releases(SubSeq(stack, Top.bp + 1, args) \o <<Top.ref>>)
        /\ frames' = [frames EXCEPT ![Len(frames)] =
              [@ EXCEPT !.fn = f, !.ref = ref, !.slots = Sig[f].params + Sig[f].locals,
                        !.returns = Sig[f].returns, !.region = NoRegion]]

ReturnCall(f) ==
    /\ Running
    /\ f \in Callee
    /\ Replaced(f, Last(stack), 1)
    /\ UNCHANGED <<obj, rc, global, status>>

ReturnCallDirect(f) ==
    /\ Running
    /\ ~Sig[f].yields
    /\ Replaced(f, None, 0)
    /\ UNCHANGED <<obj, rc, global, status>>

\* RETURN: everything below the returned value is released, then the callable
Return ==
    /\ Running
    /\ Len(frames) > 1 /\ Top.coro = None
    /\ Height >= Top.bp + Top.slots + Top.returns
    /\ stack' = SubSeq(stack, 1, Top.bp) \o SubSeq(stack, Height - Top.returns + 1, Height)
    /\ todo' = Releases(SubSeq(stack, Top.bp + 1, Height - Top.returns) \o <<Top.ref>>)
    /\ frames' = Front(frames)
    /\ UNCHANGED <<obj, rc, global, status>>

\* RETURN from a coroutine's frame: the result goes into the coroutine, and the
\* frame's reference to the coroutine goes to the caller
ReturnCoroutine ==
    /\ Running
    /\ Len(frames) > 1 /\ Top.coro # None
    /\ Height >= Top.bp + Top.slots + Top.returns
    /\ obj' = [obj EXCEPT ![Top.coro] =
          [@ EXCEPT !.value = IF Top.returns > 0 THEN Last(stack) ELSE Num,
                    !.done = TRUE, !.image = <<>>, !.ref = None]]
    /\ stack' = Append(SubSeq(stack, 1, Top.bp), Top.coro)
    /\ todo' = Releases(SubSeq(stack, Top.bp + 1, Height - Top.returns) \o <<Top.ref>>)
    /\ frames' = Front(frames)
    /\ UNCHANGED <<rc, global, status>>

-----------------------------------------------------------------------------
(***************************************************************************)
(* Coroutines.                                                             *)
(***************************************************************************)
\* Slip: the frame's callable is released although the coroutine takes it over.
YieldReleasing ==
    /\ Running
    /\ Len(frames) > 1 /\ Top.coro # None /\ Sig[Top.fn].yields
    /\ Operands(1)
    /\ obj' = [obj EXCEPT ![Top.coro] =
          [@ EXCEPT !.value = Last(stack), !.image = SubSeq(stack, Top.bp + 1, Height - 1),
                    !.fn = Top.fn, !.ref = Top.ref, !.slots = Top.slots,
                    !.returns = Top.returns, !.region = Top.region]]
    /\ stack' = Append(SubSeq(stack, 1, Top.bp), Top.coro)
    /\ todo' = Releases(<<Top.ref>>)
    /\ frames' = Front(frames)
    /\ UNCHANGED <<rc, global, status>>

Yield ==
    /\ Running
    /\ Len(frames) > 1 /\ Top.coro # None /\ Sig[Top.fn].yields
    /\ Operands(1)
    /\ obj' = [obj EXCEPT ![Top.coro] =
          [@ EXCEPT !.value = Last(stack), !.image = SubSeq(stack, Top.bp + 1, Height - 1),
                    !.fn = Top.fn, !.ref = Top.ref, !.slots = Top.slots,
                    !.returns = Top.returns, !.region = Top.region]]
    /\ stack' = Append(SubSeq(stack, 1, Top.bp), Top.coro)
    /\ frames' = Front(frames)
    /\ UNCHANGED <<rc, global, todo, status>>

\* YIELD in the module body: Run returns ErrYield, the value stays on the stack
YieldMain ==
    /\ Running
    /\ Len(frames) = 1 /\ Operands(1)
    /\ status' = "stopped"
    /\ UNCHANGED <<frames, stack, obj, rc, global, todo>>

IsCoroutine(v) == v \in Obj /\ obj[v].kind = "coroutine"
InFrame(o) == {k \in DOMAIN frames : frames[k].coro = o}

\* A frame that can be continued: it was saved with its parameters, its locals and
\* the operands of the region it was in.
Suspended(o) ==
    /\ obj[o].fn # None /\ ~obj[o].done /\ InFrame(o) = {}
    /\ Len(obj[o].image) >= obj[o].slots
    /\ Len(obj[o].image) >= obj[o].region

\* The coroutine under the operand, for RESUME
Resumable(o) ==
    /\ Operands(2)
    /\ stack[Height - 1] = o /\ IsCoroutine(o) /\ ~obj[o].done
    /\ HollowResumes \/ Suspended(o)
    /\ Len(frames) < FrameCap

\* Slip: the image stays in the coroutine while its values are on the stack.
ResumeKeeping(o) ==
    /\ Running
    /\ Resumable(o)
    /\ Room(Len(obj[o].image) - 1)
    /\ stack' = Append(SubSeq(stack, 1, Height - 2) \o obj[o].image, Last(stack))
    /\ frames' = Append(frames,
          [fn |-> obj[o].fn, bp |-> Height - 2, slots |-> obj[o].slots,
           returns |-> obj[o].returns, region |-> obj[o].region, ref |-> obj[o].ref, coro |-> o])
    /\ obj' = [obj EXCEPT ![o] = [@ EXCEPT !.value = Num, !.ref = None]]
    /\ todo' = Releases(<<obj[o].value>>)
    /\ UNCHANGED <<rc, global, status>>

Resume(o) ==
    /\ Running
    /\ Resumable(o)
    /\ Room(Len(obj[o].image) - 1)
    /\ stack' = Append(SubSeq(stack, 1, Height - 2) \o obj[o].image, Last(stack))
    /\ frames' = Append(frames,
          [fn |-> obj[o].fn, bp |-> Height - 2, slots |-> obj[o].slots,
           returns |-> obj[o].returns, region |-> obj[o].region, ref |-> obj[o].ref, coro |-> o])
    /\ obj' = [obj EXCEPT ![o] = [@ EXCEPT !.value = Num, !.image = <<>>, !.ref = None]]
    /\ todo' = Releases(<<obj[o].value>>)
    /\ UNCHANGED <<rc, global, status>>

\* CORO_DONE: the handle is overwritten by the answer
CoroDone ==
    /\ Running
    /\ Operands(1) /\ IsCoroutine(Last(stack))
    /\ stack' = Append(Front(stack), Num)
    /\ UNCHANGED <<frames, obj, rc, global, todo, status>>

CoroValue ==
    /\ Running
    /\ Operands(1) /\ IsCoroutine(Last(stack))
    /\ LET val == obj[Last(stack)].value
       IN  /\ Retain(val)
           /\ stack' = Append(Front(stack), val)
    /\ todo' = Releases(<<Last(stack)>>)
    /\ UNCHANGED <<frames, obj, global, status>>

-----------------------------------------------------------------------------
(***************************************************************************)
(* Exceptions.                                                             *)
(***************************************************************************)
\* Slip: only the innermost frame is looked at.
CoveringTop(top) == {k \in {top} : k > 0 /\ frames[k].region # NoRegion}

\* handler: the frames, of those up to top, whose active instruction is protected
Covering(top) == {k \in 1 .. top : frames[k].region # NoRegion}
Innermost(S) == CHOOSE k \in S : \A j \in S : j <= k
Base(k) == frames[k].bp + frames[k].region

\* Slip: the coroutine of an unwound frame is forgotten.
DiscardedCallables(k) == SubSeq(Callables(frames), k + 1, Len(frames))

\* discard, for the frames above k
Discarded(k) ==
    SubSeq(Callables(frames), k + 1, Len(frames)) \o SubSeq(Coroutines(frames), k + 1, Len(frames))

\* land: unwind to frame k with sp at n.  Slots between n and the base keep what
\* they held.
Land(k, n, exc) ==
    /\ todo' = Releases(Discarded(k) \o SubSeq(stack, Base(k) + 1, n))
    /\ stack' = Append(SubSeq(stack, 1, Base(k)), exc)
    /\ frames' = Append(SubSeq(frames, 1, k - 1), [frames[k] EXCEPT !.region = NoRegion])

\* dispatch returns an error: nothing is unwound
Fail(n) ==
    /\ status' = "failed"
    /\ stack' = SubSeq(stack, 1, n)
    /\ UNCHANGED <<frames, obj, rc, global, todo>>

\* A panic inside dispatch's recover leaves Run; what it leaves behind only Reset sees
Panic ==
    /\ status' = "panicked"
    /\ UNCHANGED <<frames, stack, obj, rc, global, todo>>

\* handle: a Go error raised with sp at n, searched for in frames 1 .. top; wrap
\* allocates, and land writes above the region's entry height
Trapped(n, top) ==
    LET S == Covering(top)
        k == Innermost(S)
    IN  \/ S = {} /\ Fail(n)
        \/ S # {} /\ (Exhausted \/ Base(k) = StackCap) /\ Panic
        \/ /\ S # {} /\ Base(k) < StackCap
           /\ \E o \in Obj : Alloc(o, [Blank EXCEPT !.kind = "error"]) /\ Land(k, n, o)
           /\ UNCHANGED <<global, status>>

\* A check that fails before its instruction has changed anything: overflow of the
\* stack or the frames, a type mismatch, division by zero, an error of a host function
Trap == Running /\ Trapped(Height, Len(frames))

\* UNREACHABLE, or a YIELD without a coroutine, as the last instruction of a region:
\* ip is past it when it traps
Unreachable ==
    /\ Running
    /\ Top.region # NoRegion
    /\ Trapped(Height, Len(frames) - 1)

\* RESUME of a coroutine whose image does not fit: both operands are off the stack
ResumeOverflow(o) ==
    /\ Running
    /\ Resumable(o)
    /\ ~Room(Len(obj[o].image) - 1)
    /\ Trapped(Height - 2, Len(frames))

Throw ==
    /\ Running
    /\ Operands(1) \/ (EntryThrows /\ Height > Top.bp + Top.slots)
    /\ LET S == Covering(Len(frames))
           k == Innermost(S)
       IN  \/ S = {} /\ Fail(Height - 1)
           \/ S # {} /\ Base(k) = StackCap /\ Panic
           \/ /\ S # {} /\ Base(k) < StackCap
              /\ Land(k, Height - 1, Last(stack))
              /\ UNCHANGED <<obj, rc, global, status>>

-----------------------------------------------------------------------------
(***************************************************************************)
(* Run, seen from the host.                                                *)
(***************************************************************************)
\* safepoint: cancellation, fuel or a hook's error; Run can continue later
Interrupt ==
    /\ Running
    /\ status' = "stopped"
    /\ UNCHANGED <<frames, stack, obj, rc, global, todo>>

Run ==
    /\ status = "stopped"
    /\ status' = "running"
    /\ UNCHANGED <<frames, stack, obj, rc, global, todo>>

\* The module body ends
Finish ==
    /\ Running
    /\ Len(frames) = 1
    /\ status' = "done"
    /\ UNCHANGED <<frames, stack, obj, rc, global, todo>>

Reset ==
    /\ status \in {"stopped", "done", "failed", "panicked"}
    /\ frames' = <<MainFrame>> /\ stack' = <<>>
    /\ obj' = [o \in Obj |-> Blank] /\ rc' = [o \in Obj |-> 0]
    /\ global' = Num /\ todo' = Nothing
    /\ status' = "running"

Next ==
    \/ Const \/ Drop \/ GlobalGet \/ GlobalSet \/ Enter \/ Leave
    \/ \E k \in 1 .. StackCap : Copy(k)
    \/ \E f \in Fn :
          \/ Call(f) \/ CallDirect(f) \/ TailFromMain(f) \/ ReturnCall(f) \/ ReturnCallDirect(f)
          \/ \E o \in Obj : ClosureNew(f, o) \/ CallCoroutine(f, o)
    \/ Return \/ ReturnCoroutine \/ Yield \/ YieldMain \/ CoroDone \/ CoroValue
    \/ \E o \in Obj : Release(o) \/ Resume(o) \/ ResumeOverflow(o)
    \/ \E v \in Value : HostCall(v)
    \/ Trap \/ Unreachable \/ Throw
    \/ Interrupt \/ Run \/ Finish \/ Reset

Spec == Init /\ [][Next]_vars

-----------------------------------------------------------------------------
(***************************************************************************)
(* Properties.                                                             *)
(***************************************************************************)
\* Whatever a stack slot, a frame, the global, or a suspended coroutine refers to is
\* counted: no unwinding, tail call, suspension or resumption frees a callable, a
\* coroutine or a captured value that is still going to be used.
NoDangling ==
    \A o \in Obj :
        /\ rc[o] >= Owners(o)
        /\ obj[o].kind = "free" => rc[o] = 0

\* Frames never overlap: every frame has all its parameters and locals, the operands
\* its region was entered with are still there, and a callee starts above them.
FramesWhole ==
    \A k \in DOMAIN frames :
        LET end == IF k = Len(frames) THEN Height ELSE frames[k + 1].bp
        IN  /\ frames[k].bp + frames[k].slots <= end
            /\ Floor(frames[k]) <= end

\* A coroutine runs in at most one frame; while it runs it holds nothing, and when
\* it is done it holds only its result.
CoroutineExclusive ==
    \A o \in Obj : obj[o].kind = "coroutine" =>
        /\ Cardinality(InFrame(o)) <= 1
        /\ InFrame(o) # {} \/ obj[o].done => obj[o].image = <<>> /\ obj[o].ref = None
        /\ InFrame(o) # {} => ~obj[o].done /\ obj[o].value = Num

Surplus(o) == rc[o] - Owners(o)

\* Calls, returns, tail calls, suspensions and unwinding move references without
\* losing a count: while Run goes on only a store of what the global already holds,
\* CORO_DONE, a RESUME that does not fit and a host function that answers a reference
\* it was passed twice leave a count nobody owns.
NothingLost ==
    [][status = "running" /\ status' = "running" =>
          \/ GlobalSet /\ global = global'
          \/ CoroDone
          \/ \E o \in Obj : ResumeOverflow(o)
          \/ \E o \in Obj : HostCall(o) /\ Count(stack, o) > Count(stack', o)
          \/ \A o \in Obj : Surplus(o)' = Surplus(o)]_vars

\* "dispatch's recover absorbs every panic, so nothing escapes it"
NothingEscapes == status # "panicked"

\* "a protected byte-IP range [Start, End) whose throws and traps transfer control to
\* Catch": Run does not fail while an active instruction is protected, unless that is
\* an UNREACHABLE or a YIELD at the end of its region.
RegionCatches ==
    [][status = "running" /\ status' = "failed" =>
          \A k \in DOMAIN frames :
             frames[k].region # NoRegion => k = Len(frames) /\ Unreachable]_vars

\* "exc keeps the single reference it already owned": what is on the stack is counted
\* once per slot.
StackCounted == \A o \in Obj : rc[o] >= Count(stack, o)

\* "coroutine is a single suspended frame captured by a YIELD ... RESUME continues it":
\* what RESUME continues is suspended, neither running nor unwound by an exception.
ResumesSuspended == [][\A o \in Obj : Resume(o) => Suspended(o)]_vars
=============================================================================
