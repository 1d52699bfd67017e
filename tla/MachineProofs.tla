---------------------------- MODULE MachineProofs ----------------------------
(***************************************************************************)
(* Frames that never overlap, and errors that reach the region protecting  *)
(* them, for every set of functions with any signatures, every heap, and   *)
(* stacks and frame stacks of any depth.                                   *)
(***************************************************************************)
EXTENDS Machine, TLAPS, SequenceTheorems, WellFoundedInduction

\* A frame has its parameters, its locals and the operands of its region below h.
Whole(f, h) ==
    /\ f.bp + f.slots <= h
    /\ f.region # NoRegion => f.slots <= f.region /\ f.bp + f.region <= h

\* A coroutine's frame leaves room for the handle that replaces it.
Hosting(f) == f.coro # None => f.bp < StackCap /\ f.fn \in Fn

\* Every frame is whole below the next ones and below the top of the stack.
Nested(fs, h) ==
    /\ \A k \in 1 .. Len(fs) : Whole(fs[k], h) /\ Hosting(fs[k])
    /\ \A j, k \in 1 .. Len(fs) : j < k => Whole(fs[j], fs[k].bp)

\* What a coroutine saved is a frame whose region was entered above its slots.
Saved == \A o \in Obj : obj[o].region # NoRegion => obj[o].slots <= obj[o].region

FrameInv ==
    /\ frames \in Seq(Frame) /\ Len(frames) \in 1 .. FrameCap
    /\ stack \in Seq(Value) /\ Len(stack) <= StackCap
    /\ obj \in [Obj -> Object]
    /\ global \in Value
    /\ Nested(frames, Height)
    /\ Saved

-----------------------------------------------------------------------------
(***************************************************************************)
(* Sequences.                                                              *)
(***************************************************************************)
\* A stretch of a sequence, by its ends.
LEMMA Segment ==
    ASSUME NEW S, NEW s \in Seq(S), NEW a \in Nat, NEW b \in Nat, a <= b, b <= Len(s)
    PROVE  /\ SubSeq(s, a + 1, b) \in Seq(S)
           /\ Len(SubSeq(s, a + 1, b)) = b - a
<1> DEFINE c == a + 1
<1>1. c \in Int /\ b \in Int /\ \A i \in c .. b : i \in 1 .. Len(s)
      BY LenProperties
<1>2. \A i \in c .. b : s[i] \in S
      BY <1>1, ElementOfSeq
<1> HIDE DEF c
<1>3. /\ SubSeq(s, c, b) \in Seq(S)
      /\ Len(SubSeq(s, c, b)) = IF c <= b THEN b - c + 1 ELSE 0
      BY <1>1, <1>2, SubSeqProperties
<1>4. (IF c <= b THEN b - c + 1 ELSE 0) = b - a
      BY DEF c
<1>5. QED
      BY <1>3, <1>4 DEF c

\* The first n elements of a sequence.
LEMMA Prefix ==
    ASSUME NEW S, NEW s \in Seq(S), NEW n \in Nat, n <= Len(s)
    PROVE  /\ SubSeq(s, 1, n) \in Seq(S)
           /\ Len(SubSeq(s, 1, n)) = n
           /\ \A i \in 1 .. n : SubSeq(s, 1, n)[i] = s[i]
<1>1. n \in Int /\ 1 \in Int /\ \A i \in 1 .. n : i \in 1 .. Len(s)
      BY LenProperties
<1>2. \A i \in 1 .. n : s[i] \in S
      BY <1>1, ElementOfSeq
<1>3. /\ SubSeq(s, 1, n) \in Seq(S)
      /\ Len(SubSeq(s, 1, n)) = IF 1 <= n THEN n - 1 + 1 ELSE 0
      /\ \A i \in 1 .. n - 1 + 1 : SubSeq(s, 1, n)[i] = s[1 + i - 1]
      BY <1>1, <1>2, SubSeqProperties
<1>4. /\ (IF 1 <= n THEN n - 1 + 1 ELSE 0) = n
      /\ n - 1 + 1 = n /\ \A i \in 1 .. n : 1 + i - 1 = i
      OBVIOUS
<1>5. QED
      BY <1>3, <1>4

(***************************************************************************)
(* Frames.                                                                 *)
(***************************************************************************)
\* A frame that is whole below g is whole below anything higher.
LEMMA WholeGrows ==
    ASSUME NEW f \in Frame, NEW g \in Nat, NEW h \in Nat, Whole(f, g), g <= h
    PROVE  Whole(f, h)
<1>1. f.bp \in Nat /\ f.slots \in Nat /\ (f.region # NoRegion => f.region \in Nat)
      BY DEF Frame
<1>2. QED
      BY <1>1 DEF Whole

\* Whole spans both the slots and the operands of the region.
LEMMA WholeSpans ==
    ASSUME NEW f \in Frame, NEW h \in Nat, Whole(f, h)
    PROVE  /\ f.bp \in Nat /\ f.slots \in Nat /\ Floor(f) \in Nat
           /\ f.bp + f.slots <= Floor(f) /\ Floor(f) <= h /\ f.bp <= h
           /\ f.region # NoRegion => f.region \in Nat /\ Floor(f) = f.bp + f.region
           /\ f.region # NoRegion => f.slots <= f.region
           /\ f.region = NoRegion => Floor(f) = f.bp + f.slots
<1>1. f.bp \in Nat /\ f.slots \in Nat /\ (f.region # NoRegion => f.region \in Nat)
      BY DEF Frame
<1>2. CASE f.region = NoRegion
      BY <1>1, <1>2 DEF Whole, Floor
<1>3. CASE f.region # NoRegion
      BY <1>1, <1>3 DEF Whole, Floor
<1>4. QED
      BY <1>2, <1>3, Zenon

\* An instruction that pops no lower than the floor leaves the frame whole.
LEMMA WholeAbove ==
    ASSUME NEW f \in Frame, NEW g \in Nat, NEW h \in Nat, Whole(f, g), Floor(f) <= h
    PROVE  Whole(f, h)
<1>1. f.bp \in Nat /\ f.slots \in Nat /\ (f.region # NoRegion => f.region \in Nat)
      BY DEF Frame
<1>2. CASE f.region = NoRegion
      BY <1>1, <1>2 DEF Whole, Floor
<1>3. CASE f.region # NoRegion
      BY <1>1, <1>3 DEF Whole, Floor
<1>4. QED
      BY <1>2, <1>3, Zenon

\* The invariant in the form the arithmetic of the steps uses.
LEMMA Shape ==
    ASSUME FrameInv
    PROVE  /\ Height \in Nat /\ Height <= StackCap
           /\ Len(frames) \in Nat /\ Len(frames) >= 1 /\ Len(frames) <= FrameCap
           /\ \A k \in 1 .. Len(frames) : frames[k] \in Frame /\ frames[k].bp \in Nat
           /\ \A k \in 1 .. Len(stack) : stack[k] \in Value
           /\ Len(frames) \in 1 .. Len(frames) /\ Top = frames[Len(frames)]
           /\ Top \in Frame /\ Whole(Top, Height)
<1>1. Height \in Nat /\ Len(frames) \in Nat /\ Len(frames) >= 1 /\ Len(frames) <= FrameCap
      BY LenProperties, MachineAssumption DEF FrameInv, Height
<1>2. \A k \in 1 .. Len(frames) : frames[k] \in Frame
      BY ElementOfSeq DEF FrameInv
<1>3. \A k \in 1 .. Len(stack) : stack[k] \in Value
      BY ElementOfSeq DEF FrameInv
<1>4. Len(frames) \in 1 .. Len(frames) /\ Top = frames[Len(frames)]
      BY <1>1 DEF Top, Last
<1>5. Whole(Top, Height)
      BY <1>4 DEF FrameInv, Nested
<1>6. \A k \in 1 .. Len(frames) : frames[k].bp \in Nat
      BY <1>2 DEF Frame
<1>7. QED
      BY <1>1, <1>2, <1>3, <1>4, <1>5, <1>6 DEF FrameInv, Height

\* Frames below the k-th are whole below any height the k-th starts under.
LEMMA Below ==
    ASSUME FrameInv, NEW k \in 1 .. Len(frames), NEW h \in Nat, frames[k].bp <= h
    PROVE  \A j \in 1 .. k - 1 : Whole(frames[j], h)
<1> SUFFICES ASSUME NEW j \in 1 .. k - 1
             PROVE  Whole(frames[j], h)
    OBVIOUS
<1>1. j \in 1 .. Len(frames) /\ j < k
      BY Shape
<1>2. Whole(frames[j], frames[k].bp)
      BY <1>1 DEF FrameInv, Nested
<1>3. QED
      BY <1>1, <1>2, Shape, WholeGrows

\* Frames below the top stay, one frame comes on them.
LEMMA Regrown ==
    ASSUME FrameInv, NEW m \in 0 .. Len(frames), NEW fs \in Seq(Frame), NEW h \in Nat,
           Len(fs) = m + 1, \A j \in 1 .. m : fs[j] = frames[j],
           Whole(fs[m + 1], h), Hosting(fs[m + 1]),
           \A j \in 1 .. m : Whole(frames[j], fs[m + 1].bp)
    PROVE  Nested(fs, h)
<1>0. m \in Nat /\ m <= Len(frames) /\ Len(frames) \in Nat
      BY Shape
<1>1. \A k \in 1 .. m + 1 : fs[k] \in Frame /\ fs[k].bp \in Nat
  <2>1. \A k \in 1 .. m + 1 : fs[k] \in Frame
        BY ElementOfSeq
  <2>2. QED
        BY <2>1 DEF Frame
<1>2. m + 1 \in 1 .. m + 1 /\ \A k \in 1 .. m + 1 : k = m + 1 \/ (k \in 1 .. m /\ k \in 1 .. Len(frames))
      BY <1>0
<1>3. fs[m + 1].bp <= h
      BY <1>1, <1>2, WholeSpans
<1>4. ASSUME NEW k \in 1 .. m + 1
      PROVE  Whole(fs[k], h) /\ Hosting(fs[k])
  <2>1. CASE k = m + 1
        BY <2>1
  <2>2. CASE k \in 1 .. m /\ k \in 1 .. Len(frames)
    <3>1. fs[k] = frames[k] /\ Whole(fs[k], fs[m + 1].bp)
          BY <2>2
    <3>2. Whole(fs[k], h)
          BY <3>1, <1>1, <1>2, <1>3, WholeGrows
    <3>3. Hosting(fs[k])
          BY <3>1, <2>2 DEF FrameInv, Nested
    <3>4. QED
          BY <3>2, <3>3
  <2>3. QED
        BY <1>2, <2>1, <2>2
<1>5. ASSUME NEW j \in 1 .. m + 1, NEW k \in 1 .. m + 1, j < k
      PROVE  Whole(fs[j], fs[k].bp)
  <2>1. j \in 1 .. m /\ j \in 1 .. Len(frames)
        BY <1>0, <1>5
  <2>2. CASE k = m + 1
        BY <2>1, <2>2
  <2>3. CASE k \in 1 .. m /\ k \in 1 .. Len(frames)
        BY <2>1, <2>3, <1>5 DEF FrameInv, Nested
  <2>4. QED
        BY <1>2, <2>2, <2>3
<1>6. QED
      BY <1>4, <1>5 DEF Nested

\* The instruction leaves the frames alone and pops no lower than the floor.
LEMMA Kept ==
    ASSUME FrameInv, NEW h \in Nat, Floor(Top) <= h
    PROVE  Nested(frames, h)
<1> DEFINE n == Len(frames)
<1>1. n \in Nat /\ n >= 1 /\ n \in 1 .. n /\ Top = frames[n] /\ Top \in Frame /\ Whole(Top, Height)
      BY Shape
<1>2. Height \in Nat /\ \A k \in 1 .. n : frames[k].bp \in Nat
      BY Shape
<1>3. Whole(Top, h)
      BY <1>1, <1>2, WholeAbove
<1>4. \A j \in 1 .. n - 1 : Whole(frames[j], frames[n].bp)
      BY <1>1, <1>2, Below
<1>5. Hosting(frames[n])
      BY <1>1 DEF FrameInv, Nested
<1> DEFINE m == n - 1
<1>6. m \in 0 .. Len(frames) /\ n = m + 1
      BY <1>1
<1>7. frames \in Seq(Frame)
      BY DEF FrameInv
<1> HIDE DEF m
<1>8. \A j \in 1 .. m : Whole(frames[j], frames[m + 1].bp)
      BY <1>4, <1>6 DEF m
<1>9. QED
      BY <1>1, <1>3, <1>5, <1>6, <1>7, <1>8, Regrown

\* A frame that starts at or above the floor of the current one.
LEMMA Opened ==
    ASSUME FrameInv, NEW f \in Frame, NEW h \in Nat, Floor(Top) <= f.bp, Whole(f, h),
           Hosting(f)
    PROVE  /\ Append(frames, f) \in Seq(Frame)
           /\ Len(Append(frames, f)) = Len(frames) + 1
           /\ Nested(Append(frames, f), h)
<1> DEFINE fs == Append(frames, f)
<1>1. frames \in Seq(Frame)
      BY DEF FrameInv
<1>2. /\ fs \in Seq(Frame) /\ Len(fs) = Len(frames) + 1
      /\ \A j \in 1 .. Len(frames) : fs[j] = frames[j]
      /\ fs[Len(frames) + 1] = f
      BY <1>1, AppendProperties
<1>3. Len(frames) \in 0 .. Len(frames) /\ f.bp \in Nat
      BY Shape DEF Frame
<1>4. Nested(frames, f.bp)
      BY <1>3, Kept
<1>5. \A j \in 1 .. Len(frames) : Whole(frames[j], f.bp)
      BY <1>4 DEF Nested
<1> HIDE DEF fs
<1>6. Nested(fs, h)
      BY <1>2, <1>3, <1>5, Regrown
<1>7. QED
      BY <1>2, <1>6 DEF fs

\* The frames from the k-th on give way to one that starts where the k-th did.
LEMMA Landed ==
    ASSUME FrameInv, NEW k \in 1 .. Len(frames), NEW f \in Frame, NEW h \in Nat,
           f.bp = frames[k].bp, Whole(f, h), Hosting(f)
    PROVE  /\ Append(SubSeq(frames, 1, k - 1), f) \in Seq(Frame)
           /\ Len(Append(SubSeq(frames, 1, k - 1), f)) = k
           /\ Nested(Append(SubSeq(frames, 1, k - 1), f), h)
<1> DEFINE m == k - 1
           pre == SubSeq(frames, 1, m)
           fs == Append(pre, f)
<1>0. m \in 0 .. Len(frames) /\ m \in Nat /\ m <= Len(frames) /\ k = m + 1
      BY Shape
<1> HIDE DEF m
<1>2. pre \in Seq(Frame) /\ Len(pre) = m /\ \A j \in 1 .. m : pre[j] = frames[j]
      BY <1>0, Prefix DEF FrameInv
<1> HIDE DEF pre
<1>3. /\ fs \in Seq(Frame) /\ Len(fs) = m + 1
      /\ \A j \in 1 .. m : fs[j] = pre[j]
      /\ fs[m + 1] = f
      BY <1>2, AppendProperties
<1>4. \A j \in 1 .. m : fs[j] = frames[j]
      BY <1>2, <1>3
<1>5. frames[k].bp \in Nat /\ Hosting(frames[k])
      BY Shape DEF FrameInv, Nested
<1>6. \A j \in 1 .. k - 1 : Whole(frames[j], frames[k].bp)
      BY <1>5, Below
<1>7. \A j \in 1 .. m : Whole(frames[j], f.bp)
      BY <1>6 DEF m
<1> HIDE DEF fs
<1>8. Nested(fs, h)
      BY <1>0, <1>3, <1>4, <1>5, <1>7, Regrown
<1>9. QED
      BY <1>0, <1>3, <1>8 DEF fs, pre, m

\* The top frame changes and stays where it is.
LEMMA Swapped ==
    ASSUME FrameInv, NEW f \in Frame, NEW h \in Nat,
           f.bp = Top.bp, Whole(f, h), Hosting(f)
    PROVE  /\ [frames EXCEPT ![Len(frames)] = f] \in Seq(Frame)
           /\ Len([frames EXCEPT ![Len(frames)] = f]) = Len(frames)
           /\ Nested([frames EXCEPT ![Len(frames)] = f], h)
<1> DEFINE n == Len(frames)
           fs == [frames EXCEPT ![n] = f]
           m == n - 1
<1>1. frames \in Seq(Frame)
      BY DEF FrameInv
<1>2. n \in Nat /\ n >= 1 /\ n \in 1 .. n /\ Top = frames[n]
      BY Shape
<1>3. m \in 0 .. Len(frames) /\ n = m + 1 /\ \A j \in 1 .. m : j \in 1 .. n /\ j # n
      BY <1>2
<1>4. /\ fs \in Seq(Frame) /\ Len(fs) = n
      /\ \A j \in 1 .. n : fs[j] = IF j = n THEN f ELSE frames[j]
      BY <1>1, <1>2, ExceptSeq
<1>5. frames[n].bp \in Nat /\ Hosting(frames[n])
      BY <1>2, Shape DEF FrameInv, Nested
<1>6. \A j \in 1 .. n - 1 : Whole(frames[j], frames[n].bp)
      BY <1>2, <1>5, Below
<1> HIDE DEF fs
<1>7. fs[n] = f /\ \A j \in 1 .. m : fs[j] = frames[j]
      BY <1>2, <1>3, <1>4
<1>8. \A j \in 1 .. m : Whole(frames[j], f.bp)
      BY <1>2, <1>6
<1> HIDE DEF m
<1>9. Nested(fs, h)
      BY <1>2, <1>3, <1>4, <1>5, <1>7, <1>8, Regrown
<1>10. QED
      BY <1>4, <1>9 DEF fs

\* The top frame goes.
LEMMA Closed ==
    ASSUME FrameInv, Len(frames) > 1, NEW h \in Nat, Top.bp <= h
    PROVE  /\ Front(frames) \in Seq(Frame)
           /\ Len(Front(frames)) = Len(frames) - 1
           /\ Nested(Front(frames), h)
<1> DEFINE n == Len(frames)
           m == n - 2
           fs == Front(frames)
<1>1. n \in Nat /\ n \in 1 .. n /\ Top = frames[n]
      BY Shape
<1>2. m \in 0 .. n /\ m + 1 = n - 1 /\ m + 1 \in 1 .. n /\ m + 1 \in 1 .. n - 1
      /\ \A j \in 1 .. m + 1 : j \in 1 .. n
      BY <1>1
<1>3. fs \in Seq(Frame) /\ Len(fs) = m + 1 /\ \A j \in 1 .. m + 1 : fs[j] = frames[j]
  <2> DEFINE l == m + 1
  <2>1. l \in Nat /\ l <= Len(frames) /\ l = n - 1
        BY <1>1, <1>2
  <2> HIDE DEF l
  <2>2. fs \in Seq(Frame) /\ Len(fs) = l /\ \A j \in 1 .. l : fs[j] = frames[j]
        BY <2>1, Prefix DEF FrameInv, Front
  <2>3. QED
        BY <2>2 DEF l
<1> HIDE DEF fs
<1>4. \A j \in 1 .. n - 1 : Whole(frames[j], h)
      BY <1>1, Below
<1>5. /\ frames[m + 1].bp \in Nat
      /\ Hosting(frames[m + 1])
      BY <1>2, Shape DEF FrameInv, Nested
<1> DEFINE l == m + 1
<1>6. \A j \in 1 .. l - 1 : Whole(frames[j], frames[l].bp)
  <2>1. l \in 1 .. Len(frames) /\ frames[l].bp \in Nat /\ frames[l].bp <= frames[l].bp
        BY <1>2, <1>5
  <2> HIDE DEF l
  <2>2. QED
        BY <2>1, Below
<1>7. \A j \in 1 .. m : Whole(frames[j], frames[m + 1].bp)
      BY <1>2, <1>6
<1>8. m + 1 \in 1 .. m + 1 /\ \A j \in 1 .. m : j \in 1 .. m + 1
      BY <1>2
<1>9. Whole(frames[m + 1], h)
      BY <1>2, <1>4
<1> HIDE DEF m, l
<1>10. fs[m + 1] = frames[m + 1] /\ \A j \in 1 .. m : fs[j] = frames[j]
      BY <1>3, <1>8
<1>11. Nested(fs, h)
      BY <1>2, <1>3, <1>5, <1>7, <1>9, <1>10, Regrown
<1>12. QED
      BY <1>2, <1>3, <1>11 DEF fs

-----------------------------------------------------------------------------
(***************************************************************************)
(* What instructions do to the stack and to the heap.                      *)
(***************************************************************************)
Laid(fs, st) ==
    /\ fs \in Seq(Frame) /\ Len(fs) \in 1 .. FrameCap
    /\ st \in Seq(Value) /\ Len(st) <= StackCap
    /\ Nested(fs, Len(st))

Stored == obj \in [Obj -> Object] /\ Saved

\* The invariant by what an action assigns: frames and stack, the heap, the global.
LEMMA FrameInvParts ==
    FrameInv <=> Laid(frames, stack) /\ Stored /\ global \in Value
BY DEF FrameInv, Laid, Stored, Height

\* It is enough to show these parts of the next state.
LEMMA FrameInvNext ==
    ASSUME Laid(frames', stack'), Stored', global' \in Value
    PROVE  FrameInv'
BY DEF FrameInv, Laid, Stored, Height

\* An action that leaves the heap alone leaves what coroutines saved.
LEMMA StoredSame ==
    ASSUME FrameInv, UNCHANGED obj
    PROVE  Stored'
BY DEF FrameInv, Stored, Saved

\* Everything below m operands of the current frame stays.
LEMMA Popped ==
    ASSUME FrameInv, NEW m \in Nat, Operands(m)
    PROVE  /\ Height - m \in Nat /\ Height - m <= Height
           /\ SubSeq(stack, 1, Height - m) \in Seq(Value)
           /\ Len(SubSeq(stack, 1, Height - m)) = Height - m
           /\ Floor(Top) \in Nat /\ Floor(Top) <= Height - m
           /\ Top.bp \in Nat /\ Top.bp <= Height - m /\ Top.bp + Top.slots <= Height - m
<1> DEFINE h == Height - m
<1>1. Height \in Nat /\ Top \in Frame /\ Whole(Top, Height)
      BY Shape
<1>2. /\ Floor(Top) \in Nat /\ Top.bp \in Nat /\ Top.slots \in Nat
      /\ Top.bp + Top.slots <= Floor(Top)
      BY <1>1, WholeSpans
<1>3. h \in Nat /\ h <= Height /\ Floor(Top) <= h /\ Top.bp <= h /\ Top.bp + Top.slots <= h
      BY <1>1, <1>2 DEF Operands
<1> HIDE DEF h
<1>4. SubSeq(stack, 1, h) \in Seq(Value) /\ Len(SubSeq(stack, 1, h)) = h
      BY <1>3, Prefix DEF FrameInv, Height
<1>5. QED
      BY <1>2, <1>3, <1>4 DEF h

\* The present frames and stack are laid out well.
LEMMA LaidSame ==
    ASSUME FrameInv
    PROVE  Laid(frames, stack)
BY FrameInvParts

\* A push the overflow check lets through.
LEMMA LaidPush ==
    ASSUME FrameInv, NEW v \in Value, Room(1)
    PROVE  Laid(frames, Append(stack, v))
<1> DEFINE st == Append(stack, v)
<1>1. st \in Seq(Value) /\ Len(st) = Height + 1
      BY AppendProperties DEF FrameInv, Height
<1>2. Height \in Nat /\ Top \in Frame /\ Whole(Top, Height)
      BY Shape
<1>3. Floor(Top) <= Height /\ Floor(Top) \in Nat
      BY <1>2, WholeSpans
<1> HIDE DEF st
<1>4. Len(st) \in Nat /\ Len(st) <= StackCap /\ Floor(Top) <= Len(st)
      BY <1>1, <1>2, <1>3, MachineAssumption DEF Room
<1>5. Nested(frames, Len(st))
      BY <1>4, Kept
<1>6. QED
      BY <1>1, <1>4, <1>5 DEF Laid, FrameInv, st

\* m operands give way to nothing, or to one value.
LEMMA LaidPop ==
    ASSUME FrameInv, NEW m \in Nat, Operands(m)
    PROVE  /\ Laid(frames, SubSeq(stack, 1, Height - m))
           /\ m > 0 => \A v \in Value : Laid(frames, Append(SubSeq(stack, 1, Height - m), v))
<1> DEFINE h == Height - m
           st == SubSeq(stack, 1, h)
<1>1. /\ h \in Nat /\ h <= Height /\ st \in Seq(Value) /\ Len(st) = h
      /\ Floor(Top) \in Nat /\ Floor(Top) <= h
      BY Popped
<1>2. Height \in Nat /\ Height <= StackCap /\ StackCap \in Nat
      BY Shape, MachineAssumption
<1>3. h <= StackCap /\ (m > 0 => h + 1 <= StackCap) /\ h + 1 \in Nat /\ Floor(Top) <= h + 1
  <2>1. m > 0 => h + 1 <= Height
        BY <1>2
  <2> HIDE DEF h
  <2>2. QED
        BY <2>1, <1>1, <1>2
<1> HIDE DEF h, st
<1>4. frames \in Seq(Frame) /\ Len(frames) \in 1 .. FrameCap
      BY DEF FrameInv
<1>5. Nested(frames, h) /\ Nested(frames, h + 1)
      BY <1>1, <1>3, Kept
<1>6. Laid(frames, st)
      BY <1>1, <1>3, <1>4, <1>5 DEF Laid
<1>7. ASSUME m > 0, NEW v \in Value
      PROVE  Laid(frames, Append(st, v))
  <2>1. Append(st, v) \in Seq(Value) /\ Len(Append(st, v)) = h + 1
        BY <1>1, AppendProperties
  <2>2. QED
        BY <2>1, <1>3, <1>4, <1>5, <1>7 DEF Laid
<1>8. QED
      BY <1>6, <1>7 DEF st, h

\* The topmost operand.
LEMMA TopOperand ==
    ASSUME FrameInv, Operands(1)
    PROVE  Last(stack) \in Value /\ Front(stack) = SubSeq(stack, 1, Height - 1)
<1>1. 1 \in Nat
      OBVIOUS
<1>2. Height - 1 \in Nat /\ Height \in Nat
      BY <1>1, Popped, Shape
<1>3. Len(stack) \in 1 .. Len(stack)
      BY <1>2 DEF Height
<1>4. QED
      BY <1>3, Shape DEF Last, Front, Height

\* A free address and a number are values of their types.
LEMMA BlankObject ==
    /\ Blank \in Object /\ Blank.region = NoRegion
    /\ Num \in Value
<1>1. Num \in Value
      BY DEF Value
<1>2. <<>> \in Seq(Value)
      OBVIOUS
<1>3. Blank \in Object
      BY <1>1, <1>2 DEF Blank, Object
<1>4. QED
      BY <1>1, <1>3 DEF Blank

\* An allocation, with the collection that may come before it.
LEMMA AllocStored ==
    ASSUME FrameInv, NEW o \in Obj, NEW v \in Object, v.region = NoRegion, Alloc(o, v)
    PROVE  Stored'
<1>1. PICK dead \in {{}, Garbage} :
         obj' = [p \in Obj |-> IF p = o THEN v ELSE IF p \in dead THEN Blank ELSE obj[p]]
      BY DEF Alloc
<1>2. obj' \in [Obj -> Object]
      BY <1>1, BlankObject DEF FrameInv
<1>3. ASSUME NEW p \in Obj, obj'[p].region # NoRegion
      PROVE  obj'[p].slots <= obj'[p].region
  <2>1. obj'[p] = v \/ obj'[p] = Blank \/ obj'[p] = obj[p]
        BY <1>1
  <2>2. QED
        BY <2>1, <1>3, BlankObject DEF FrameInv, Saved
<1>4. QED
      BY <1>2, <1>3 DEF Stored, Saved

\* One object is replaced.
LEMMA StoreStored ==
    ASSUME FrameInv, NEW o \in Obj, NEW v \in Object,
           v.region # NoRegion => v.slots <= v.region, obj' = [obj EXCEPT ![o] = v]
    PROVE  Stored'
<1>1. obj \in [Obj -> Object]
      BY DEF FrameInv
<1>2. obj' \in [Obj -> Object]
      BY <1>1
<1>3. \A p \in Obj : obj'[p] = v \/ obj'[p] = obj[p]
      BY <1>1
<1>4. QED
      BY <1>2, <1>3 DEF Stored, Saved, FrameInv

-----------------------------------------------------------------------------
(***************************************************************************)
(* Calls and returns.                                                      *)
(***************************************************************************)
\* The zeroed locals of a call.
LEMMA NumsSeq ==
    ASSUME NEW n \in Nat
    PROVE  Nums(n) \in Seq(Value) /\ Len(Nums(n)) = n
<1>1. Num \in Value
      BY DEF Value
<1>2. QED
      BY <1>1 DEF Nums

\* What a function's signature says are natural numbers.
LEMMA Signature ==
    ASSUME NEW f \in Fn
    PROVE  /\ Sig[f].params \in Nat /\ Sig[f].locals \in Nat /\ Sig[f].returns \in Nat
<1>1. Sig[f] \in [params : Nat, locals : Nat, returns : 0 .. 1, yields : BOOLEAN]
      BY MachineAssumption
<1>2. QED
      BY <1>1

\* CALL: the callee's frame starts at its arguments, above the caller's floor.
LEMMA PushedLaid ==
    ASSUME FrameInv, NEW f \in Fn, NEW ref \in Obj \cup {None}, NEW coro \in Obj \cup {None},
           NEW n \in Nat, coro # None => n > 0, Pushed(f, ref, coro, n)
    PROVE  Laid(frames', stack')
<1> DEFINE p == Sig[f].params
           l == Sig[f].locals
           bp == Height - n - p
           g == [fn |-> f, bp |-> bp, slots |-> p + l, returns |-> Sig[f].returns,
                 region |-> NoRegion, ref |-> ref, coro |-> coro]
           h == Height - n + l
<1>1. p \in Nat /\ l \in Nat /\ Sig[f].returns \in Nat
      BY Signature
<1>2. /\ Len(frames) < FrameCap /\ Operands(n + p) /\ Room(l - n)
      /\ stack' = SubSeq(stack, 1, Height - n) \o Nums(l)
      /\ frames' = Append(frames, g)
      BY Zenon DEF Pushed
<1> HIDE DEF p, l
<1>3. n + p \in Nat
      BY <1>1
<1>4. Height - (n + p) \in Nat /\ Floor(Top) \in Nat /\ Floor(Top) <= Height - (n + p)
      BY <1>2, <1>3, Popped
<1>5. Height \in Nat /\ Height <= StackCap /\ StackCap \in Nat
      BY Shape, MachineAssumption
<1>6. /\ bp \in Nat /\ bp = Height - (n + p) /\ Height - n \in Nat /\ Height - n <= Height
      /\ (n > 0 => bp < StackCap) /\ bp + (p + l) = h /\ h \in Nat /\ h <= StackCap
      BY <1>1, <1>2, <1>4, <1>5 DEF Room
<1>7. SubSeq(stack, 1, Height - n) \in Seq(Value) /\ Len(SubSeq(stack, 1, Height - n)) = Height - n
  <2> DEFINE a == Height - n
  <2>1. a \in Nat /\ a <= Len(stack)
        BY <1>6 DEF Height
  <2> HIDE DEF a
  <2>2. SubSeq(stack, 1, a) \in Seq(Value) /\ Len(SubSeq(stack, 1, a)) = a
        BY <2>1, Prefix DEF FrameInv
  <2>3. QED
        BY <2>2 DEF a
<1>8. stack' \in Seq(Value) /\ Len(stack') = h
  <2> DEFINE low == SubSeq(stack, 1, Height - n)
             top == Nums(l)
  <2>1. top \in Seq(Value) /\ Len(top) = l
        BY <1>1, NumsSeq
  <2>2. stack' = low \o top /\ low \in Seq(Value) /\ Len(low) = Height - n
        BY <1>2, <1>7
  <2> HIDE DEF low, top
  <2>3. stack' \in Seq(Value) /\ Len(stack') = Len(low) + Len(top)
        BY <2>1, <2>2, ConcatProperties
  <2>4. QED
        BY <2>1, <2>2, <2>3, Zenon
<1> HIDE DEF bp, h
<1>9. g \in Frame
      BY <1>1, <1>6 DEF Frame
<1>10. Whole(g, h) /\ Hosting(g)
      BY <1>6 DEF Whole, Hosting
<1>11. g.bp = bp
      OBVIOUS
<1> HIDE DEF g
<1>12. Floor(Top) <= g.bp
      BY <1>4, <1>6, <1>11
<1>13. /\ Append(frames, g) \in Seq(Frame) /\ Len(Append(frames, g)) = Len(frames) + 1
       /\ Nested(Append(frames, g), h)
      BY <1>6, <1>9, <1>10, <1>12, Opened
<1>14. Len(frames) + 1 \in 1 .. FrameCap
      BY <1>2, Shape, MachineAssumption
<1>15. QED
      BY <1>2, <1>6, <1>8, <1>13, <1>14 DEF Laid

\* The arithmetic of RETURN_CALL: arguments move down over the old frame.
LEMMA TailRoom ==
    ASSUME NEW h \in Nat, NEW n \in Nat, NEW p \in Nat, NEW l \in Nat, NEW bp \in Nat,
           NEW s \in Nat, h - n - p >= bp + s
    PROVE  /\ h - n - p \in Nat /\ h - n - p <= h - n /\ h - n \in Nat /\ h - n <= h
           /\ bp <= h /\ h - n - (h - n - p) = p
           /\ bp + p + l \in Nat /\ bp + (p + l) <= bp + p + l /\ p + l \in Nat
OBVIOUS

\* RETURN_CALL: the frame stays where it is with the callee's slots.
LEMMA ReplacedLaid ==
    ASSUME FrameInv, NEW f \in Fn, NEW ref \in Obj \cup {None}, NEW n \in Nat,
           Replaced(f, ref, n)
    PROVE  Laid(frames', stack')
<1> DEFINE p == Sig[f].params
           l == Sig[f].locals
           args == Height - n - p
           bp == Top.bp
           g == [Top EXCEPT !.fn = f, !.ref = ref, !.slots = p + l,
                            !.returns = Sig[f].returns, !.region = NoRegion]
           low == SubSeq(stack, 1, bp)
           mid == SubSeq(stack, args + 1, Height - n)
<1>1. p \in Nat /\ l \in Nat /\ Sig[f].returns \in Nat
      BY Signature
<1>2. Top \in Frame /\ Whole(Top, Height) /\ Top = frames[Len(frames)] /\ Hosting(Top)
      BY Shape DEF FrameInv, Nested
<1>3. /\ args >= Top.bp + Top.slots /\ Top.bp + p + l <= StackCap
      /\ stack' = low \o mid \o Nums(l)
      /\ frames' = [frames EXCEPT ![Len(frames)] = g]
      BY <1>2 DEF Replaced
<1>4. Height \in Nat /\ Height <= StackCap /\ StackCap \in Nat /\ bp \in Nat /\ Top.slots \in Nat
      BY Shape, MachineAssumption, <1>2, WholeSpans
<1> HIDE DEF p, l
<1>5. /\ args \in Nat /\ args <= Height - n /\ Height - n \in Nat /\ Height - n <= Height
      /\ bp <= Height /\ Height - n - args = p
      /\ bp + p + l \in Nat /\ bp + (p + l) <= bp + p + l /\ p + l \in Nat
  <2> DEFINE s == Top.slots
             H == Height
  <2>1. H \in Nat /\ s \in Nat /\ bp \in Nat /\ p \in Nat /\ l \in Nat /\ H - n - p >= bp + s
        BY <1>1, <1>3, <1>4
  <2> HIDE DEF s, H, bp
  <2>2. /\ H - n - p \in Nat /\ H - n - p <= H - n /\ H - n \in Nat /\ H - n <= H
        /\ bp <= H /\ H - n - (H - n - p) = p
        /\ bp + p + l \in Nat /\ bp + (p + l) <= bp + p + l /\ p + l \in Nat
        BY <2>1, TailRoom
  <2>3. QED
        BY <2>2 DEF H
<1>6. low \in Seq(Value) /\ Len(low) = bp
  <2> HIDE DEF bp
  <2>1. QED
        BY <1>4, <1>5, Prefix DEF FrameInv, Height
<1>7. mid \in Seq(Value) /\ Len(mid) = p
  <2> DEFINE b == Height - n
  <2>1. args \in Nat /\ b \in Nat /\ args <= b /\ b <= Len(stack) /\ b - args = p
        BY <1>5 DEF Height
  <2> HIDE DEF args, b
  <2>2. SubSeq(stack, args + 1, b) \in Seq(Value) /\ Len(SubSeq(stack, args + 1, b)) = b - args
        BY <2>1, Segment DEF FrameInv
  <2>3. QED
        BY <2>1, <2>2 DEF b
<1>8. stack' \in Seq(Value) /\ Len(stack') = bp + p + l
  <2> HIDE DEF low, mid, bp
  <2>1. low \o mid \in Seq(Value) /\ Len(low \o mid) = bp + p
        BY <1>6, <1>7, ConcatProperties
  <2> DEFINE two == low \o mid
             top == Nums(l)
  <2>2. top \in Seq(Value) /\ Len(top) = l
        BY <1>1, NumsSeq
  <2>3. stack' = two \o top /\ two \in Seq(Value) /\ Len(two) = bp + p
        BY <1>3, <2>1
  <2> HIDE DEF two, top
  <2>4. stack' \in Seq(Value) /\ Len(stack') = Len(two) + Len(top)
        BY <2>2, <2>3, ConcatProperties
  <2>5. QED
        BY <2>2, <2>3, <2>4, Zenon
<1>9. g \in Frame /\ g.bp = Top.bp
  <2> DEFINE sl == p + l
             rt == Sig[f].returns
  <2>1. sl \in Nat /\ rt \in Nat /\ NoRegion \in Nat \cup {NoRegion} /\ f \in Fn \cup {Main}
        BY <1>1, <1>5
  <2> HIDE DEF sl, rt
  <2>2. [Top EXCEPT !.fn = f, !.ref = ref, !.slots = sl, !.returns = rt, !.region = NoRegion]
           \in Frame
        BY <2>1, <1>2 DEF Frame
  <2>3. g \in Frame
        BY <2>2 DEF sl, rt
  <2>4. g.bp = Top.bp
        BY <1>2 DEF Frame
  <2>5. QED
        BY <2>3, <2>4
<1>10. Whole(g, bp + p + l) /\ Hosting(g)
  <2>1. /\ g.slots = p + l /\ g.region = NoRegion /\ g.bp = bp /\ g.fn = f
        /\ g.coro = Top.coro
        BY <1>2 DEF Frame
  <2> HIDE DEF g, bp
  <2>2. Whole(g, bp + p + l)
        BY <2>1, <1>5 DEF Whole
  <2>3. Hosting(g)
        BY <2>1, <1>2 DEF Hosting, bp
  <2>4. QED
        BY <2>2, <2>3
<1> DEFINE h == bp + p + l
<1>11. h \in Nat /\ h <= StackCap
      BY <1>3, <1>5
<1> HIDE DEF g, h
<1>12. /\ [frames EXCEPT ![Len(frames)] = g] \in Seq(Frame)
       /\ Len([frames EXCEPT ![Len(frames)] = g]) = Len(frames)
       /\ Nested([frames EXCEPT ![Len(frames)] = g], h)
  <2>1. Whole(g, h)
        BY <1>10 DEF h
  <2>2. QED
        BY <2>1, <1>9, <1>10, <1>11, Swapped
<1>13. Len(stack') = h
      BY <1>8 DEF h
<1>14. QED
      BY <1>3, <1>8, <1>11, <1>12, <1>13 DEF Laid, FrameInv

\* Top callable: what CALL and RETURN_CALL find on the stack.
LEMMA CalleeTyped ==
    ASSUME FrameInv, NEW f \in Callee
    PROVE  Last(stack) \in Obj
BY DEF Callee

\* RETURN: the results take the place of the frame.
LEMMA LaidReturn ==
    ASSUME FrameInv, Len(frames) > 1, Height >= Top.bp + Top.slots + Top.returns,
           stack' = SubSeq(stack, 1, Top.bp) \o SubSeq(stack, Height - Top.returns + 1, Height),
           frames' = Front(frames)
    PROVE  Laid(frames', stack')
<1> DEFINE bp == Top.bp
           r == Top.returns
           a == Height - r
           low == SubSeq(stack, 1, bp)
           top == SubSeq(stack, a + 1, Height)
           h == bp + r
<1>1. Height \in Nat /\ Height <= StackCap /\ StackCap \in Nat /\ Top \in Frame
      BY Shape, MachineAssumption
<1>2. bp \in Nat /\ Top.slots \in Nat /\ r \in Nat
      BY <1>1 DEF Frame
<1>3. /\ a \in Nat /\ a <= Height /\ Height - a = r /\ bp <= Height /\ h \in Nat
      /\ h <= StackCap /\ bp <= h
  <2> DEFINE s == Top.slots
             H == Height
  <2>1. /\ H \in Nat /\ H <= StackCap /\ StackCap \in Nat
        /\ bp \in Nat /\ s \in Nat /\ r \in Nat /\ H >= bp + s + r
        BY <1>1, <1>2
  <2> HIDE DEF bp, r, s, H
  <2>2. /\ H - r \in Nat /\ H - r <= H /\ H - (H - r) = r /\ bp <= H /\ bp + r \in Nat
        /\ bp + r <= StackCap /\ bp <= bp + r
        BY <2>1
  <2>3. QED
        BY <2>2 DEF H
<1> HIDE DEF bp, r, a
<1>4. low \in Seq(Value) /\ Len(low) = bp
      BY <1>2, <1>3, Prefix DEF FrameInv, Height
<1>5. top \in Seq(Value) /\ Len(top) = r
  <2>1. top \in Seq(Value) /\ Len(top) = Height - a
        BY <1>1, <1>3, Segment DEF FrameInv, Height
  <2>2. QED
        BY <2>1, <1>3
<1>6. stack' = low \o top
      BY DEF bp, r, a
<1> HIDE DEF low, top
<1>7. stack' \in Seq(Value) /\ Len(stack') = h
  <2>1. stack' \in Seq(Value) /\ Len(stack') = Len(low) + Len(top)
        BY <1>4, <1>5, <1>6, ConcatProperties
  <2>2. QED
        BY <2>1, <1>4, <1>5, Zenon
<1>8. Top.bp <= h
      BY <1>3 DEF bp
<1> HIDE DEF h
<1>9. /\ frames' \in Seq(Frame) /\ Len(frames') = Len(frames) - 1 /\ Nested(frames', h)
      BY <1>3, <1>8, Closed
<1>10. Len(frames) - 1 \in 1 .. FrameCap
      BY Shape, MachineAssumption
<1>11. QED
      BY <1>3, <1>7, <1>9, <1>10 DEF Laid

\* RETURN and YIELD of a coroutine's frame leave the handle to the caller.
LEMMA LaidHandle ==
    ASSUME FrameInv, Len(frames) > 1, Top.coro # None,
           stack' = Append(SubSeq(stack, 1, Top.bp), Top.coro),
           frames' = Front(frames)
    PROVE  Laid(frames', stack')
<1> DEFINE bp == Top.bp
           low == SubSeq(stack, 1, bp)
           h == bp + 1
<1>1. /\ Height \in Nat /\ StackCap \in Nat /\ Top \in Frame /\ Whole(Top, Height)
      /\ Top = frames[Len(frames)] /\ Len(frames) \in 1 .. Len(frames)
      BY Shape, MachineAssumption
<1>2. bp < StackCap
      BY <1>1 DEF FrameInv, Nested, Hosting
<1>3. bp \in Nat /\ bp <= Height
      BY <1>1, WholeSpans
<1>4. h \in Nat /\ h <= StackCap /\ bp <= h
      BY <1>1, <1>2, <1>3
<1>5. Top.coro \in Value
      BY <1>1 DEF Frame, Value
<1>6. low \in Seq(Value) /\ Len(low) = bp
  <2> HIDE DEF bp
  <2>1. QED
        BY <1>3, Prefix DEF FrameInv, Height
<1>7. stack' \in Seq(Value) /\ Len(stack') = h
  <2> DEFINE c == Top.coro
  <2>1. stack' = Append(low, c) /\ c \in Value
        BY <1>5
  <2> HIDE DEF low, bp, c
  <2>2. low \in Seq(Value) /\ c \in Value
        BY <2>1, <1>6, Zenon
  <2>3. Append(low, c) \in Seq(Value) /\ Len(Append(low, c)) = Len(low) + 1
        BY <2>2, AppendProperties
  <2>4. QED
        BY <2>1, <2>3, <1>6, Zenon
<1> HIDE DEF h
<1>8. /\ frames' \in Seq(Frame) /\ Len(frames') = Len(frames) - 1 /\ Nested(frames', h)
      BY <1>4, Closed
<1>9. Len(frames) - 1 \in 1 .. FrameCap
      BY Shape, MachineAssumption
<1>10. QED
      BY <1>4, <1>7, <1>8, <1>9 DEF Laid

-----------------------------------------------------------------------------
(***************************************************************************)
(* Each action keeps the invariant.                                        *)
(***************************************************************************)
\* The instructions that leave frames, stack, heap and global alone.
LEMMA StillInv ==
    ASSUME FrameInv, UNCHANGED <<frames, stack, obj, global>>
    PROVE  FrameInv'
BY DEF FrameInv, Height, Saved

\* One address of release's worklist.
LEMMA ReleaseInv ==
    ASSUME FrameInv, NEW o \in Obj, Release(o)
    PROVE  FrameInv'
<1> DEFINE last == rc[o] = 1
<1>1. /\ obj' = IF last THEN [obj EXCEPT ![o] = Blank] ELSE obj
      /\ UNCHANGED <<frames, stack, global>>
      BY Zenon DEF Release
<1>2. /\ obj' \in [Obj -> Object]
      /\ \A p \in Obj : obj'[p] = obj[p] \/ obj'[p] = Blank
  <2> HIDE DEF last
  <2>1. QED
        BY <1>1, BlankObject DEF FrameInv
<1>3. Stored'
      BY <1>2, BlankObject DEF FrameInv, Stored, Saved
<1>4. QED
      BY <1>1, <1>3, FrameInvParts, FrameInvNext

\* An instruction that pushes one value.
LEMMA PushInv ==
    ASSUME FrameInv, NEW v \in Value, Push(v), UNCHANGED <<frames, global>>, Stored'
    PROVE  FrameInv'
<1>1. Laid(frames, Append(stack, v))
      BY LaidPush DEF Push
<1>2. QED
      BY <1>1, FrameInvNext DEF Push, FrameInv

\* I32_CONST and its kin.
LEMMA ConstInv ==
    ASSUME FrameInv, Const
    PROVE  FrameInv'
BY BlankObject, StoredSame, PushInv DEF Const

\* CLOSURE_NEW.
LEMMA ClosureNewInv ==
    ASSUME FrameInv, NEW f \in Fn, NEW o \in Obj, ClosureNew(f, o)
    PROVE  FrameInv'
<1> DEFINE v == [Blank EXCEPT !.kind = "closure", !.fn = f]
<1>1. v \in Object /\ v.region = NoRegion
      BY BlankObject DEF Object, Blank
<1>2. Alloc(o, v) /\ Push(o) /\ UNCHANGED <<frames, global>> /\ o \in Value
      BY DEF ClosureNew, Value
<1> HIDE DEF v
<1>3. QED
      BY <1>1, <1>2, AllocStored, PushInv

\* DUP and LOCAL_GET.
LEMMA CopyInv ==
    ASSUME FrameInv, NEW k \in 1 .. StackCap, Copy(k)
    PROVE  FrameInv'
<1>1. k \in 1 .. Len(stack)
      BY Shape DEF Copy, Height
<1>2. stack[k] \in Value
      BY <1>1, Shape
<1>3. QED
      BY <1>2, StoredSame, PushInv DEF Copy

\* GLOBAL_GET.
LEMMA GlobalGetInv ==
    ASSUME FrameInv, GlobalGet
    PROVE  FrameInv'
<1>1. global \in Value
      BY DEF FrameInv
<1>2. QED
      BY <1>1, StoredSame, PushInv DEF GlobalGet

\* DROP.
LEMMA DropInv ==
    ASSUME FrameInv, Drop
    PROVE  FrameInv'
<1>1. Operands(1) /\ stack' = Front(stack) /\ UNCHANGED <<frames, obj, global>>
      BY DEF Drop
<1>2. Front(stack) = SubSeq(stack, 1, Height - 1)
      BY <1>1, TopOperand
<1>3. Laid(frames', stack')
      BY <1>1, <1>2, LaidPop
<1>4. QED
      BY <1>1, <1>3, StoredSame, FrameInvNext DEF FrameInv

\* GLOBAL_SET.
LEMMA GlobalSetInv ==
    ASSUME FrameInv, GlobalSet
    PROVE  FrameInv'
<1>1. /\ Operands(1) /\ stack' = Front(stack) /\ global' = Last(stack)
      /\ UNCHANGED <<frames, obj>>
      BY DEF GlobalSet
<1>2. Last(stack) \in Value /\ Front(stack) = SubSeq(stack, 1, Height - 1)
      BY <1>1, TopOperand
<1>3. Laid(frames', stack')
      BY <1>1, <1>2, LaidPop
<1>4. QED
      BY <1>1, <1>2, <1>3, StoredSame, FrameInvNext

\* The current frame moves into the region entered at height r, or out of any.
LEMMA RegionInv ==
    ASSUME FrameInv, NEW r \in Nat \cup {NoRegion},
           r # NoRegion => Top.slots <= r /\ Top.bp + r <= Height,
           frames' = [frames EXCEPT ![Len(frames)].region = r],
           UNCHANGED <<stack, obj, global>>
    PROVE  FrameInv'
<1> DEFINE g == [Top EXCEPT !.region = r]
<1>1. /\ Top \in Frame /\ Whole(Top, Height) /\ Top = frames[Len(frames)] /\ Hosting(Top)
      /\ Height \in Nat
      BY Shape DEF FrameInv, Nested
<1>2. frames' = [frames EXCEPT ![Len(frames)] = g]
      BY <1>1
<1>3. /\ g \in Frame /\ g.bp = Top.bp /\ g.slots = Top.slots /\ g.region = r
      /\ g.coro = Top.coro /\ g.fn = Top.fn
      BY <1>1 DEF Frame
<1> HIDE DEF g
<1>4. Whole(g, Height)
      BY <1>1, <1>3 DEF Whole
<1>5. Hosting(g)
      BY <1>1, <1>3 DEF Hosting
<1>6. frames' \in Seq(Frame) /\ Len(frames') = Len(frames) /\ Nested(frames', Height)
  <2> DEFINE fs == [frames EXCEPT ![Len(frames)] = g]
  <2>1. fs \in Seq(Frame) /\ Len(fs) = Len(frames) /\ Nested(fs, Height)
        BY <1>1, <1>3, <1>4, <1>5, Swapped
  <2> HIDE DEF fs
  <2>2. frames' = fs
        BY <1>2 DEF fs
  <2>3. QED
        BY <2>1, <2>2, Zenon
<1>7. Laid(frames', stack')
      BY <1>6 DEF Laid, FrameInv, Height
<1>8. QED
      BY <1>7, StoredSame, FrameInvNext DEF FrameInv

\* The instruction pointer enters a protected region.
LEMMA EnterInv ==
    ASSUME FrameInv, Enter
    PROVE  FrameInv'
<1> DEFINE r == Height - Top.bp
<1>1. Height \in Nat /\ Top \in Frame /\ Whole(Top, Height)
      BY Shape
<1>2. Top.bp \in Nat /\ Top.slots \in Nat /\ Top.bp + Top.slots <= Height
      BY <1>1 DEF Whole, Frame
<1>3. r \in Nat /\ Top.slots <= r /\ Top.bp + r <= Height
      BY <1>1, <1>2
<1>4. frames' = [frames EXCEPT ![Len(frames)].region = r] /\ UNCHANGED <<stack, obj, global>>
      BY DEF Enter
<1> HIDE DEF r
<1>5. QED
      BY <1>3, <1>4, RegionInv

\* The instruction pointer leaves its region.
LEMMA LeaveInv ==
    ASSUME FrameInv, Leave
    PROVE  FrameInv'
<1>1. /\ frames' = [frames EXCEPT ![Len(frames)].region = NoRegion]
      /\ UNCHANGED <<stack, obj, global>>
      BY DEF Leave
<1>2. QED
      BY <1>1, RegionInv

\* CALL of a function that does not yield, and RETURN_CALL from the module body.
LEMMA CallInv ==
    ASSUME FrameInv, NEW f \in Fn, Call(f) \/ CallDirect(f) \/ TailFromMain(f)
    PROVE  FrameInv'
<1>1. /\ \E ref \in Obj \cup {None}, n \in Nat : Pushed(f, ref, None, n)
      /\ UNCHANGED <<obj, global>>
      BY CalleeTyped DEF Call, CallDirect, TailFromMain
<1>2. PICK ref \in Obj \cup {None}, n \in Nat : Pushed(f, ref, None, n)
      BY <1>1
<1>3. Laid(frames', stack')
      BY <1>2, PushedLaid
<1>4. QED
      BY <1>1, <1>3, StoredSame, FrameInvNext DEF FrameInv

\* CALL of a function that yields.
LEMMA CallCoroutineInv ==
    ASSUME FrameInv, NEW f \in Fn, NEW o \in Obj, CallCoroutine(f, o)
    PROVE  FrameInv'
<1> DEFINE v == [Blank EXCEPT !.kind = "coroutine"]
<1>1. v \in Object /\ v.region = NoRegion
      BY BlankObject DEF Object, Blank
<1>2. Alloc(o, v) /\ Pushed(f, Last(stack), o, 1) /\ UNCHANGED global /\ Last(stack) \in Obj
      BY CalleeTyped DEF CallCoroutine
<1> HIDE DEF v
<1>3. Stored'
      BY <1>1, <1>2, AllocStored
<1>4. 1 \in Nat /\ 1 > 0
      OBVIOUS
<1>5. Laid(frames', stack')
      BY <1>2, <1>4, PushedLaid
<1>6. QED
      BY <1>2, <1>3, <1>5, FrameInvNext DEF FrameInv

\* RETURN_CALL.
LEMMA ReturnCallInv ==
    ASSUME FrameInv, NEW f \in Fn, ReturnCall(f) \/ ReturnCallDirect(f)
    PROVE  FrameInv'
<1>1. /\ \E ref \in Obj \cup {None}, n \in Nat : Replaced(f, ref, n)
      /\ UNCHANGED <<obj, global>>
      BY CalleeTyped DEF ReturnCall, ReturnCallDirect
<1>2. PICK ref \in Obj \cup {None}, n \in Nat : Replaced(f, ref, n)
      BY <1>1
<1>3. Laid(frames', stack')
      BY <1>2, ReplacedLaid
<1>4. QED
      BY <1>1, <1>3, StoredSame, FrameInvNext DEF FrameInv

\* CALL of a host function.
LEMMA HostCallInv ==
    ASSUME FrameInv, NEW r \in Value, HostCall(r)
    PROVE  FrameInv'
<1>1. /\ Operands(2) /\ stack' = Append(SubSeq(stack, 1, Height - 2), r)
      /\ UNCHANGED <<frames, obj, global>>
      BY Zenon DEF HostCall
<1>2. 2 \in Nat /\ 2 > 0
      OBVIOUS
<1>3. Laid(frames', stack')
      BY <1>1, <1>2, LaidPop
<1>4. QED
      BY <1>1, <1>3, StoredSame, FrameInvNext DEF FrameInv

\* CORO_DONE and CORO_VALUE.
LEMMA CoroAnswerInv ==
    ASSUME FrameInv, CoroDone \/ CoroValue
    PROVE  FrameInv'
<1>1. /\ Operands(1)
      /\ \E v \in Value : stack' = Append(Front(stack), v)
      /\ UNCHANGED <<frames, obj, global>>
  <2>1. CASE CoroDone
        BY <2>1, BlankObject DEF CoroDone
  <2>2. CASE CoroValue
    <3>1. Last(stack) \in Obj
          BY <2>2 DEF CoroValue, IsCoroutine
    <3>2. obj[Last(stack)].value \in Value
          BY <3>1 DEF FrameInv, Object
    <3>3. QED
          BY <2>2, <3>2 DEF CoroValue
  <2>3. QED
        BY <2>1, <2>2
<1>2. Front(stack) = SubSeq(stack, 1, Height - 1)
      BY <1>1, TopOperand
<1>3. 1 \in Nat /\ 1 > 0
      OBVIOUS
<1>4. Laid(frames', stack')
      BY <1>1, <1>2, <1>3, LaidPop
<1>5. QED
      BY <1>1, <1>4, StoredSame, FrameInvNext DEF FrameInv

\* RETURN.
LEMMA ReturnInv ==
    ASSUME FrameInv, Return
    PROVE  FrameInv'
<1>1. Laid(frames', stack') /\ UNCHANGED <<obj, global>>
      BY LaidReturn DEF Return
<1>2. QED
      BY <1>1, StoredSame, FrameInvNext DEF FrameInv

\* RETURN from a coroutine's frame.
LEMMA ReturnCoroutineInv ==
    ASSUME FrameInv, ReturnCoroutine
    PROVE  FrameInv'
<1> DEFINE c == Top.coro
           val == IF Top.returns > 0 THEN Last(stack) ELSE Num
           v == [obj[c] EXCEPT !.value = val, !.done = TRUE, !.image = <<>>, !.ref = None]
<1>1. /\ Top \in Frame /\ Height \in Nat
      /\ Len(frames) > 1 /\ Top.coro # None
      /\ Height >= Top.bp + Top.slots + Top.returns
      /\ stack' = Append(SubSeq(stack, 1, Top.bp), Top.coro)
      /\ frames' = Front(frames) /\ global' = global
      BY Shape DEF ReturnCoroutine
<1>2. obj' = [obj EXCEPT ![c] = v]
      BY DEF ReturnCoroutine
<1>3. c \in Obj
      BY <1>1 DEF Frame
<1>4. val \in Value
  <2>1. CASE Top.returns > 0
    <3>1. Top.bp \in Nat /\ Top.slots \in Nat /\ Top.returns \in Nat
          BY <1>1 DEF Frame
    <3>2. Height > 0
          BY <3>1, <1>1, <2>1
    <3>3. Len(stack) \in 1 .. Len(stack)
          BY <3>2, <1>1 DEF Height
    <3>4. QED
          BY <2>1, <3>3, Shape DEF Last
  <2>2. CASE ~(Top.returns > 0)
        BY <2>2, BlankObject
  <2>3. QED
        BY <2>1, <2>2
<1>5. obj[c] \in Object /\ (obj[c].region # NoRegion => obj[c].slots <= obj[c].region)
      BY <1>3 DEF FrameInv, Saved
<1>6. None \in Obj \cup {None} /\ <<>> \in Seq(Value)
      OBVIOUS
<1> HIDE DEF val, c
<1>7. v \in Object /\ v.region = obj[c].region /\ v.slots = obj[c].slots
      BY <1>4, <1>5, <1>6 DEF Object
<1> HIDE DEF v
<1>8. Stored'
      BY <1>2, <1>3, <1>5, <1>7, StoreStored
<1>9. Laid(frames', stack')
      BY <1>1, LaidHandle
<1>10. QED
      BY <1>1, <1>8, <1>9, FrameInvNext DEF FrameInv

\* YIELD.
LEMMA YieldInv ==
    ASSUME FrameInv, Yield
    PROVE  FrameInv'
<1> DEFINE c == Top.coro
           val == Last(stack)
           img == SubSeq(stack, Top.bp + 1, Height - 1)
           v == [obj[c] EXCEPT !.value = val, !.image = img, !.fn = Top.fn, !.ref = Top.ref,
                               !.slots = Top.slots, !.returns = Top.returns,
                               !.region = Top.region]
<1>1. /\ Top \in Frame /\ Height \in Nat /\ Whole(Top, Height) /\ Hosting(Top)
      /\ Len(frames) > 1 /\ Top.coro # None /\ Operands(1)
      /\ stack' = Append(SubSeq(stack, 1, Top.bp), Top.coro)
      /\ frames' = Front(frames) /\ global' = global
      BY Shape DEF Yield, FrameInv, Nested
<1>2. obj' = [obj EXCEPT ![c] = v]
      BY DEF Yield
<1>3. c \in Obj /\ Top.fn \in Fn
      BY <1>1 DEF Frame, Hosting
<1>4. val \in Value
      BY <1>1, TopOperand
<1>5. img \in Seq(Value)
  <2> DEFINE a == Top.bp
             b == Height - 1
  <2>1. 1 \in Nat
        OBVIOUS
  <2>2. a \in Nat /\ b \in Nat /\ a <= b /\ b <= Len(stack)
        BY <1>1, <2>1, Popped DEF Height
  <2> HIDE DEF a, b
  <2>3. SubSeq(stack, a + 1, b) \in Seq(Value)
        BY <2>2, Segment DEF FrameInv
  <2>4. QED
        BY <2>3 DEF a, b
<1>6. obj[c] \in Object
      BY <1>3 DEF FrameInv
<1>7. Top.region # NoRegion => Top.slots <= Top.region
      BY <1>1 DEF Whole
<1> DEFINE t == Top
<1>8. /\ t.fn \in Fn \cup {None} /\ t.ref \in Obj \cup {None} /\ t.slots \in Nat
      /\ t.returns \in Nat /\ t.region \in Nat \cup {NoRegion}
      BY <1>1, <1>3 DEF Frame
<1> HIDE DEF val, c, img, t
<1>9. v \in Object /\ v.region = t.region /\ v.slots = t.slots
  <2> DEFINE w == [obj[c] EXCEPT !.value = val, !.image = img, !.fn = t.fn, !.ref = t.ref,
                               !.slots = t.slots, !.returns = t.returns, !.region = t.region]
  <2>1. w \in Object /\ w.region = t.region /\ w.slots = t.slots
        BY <1>4, <1>5, <1>6, <1>8 DEF Object
  <2>2. QED
        BY <2>1 DEF t
<1> HIDE DEF v
<1>10. v.region # NoRegion => v.slots <= v.region
      BY <1>7, <1>9 DEF t
<1>11. Stored'
      BY <1>2, <1>3, <1>9, <1>10, StoreStored
<1>12. Laid(frames', stack')
      BY <1>1, LaidHandle
<1>13. QED
      BY <1>1, <1>11, <1>12, FrameInvNext DEF FrameInv

\* RESUME: the saved slots and region operands come back with the frame.
LEMMA ResumeInv ==
    ASSUME FrameInv, ~HollowResumes, NEW o \in Obj, Resume(o)
    PROVE  FrameInv'
<1> DEFINE img == obj[o].image
           a == Height - 2
           low == SubSeq(stack, 1, a)
           two == low \o img
           n == Len(img)
           h == a + n + 1
           g == [fn |-> obj[o].fn, bp |-> a, slots |-> obj[o].slots,
                 returns |-> obj[o].returns, region |-> obj[o].region,
                 ref |-> obj[o].ref, coro |-> o]
           v == [obj[o] EXCEPT !.value = Num, !.image = <<>>, !.ref = None]
<1>1. /\ Operands(2) /\ Suspended(o) /\ Len(frames) < FrameCap /\ Room(n - 1)
      /\ stack' = Append(two, Last(stack)) /\ frames' = Append(frames, g)
      /\ obj' = [obj EXCEPT ![o] = v] /\ global' = global
      BY DEF Resume, Resumable
<1>2. obj[o] \in Object /\ (obj[o].region # NoRegion => obj[o].slots <= obj[o].region)
      BY DEF FrameInv, Saved
<1>3. obj[o].fn \in Fn /\ obj[o].slots <= n /\ obj[o].region <= n
      BY <1>1, <1>2 DEF Suspended, Object
<1>4. /\ img \in Seq(Value) /\ n \in Nat
      /\ obj[o].slots \in Nat /\ obj[o].region \in Nat \cup {NoRegion}
      /\ obj[o].returns \in Nat /\ obj[o].ref \in Obj \cup {None}
      BY <1>2, LenProperties DEF Object
<1>5. 2 \in Nat
      OBVIOUS
<1>6. /\ a \in Nat /\ low \in Seq(Value) /\ Len(low) = a
      /\ Floor(Top) \in Nat /\ Floor(Top) <= a
      BY <1>1, <1>5, Popped
<1>7. Height \in Nat /\ StackCap \in Nat /\ a + 2 = Height /\ Height <= StackCap
      BY Shape, MachineAssumption
<1> HIDE DEF a, n
<1>8. /\ h \in Nat /\ h <= StackCap /\ a < StackCap /\ a + obj[o].slots <= h
      /\ obj[o].region # NoRegion => a + obj[o].region <= h
  <2>1. Height + (n - 1) <= StackCap
        BY <1>1 DEF Room
  <2>2. h \in Nat /\ h <= StackCap /\ a < StackCap /\ a + n <= h
        BY <2>1, <1>4, <1>6, <1>7
  <2>3. \A x \in Nat : x <= n => a + x <= h
        BY <1>4, <1>6
  <2> HIDE DEF h
  <2>4. QED
        BY <1>3, <1>4, <2>2, <2>3
<1>9. Last(stack) \in Value
  <2>1. Len(stack) \in 1 .. Len(stack)
        BY <1>6, <1>7 DEF Height
  <2>2. QED
        BY <2>1, Shape DEF Last
<1>10. stack' \in Seq(Value) /\ Len(stack') = h
  <2> DEFINE e == Last(stack)
  <2>1. e \in Value
        BY <1>9
  <2> HIDE DEF low, img, e
  <2>2. two \in Seq(Value) /\ Len(two) = Len(low) + Len(img)
        BY <1>4, <1>6, ConcatProperties
  <2> HIDE DEF two
  <2>3. Append(two, e) \in Seq(Value) /\ Len(Append(two, e)) = Len(two) + 1
        BY <2>1, <2>2, AppendProperties
  <2>4. Len(two) = a + n
        BY <2>2, <1>6, Zenon DEF n
  <2>5. stack' = Append(two, e)
        BY <1>1 DEF e
  <2>6. QED
        BY <2>3, <2>4, <2>5, Zenon
<1> HIDE DEF h, two, low, img
<1>11. g \in Frame /\ g.bp = a
      BY <1>3, <1>4, <1>6 DEF Frame
<1>12. Whole(g, h) /\ Hosting(g)
      BY <1>2, <1>3, <1>8 DEF Whole, Hosting
<1> HIDE DEF g
<1>13. /\ Append(frames, g) \in Seq(Frame) /\ Len(Append(frames, g)) = Len(frames) + 1
       /\ Nested(Append(frames, g), h)
      BY <1>6, <1>8, <1>11, <1>12, Opened
<1>14. Len(frames) + 1 \in 1 .. FrameCap
      BY <1>1, Shape, MachineAssumption
<1>15. Laid(frames', stack')
      BY <1>1, <1>8, <1>10, <1>13, <1>14 DEF Laid
<1>16. None \in Obj \cup {None} /\ <<>> \in Seq(Value)
      OBVIOUS
<1>17. v \in Object /\ v.region = obj[o].region /\ v.slots = obj[o].slots
      BY <1>2, <1>16, BlankObject DEF Object
<1> HIDE DEF v
<1>18. Stored'
      BY <1>1, <1>2, <1>17, StoreStored
<1>19. QED
      BY <1>1, <1>15, <1>18, FrameInvNext DEF FrameInv

\* A protected frame, and the height its handler starts from.
LEMMA Protected ==
    ASSUME FrameInv, NEW k \in 1 .. Len(frames), frames[k].region # NoRegion
    PROVE  /\ Base(k) \in Nat /\ Base(k) <= Height
           /\ frames[k] \in Frame /\ Hosting(frames[k])
           /\ frames[k].bp \in Nat /\ frames[k].bp + frames[k].slots <= Base(k)
<1>1. frames[k] \in Frame /\ Whole(frames[k], Height) /\ Hosting(frames[k]) /\ Height \in Nat
      BY Shape DEF FrameInv, Nested
<1>2. frames[k].bp \in Nat /\ frames[k].slots \in Nat /\ frames[k].region \in Nat
      BY <1>1 DEF Frame
<1>3. QED
      BY <1>1, <1>2 DEF Base, Whole

\* land: the handler's frame keeps its slots and its region's operands.
LEMMA LandLaid ==
    ASSUME FrameInv, NEW k \in 1 .. Len(frames), frames[k].region # NoRegion,
           Base(k) < StackCap, NEW n, NEW exc \in Value, Land(k, n, exc)
    PROVE  Laid(frames', stack')
<1> DEFINE b == Base(k)
           low == SubSeq(stack, 1, b)
           g == [frames[k] EXCEPT !.region = NoRegion]
           h == b + 1
<1>1. /\ stack' = Append(low, exc)
      /\ frames' = Append(SubSeq(frames, 1, k - 1), g)
      BY DEF Land
<1>2. /\ b \in Nat /\ b <= Height /\ frames[k] \in Frame /\ Hosting(frames[k])
      /\ frames[k].bp \in Nat /\ frames[k].bp + frames[k].slots <= b /\ b < StackCap
      BY Protected
<1>3. /\ g \in Frame /\ g.bp = frames[k].bp /\ g.slots = frames[k].slots
      /\ g.region = NoRegion /\ g.coro = frames[k].coro /\ g.fn = frames[k].fn
      /\ frames[k].slots \in Nat
      BY <1>2 DEF Frame
<1> HIDE DEF b, g
<1>4. low \in Seq(Value) /\ Len(low) = b
      BY <1>2, Prefix DEF FrameInv, Height
<1> HIDE DEF low
<1>5. stack' \in Seq(Value) /\ Len(stack') = h
  <2>1. low \in Seq(Value)
        BY <1>4
  <2>2. Append(low, exc) \in Seq(Value) /\ Len(Append(low, exc)) = Len(low) + 1
        BY <2>1, AppendProperties
  <2>3. QED
        BY <2>2, <1>1, <1>4, Zenon
<1>6. h \in Nat /\ h <= StackCap /\ frames[k].bp + frames[k].slots <= h
      BY <1>2, <1>3, MachineAssumption
<1> HIDE DEF h
<1>7. Whole(g, h) /\ Hosting(g)
      BY <1>2, <1>3, <1>6 DEF Whole, Hosting
<1>8. frames' \in Seq(Frame) /\ Len(frames') = k /\ Nested(frames', h)
  <2> DEFINE fs == Append(SubSeq(frames, 1, k - 1), g)
  <2>1. fs \in Seq(Frame) /\ Len(fs) = k /\ Nested(fs, h)
        BY <1>3, <1>6, <1>7, Landed
  <2>2. QED
        BY <2>1, <1>1
<1>9. k \in 1 .. FrameCap
      BY Shape, MachineAssumption
<1>10. QED
      BY <1>5, <1>6, <1>8, <1>9 DEF Laid

\* handler finds a frame when there is one.
LEMMA InnermostOf ==
    ASSUME NEW n \in Nat, NEW S \in SUBSET (1 .. n), S # {}
    PROVE  Innermost(S) \in S
<1> DEFINE I == {n - k : k \in S}
<1>1. I \in SUBSET Nat /\ I # {}
  <2>1. \A k \in S : n - k \in Nat
        OBVIOUS
  <2>2. QED
        BY <2>1
<1>2. IsWellFoundedOn(OpToRel(<, Nat), Nat)
      BY NatLessThanWellFounded
<1>3. PICK x \in I : \A y \in I : ~ (<<y, x>> \in OpToRel(<, Nat))
  <2> HIDE DEF I
  <2>1. QED
        BY <1>1, <1>2, WFMin
<1>4. \A y \in Nat : y < x => <<y, x>> \in OpToRel(<, Nat)
      BY <1>1, Zenon DEF OpToRel
<1>5. \A y \in I : ~ (y < x)
      BY <1>1, <1>3, <1>4, Zenon
<1>6. PICK k \in S : x = n - k
      BY <1>3
<1>7. \A j \in S : j <= k
  <2> SUFFICES ASSUME NEW j \in S
               PROVE  j <= k
      OBVIOUS
  <2>1. n - j \in I
        OBVIOUS
  <2>2. ~ (n - j < n - k)
        BY <2>1, <1>5, <1>6
  <2>3. j \in Nat /\ k \in Nat
        OBVIOUS
  <2>4. QED
        BY <2>2, <2>3
<1>8. QED
      BY <1>7 DEF Innermost

\* The frame handler finds exists and is protected.
LEMMA CoveringSome ==
    ASSUME FrameInv, NEW top \in Nat, top <= Len(frames), Covering(top) # {}
    PROVE  /\ Innermost(Covering(top)) \in 1 .. Len(frames)
           /\ frames[Innermost(Covering(top))].region # NoRegion
<1> DEFINE S == Covering(top)
<1>1. S \in SUBSET (1 .. top) /\ S # {}
      BY DEF Covering
<1>2. Innermost(S) \in S
  <2> HIDE DEF S
  <2>1. QED
        BY <1>1, InnermostOf
<1>3. \A k \in 1 .. top : k \in 1 .. Len(frames)
      BY Shape
<1>4. QED
      BY <1>2, <1>3 DEF Covering

\* dispatch returns an error with m operands off the stack.
LEMMA FailInv ==
    ASSUME FrameInv, NEW m \in Nat, Operands(m), Fail(Height - m)
    PROVE  FrameInv'
<1>1. stack' = SubSeq(stack, 1, Height - m) /\ UNCHANGED <<frames, obj, global>>
      BY DEF Fail
<1>2. Laid(frames', stack')
      BY <1>1, LaidPop
<1>3. QED
      BY <1>1, <1>2, StoredSame, FrameInvNext DEF FrameInv

\* handle, with m operands off the stack.
LEMMA TrappedInv ==
    ASSUME FrameInv, NEW m \in Nat, Operands(m), NEW top \in Nat, top <= Len(frames),
           Trapped(Height - m, top)
    PROVE  FrameInv'
<1> DEFINE S == Covering(top)
           k == Innermost(S)
           v == [Blank EXCEPT !.kind = "error"]
<1>1. \/ S = {} /\ Fail(Height - m)
      \/ S # {} /\ Panic
      \/ /\ S # {} /\ Base(k) < StackCap
         /\ \E o \in Obj : Alloc(o, v) /\ Land(k, Height - m, o)
         /\ UNCHANGED <<global, status>>
      BY Zenon DEF Trapped
<1>2. CASE Fail(Height - m)
      BY <1>2, FailInv
<1>3. CASE Panic
      BY <1>3, StillInv DEF Panic
<1>4. CASE /\ S # {} /\ Base(k) < StackCap
           /\ \E o \in Obj : Alloc(o, v) /\ Land(k, Height - m, o)
           /\ UNCHANGED <<global, status>>
  <2>1. k \in 1 .. Len(frames) /\ frames[k].region # NoRegion
        BY <1>4, CoveringSome
  <2>2. v \in Object /\ v.region = NoRegion
        BY BlankObject DEF Object, Blank
  <2> HIDE DEF k, v, S
  <2>3. PICK o \in Obj : Alloc(o, v) /\ Land(k, Height - m, o)
        BY <1>4
  <2>4. o \in Value
        BY DEF Value
  <2>5. Stored'
        BY <2>2, <2>3, AllocStored
  <2>6. Laid(frames', stack')
        BY <1>4, <2>1, <2>3, <2>4, LandLaid
  <2>7. QED
        BY <1>4, <2>5, <2>6, FrameInvNext DEF FrameInv
<1>5. QED
      BY <1>1, <1>2, <1>3, <1>4, Zenon

\* A check that fails before its instruction popped anything.
LEMMA NoOperand ==
    ASSUME FrameInv
    PROVE  /\ 0 \in Nat /\ Operands(0) /\ Height - 0 = Height
           /\ Len(frames) \in Nat /\ Len(frames) <= Len(frames)
           /\ Len(frames) - 1 \in Nat /\ Len(frames) - 1 <= Len(frames)
<1>1. Height \in Nat /\ Top \in Frame /\ Whole(Top, Height) /\ Len(frames) \in Nat /\ Len(frames) >= 1
      BY Shape
<1>2. Floor(Top) \in Nat /\ Floor(Top) <= Height
      BY <1>1, WholeSpans
<1>3. QED
      BY <1>1, <1>2 DEF Operands

\* Traps, the one at the end of a region included.
LEMMA TrapInv ==
    ASSUME FrameInv, Trap \/ Unreachable
    PROVE  FrameInv'
<1>1. Trapped(Height - 0, Len(frames)) \/ Trapped(Height - 0, Len(frames) - 1)
      BY NoOperand DEF Trap, Unreachable
<1>2. QED
      BY <1>1, NoOperand, TrappedInv

\* RESUME of an image that does not fit.
LEMMA ResumeOverflowInv ==
    ASSUME FrameInv, NEW o \in Obj, ResumeOverflow(o)
    PROVE  FrameInv'
<1>1. Operands(2) /\ Trapped(Height - 2, Len(frames)) /\ 2 \in Nat
      BY DEF ResumeOverflow, Resumable
<1>2. QED
      BY <1>1, NoOperand, TrappedInv

\* THROW.
LEMMA ThrowInv ==
    ASSUME FrameInv, Throw
    PROVE  FrameInv'
<1> DEFINE S == Covering(Len(frames))
           k == Innermost(S)
<1>1. /\ Operands(1) \/ Height > Top.bp + Top.slots
      /\ \/ S = {} /\ Fail(Height - 1)
         \/ S # {} /\ Panic
         \/ /\ S # {} /\ Base(k) < StackCap
            /\ Land(k, Height - 1, Last(stack))
            /\ UNCHANGED <<obj, rc, global, status>>
      BY Zenon DEF Throw
<1>2. /\ Height \in Nat /\ Top \in Frame /\ Whole(Top, Height)
      /\ Len(frames) \in 1 .. Len(frames) /\ Top = frames[Len(frames)]
      BY Shape
<1>3. CASE S = {} /\ Fail(Height - 1)
  <2>1. Top.region = NoRegion
        BY <1>2, <1>3 DEF Covering
  <2>2. Floor(Top) = Top.bp + Top.slots /\ Floor(Top) \in Nat
        BY <1>2, <2>1, WholeSpans
  <2>3. Operands(1)
        BY <1>1, <1>2, <2>2 DEF Operands
  <2>4. 1 \in Nat
        OBVIOUS
  <2>5. QED
        BY <1>3, <2>3, <2>4, FailInv
<1>4. CASE Panic
      BY <1>4, StillInv DEF Panic
<1>5. CASE /\ S # {} /\ Base(k) < StackCap
           /\ Land(k, Height - 1, Last(stack))
           /\ UNCHANGED <<obj, rc, global, status>>
  <2>1. k \in 1 .. Len(frames) /\ frames[k].region # NoRegion
        BY <1>5, NoOperand, CoveringSome
  <2>2. Last(stack) \in Value
    <3>1. Top.bp \in Nat /\ Top.slots \in Nat /\ Floor(Top) \in Nat
          BY <1>2, WholeSpans
    <3>2. Height >= 1
          BY <1>1, <1>2, <3>1 DEF Operands
    <3>3. Len(stack) \in 1 .. Len(stack)
          BY <1>2, <3>2 DEF Height
    <3>4. QED
          BY <3>3, Shape DEF Last
  <2> HIDE DEF k, S
  <2>3. Laid(frames', stack')
        BY <1>5, <2>1, <2>2, LandLaid
  <2>4. QED
        BY <1>5, <2>3, StoredSame, FrameInvNext DEF FrameInv
<1>6. QED
      BY <1>1, <1>3, <1>4, <1>5, Zenon

-----------------------------------------------------------------------------
(***************************************************************************)
(* The invariant, and what follows from it.                                *)
(***************************************************************************)
\* One frame with nothing in it, an empty stack and an empty heap.
Fresh ==
    /\ frames = <<MainFrame>> /\ stack = <<>> /\ obj = [o \in Obj |-> Blank]
    /\ global = Num

\* New and Reset lay everything out well.
LEMMA FreshInv == Fresh => FrameInv
<1> SUFFICES ASSUME Fresh PROVE FrameInv
    OBVIOUS
<1>1. MainFrame \in Frame /\ Whole(MainFrame, 0) /\ Hosting(MainFrame)
      BY DEF MainFrame, Frame, Whole, Hosting
<1> HIDE DEF MainFrame
<1>2. frames \in Seq(Frame) /\ Len(frames) = 1 /\ frames[1] = MainFrame
      BY <1>1 DEF Fresh
<1>3. stack \in Seq(Value) /\ Height = 0
      BY DEF Fresh, Height
<1>4. Nested(frames, Height)
  <2>1. \A k \in 1 .. Len(frames) : k = 1
        BY <1>2
  <2>2. \A j, k \in 1 .. Len(frames) : ~(j < k)
        BY <1>2
  <2>3. QED
        BY <2>1, <2>2, <1>1, <1>2, <1>3 DEF Nested
<1>5. obj \in [Obj -> Object] /\ Saved /\ global \in Value
      BY BlankObject DEF Fresh, Saved
<1>6. Len(frames) \in 1 .. FrameCap /\ Len(stack) <= StackCap
      BY <1>2, <1>3, MachineAssumption DEF Height
<1>7. QED
      BY <1>2, <1>3, <1>4, <1>5, <1>6 DEF FrameInv

\* The same of the next state, for Reset.
LEMMA FreshInvNext == Fresh' => FrameInv'
BY FreshInv, PTL

\* Every action keeps the invariant.
LEMMA NextInv ==
    ASSUME ~HollowResumes, FrameInv, Next
    PROVE  FrameInv'
<1>1. CASE Const \/ Drop \/ GlobalGet \/ GlobalSet \/ Enter \/ Leave
      BY <1>1, ConstInv, DropInv, GlobalGetInv, GlobalSetInv, EnterInv, LeaveInv
<1>2. ASSUME NEW k \in 1 .. StackCap, Copy(k)
      PROVE  FrameInv'
      BY <1>2, CopyInv
<1>3. ASSUME NEW f \in Fn,
             Call(f) \/ CallDirect(f) \/ TailFromMain(f) \/ ReturnCall(f) \/ ReturnCallDirect(f)
      PROVE  FrameInv'
      BY <1>3, CallInv, ReturnCallInv
<1>4. ASSUME NEW f \in Fn, NEW o \in Obj, ClosureNew(f, o) \/ CallCoroutine(f, o)
      PROVE  FrameInv'
      BY <1>4, ClosureNewInv, CallCoroutineInv
<1>5. CASE Return \/ ReturnCoroutine \/ Yield \/ CoroDone \/ CoroValue
      BY <1>5, ReturnInv, ReturnCoroutineInv, YieldInv, CoroAnswerInv
<1>6. ASSUME NEW o \in Obj, Release(o) \/ Resume(o) \/ ResumeOverflow(o)
      PROVE  FrameInv'
      BY <1>6, ReleaseInv, ResumeInv, ResumeOverflowInv
<1>7. ASSUME NEW v \in Value, HostCall(v)
      PROVE  FrameInv'
      BY <1>7, HostCallInv
<1>8. CASE Trap \/ Unreachable \/ Throw
      BY <1>8, TrapInv, ThrowInv
<1>9. CASE YieldMain \/ Interrupt \/ Run \/ Finish
      BY <1>9, StillInv DEF YieldMain, Interrupt, Run, Finish
<1>10. CASE Reset
      BY <1>10, FreshInvNext DEF Reset, Fresh
<1>11. QED
      BY <1>1, <1>2, <1>3, <1>4, <1>5, <1>6, <1>7, <1>8, <1>9, <1>10, Zenon DEF Next

\* The frame stack, the operand stack, the heap and what coroutines saved stay in
\* shape while only suspended coroutines are resumed.
THEOREM MachineFrameInv ==
    ASSUME ~HollowResumes
    PROVE  Spec => []FrameInv
<1>1. Init => FrameInv
      BY FreshInv DEF Init, Fresh
<1>2. FrameInv /\ [Next]_vars => FrameInv'
  <2>1. ASSUME FrameInv, UNCHANGED vars
        PROVE  FrameInv'
        BY <2>1, StillInv DEF vars
  <2>2. QED
        BY <2>1, NextInv
<1>3. QED
      BY <1>1, <1>2, PTL DEF Spec

\* Whole below every later frame is whole below the next.
LEMMA FrameInvWhole == FrameInv => FramesWhole
<1> SUFFICES ASSUME FrameInv, NEW k \in DOMAIN frames
             PROVE  LET end == IF k = Len(frames) THEN Height ELSE frames[k + 1].bp
                    IN  /\ frames[k].bp + frames[k].slots <= end
                        /\ Floor(frames[k]) <= end
    BY Zenon DEF FramesWhole
<1> DEFINE end == IF k = Len(frames) THEN Height ELSE frames[k + 1].bp
<1>1. k \in 1 .. Len(frames)
      BY LenProperties DEF FrameInv
<1>2. end \in Nat /\ Whole(frames[k], end)
  <2>1. CASE k = Len(frames)
        BY <1>1, <2>1, Shape DEF FrameInv, Nested
  <2>2. CASE k # Len(frames)
    <3>1. k + 1 \in 1 .. Len(frames) /\ k < k + 1
          BY <1>1, <2>2, Shape
    <3>2. QED
          BY <1>1, <2>2, <3>1, Shape DEF FrameInv, Nested
  <2>3. QED
        BY <2>1, <2>2
<1>3. frames[k] \in Frame
      BY <1>1, Shape
<1> HIDE DEF end
<1>4. /\ Floor(frames[k]) <= end
      /\ frames[k].bp + frames[k].slots <= end
  <2>1. /\ frames[k].bp \in Nat /\ frames[k].slots \in Nat /\ Floor(frames[k]) \in Nat
        /\ frames[k].bp + frames[k].slots <= Floor(frames[k]) /\ Floor(frames[k]) <= end
        BY <1>2, <1>3, WholeSpans
  <2>2. QED
        BY <2>1, <1>2
<1>5. QED
      BY <1>4 DEF end

\* Calls, returns, tail calls, suspensions, resumptions and unwinding never let one
\* frame reach into another's parameters, locals or protected operands.
THEOREM MachineFramesWhole ==
    ASSUME ~HollowResumes
    PROVE  Spec => []FramesWhole
BY MachineFrameInv, FrameInvWhole, PTL

-----------------------------------------------------------------------------
(***************************************************************************)
(* Errors reach the region that protects them.                             *)
(***************************************************************************)
Failing == status = "running" /\ status' = "failed"

\* An action that keeps the status, or ends Run otherwise, fails nothing.
LEMMA OthersDoNotFail ==
    ASSUME Failing
    PROVE  /\ ~(status' = status) /\ ~(status' = "panicked") /\ ~(status' = "stopped")
           /\ ~(status' = "done") /\ ~(status' = "running")
BY DEF Failing

\* handle gives up only where no frame is protected.
LEMMA TrappedFails ==
    ASSUME Failing, NEW n, NEW top, Trapped(n, top)
    PROVE  Covering(top) = {}
<1> DEFINE S == Covering(top)
           k == Innermost(S)
<1>1. \/ S = {}
      \/ Panic
      \/ status' = status
      BY Zenon DEF Trapped
<1>2. ~Panic
      BY OthersDoNotFail DEF Panic
<1>3. QED
      BY <1>1, <1>2, OthersDoNotFail

\* THROW fails only where no frame is protected.
LEMMA ThrowFails ==
    ASSUME Failing, Throw
    PROVE  Covering(Len(frames)) = {}
<1> DEFINE S == Covering(Len(frames))
           k == Innermost(S)
<1>1. \/ S = {}
      \/ Panic
      \/ status' = status
      BY Zenon DEF Throw
<1>2. ~Panic
      BY OthersDoNotFail DEF Panic
<1>3. QED
      BY <1>1, <1>2, OthersDoNotFail

\* The actions that can end Run with an error, and how far handler looked.
LEMMA FailingActions ==
    ASSUME Failing, Next
    PROVE  \/ Covering(Len(frames)) = {}
           \/ Unreachable /\ Covering(Len(frames) - 1) = {}
<1> DEFINE Goal == \/ Covering(Len(frames)) = {}
                   \/ Unreachable /\ Covering(Len(frames) - 1) = {}
<1>1. ~(Const \/ Drop \/ GlobalGet \/ GlobalSet \/ Enter \/ Leave)
      BY OthersDoNotFail, Zenon
         DEF Const, Drop, GlobalGet, GlobalSet, Enter, Leave
<1>2. ASSUME NEW k \in 1 .. StackCap
      PROVE  ~Copy(k)
      BY OthersDoNotFail, Zenon DEF Copy
<1>3. ASSUME NEW f \in Fn
      PROVE  ~(Call(f) \/ CallDirect(f) \/ TailFromMain(f) \/ ReturnCall(f) \/ ReturnCallDirect(f))
      BY OthersDoNotFail, Zenon DEF Call, CallDirect, TailFromMain, ReturnCall, ReturnCallDirect
<1>4. ASSUME NEW f \in Fn, NEW o \in Obj
      PROVE  ~(ClosureNew(f, o) \/ CallCoroutine(f, o))
      BY OthersDoNotFail, Zenon DEF ClosureNew, CallCoroutine
<1>5. ~(Return \/ ReturnCoroutine \/ Yield \/ YieldMain \/ CoroDone \/ CoroValue)
      BY OthersDoNotFail, Zenon
         DEF Return, ReturnCoroutine, Yield, YieldMain, CoroDone, CoroValue
<1>6. ASSUME NEW o \in Obj
      PROVE  ~(Release(o) \/ Resume(o))
      BY OthersDoNotFail, Zenon DEF Release, Resume
<1>7. ASSUME NEW o \in Obj, ResumeOverflow(o)
      PROVE  Goal
      BY <1>7, TrappedFails DEF ResumeOverflow
<1>8. ASSUME NEW v \in Value
      PROVE  ~HostCall(v)
      BY OthersDoNotFail, Zenon DEF HostCall
<1>9. ASSUME Trap PROVE Goal
      BY <1>9, TrappedFails DEF Trap
<1>10. ASSUME Unreachable PROVE Goal
      BY <1>10, TrappedFails DEF Unreachable
<1>11. ASSUME Throw PROVE Goal
      BY <1>11, ThrowFails
<1>12. ~(Interrupt \/ Run \/ Finish \/ Reset)
      BY OthersDoNotFail, Zenon DEF Interrupt, Run, Finish, Reset
<1> HIDE DEF Goal
<1>13. Goal
      BY <1>1, <1>2, <1>3, <1>4, <1>5, <1>6, <1>7, <1>8, <1>9, <1>10, <1>11, <1>12, Zenon DEF Next
<1>14. QED
      BY <1>13 DEF Goal

\* Run fails only where no active instruction is protected, the last instruction of a
\* region that is an UNREACHABLE or a YIELD without a coroutine apart.
THEOREM MachineRegionCatches ==
    ASSUME ~HollowResumes
    PROVE  Spec => RegionCatches
<1> DEFINE Caught == \A k \in DOMAIN frames :
                        frames[k].region # NoRegion => k = Len(frames) /\ Unreachable
<1>1. FrameInv /\ [Next]_vars => (Failing => Caught)
  <2> SUFFICES ASSUME FrameInv, [Next]_vars, Failing, NEW k \in DOMAIN frames,
                      frames[k].region # NoRegion
               PROVE  k = Len(frames) /\ Unreachable
      OBVIOUS
  <2>1. Next
        BY OthersDoNotFail DEF vars
  <2>2. \/ Covering(Len(frames)) = {}
        \/ Unreachable /\ Covering(Len(frames) - 1) = {}
        BY <2>1, FailingActions
  <2>3. k \in 1 .. Len(frames) /\ Len(frames) \in Nat
        BY LenProperties DEF FrameInv
  <2>4. ~(Covering(Len(frames)) = {})
        BY <2>3 DEF Covering
  <2>5. ~(k \in 1 .. Len(frames) - 1)
        BY <2>2, <2>4 DEF Covering
  <2>6. k = Len(frames)
        BY <2>3, <2>5
  <2>7. QED
        BY <2>2, <2>4, <2>6
<1>2. FrameInv /\ [Next]_vars => [status = "running" /\ status' = "failed" => Caught]_vars
      BY <1>1 DEF Failing
<1>3. QED
      BY <1>2, MachineFrameInv, PTL DEF Spec, RegionCatches
=============================================================================
