-------------------------- MODULE FrameQueueProofs --------------------------
(***************************************************************************)
(* The frame ring of protocol_frame_queue.c implements the bounded FIFO    *)
(* for every capacity and every set of frames.                             *)
(***************************************************************************)
EXTENDS FrameQueue, TLAPS

(* The inductive invariant: types, cursors and written slots.              *)
RingInv == TypeOK /\ CursorsAgree /\ WaitingSlotsWritten

(* A cursor that runs past the last slot of the ring wraps exactly once    *)
(* (protocol_frame_queue.c:26, 46).                                        *)
LEMMA WrapOnce ==
  ASSUME NEW x \in Nat, x < 2 * Capacity
  PROVE  SlotAt(x) = (IF x < Capacity THEN x ELSE x - Capacity)
BY CapacityAssumption DEF SlotAt

(* Two cursors less than one lap apart stand on different slots.           *)
LEMMA SlotsDistinct ==
  ASSUME NEW h \in Slot, NEW i \in 0 .. Capacity - 1, NEW j \in 0 .. Capacity - 1, i # j
  PROVE  SlotAt(h + i) # SlotAt(h + j)
<1> USE CapacityAssumption DEF Slot
<1>1. SlotAt(h + i) = (IF h + i < Capacity THEN h + i ELSE h + i - Capacity)
  BY WrapOnce
<1>2. SlotAt(h + j) = (IF h + j < Capacity THEN h + j ELSE h + j - Capacity)
  BY WrapOnce
<1>3. QED
  BY <1>1, <1>2

(* Moving a cursor on by one and then i is moving it on by i + 1.          *)
LEMMA SlotShift ==
  ASSUME NEW h \in Slot, NEW i \in 0 .. Capacity
  PROVE  /\ SlotAt(h + i) \in Slot
         /\ SlotAt(SlotAt(h + 1) + i) = SlotAt(h + (i + 1))
         /\ SlotAt(SlotAt(h + i) + 1) = SlotAt(h + (i + 1))
         /\ SlotAt(h) = h
<1> USE CapacityAssumption DEF Slot
<1>1. SlotAt(h + i) = (IF h + i < Capacity THEN h + i ELSE h + i - Capacity)
  BY WrapOnce
<1>2. SlotAt(h + 1) = (IF h + 1 < Capacity THEN h + 1 ELSE h + 1 - Capacity)
  BY WrapOnce
<1>3. SlotAt(h) = h
  BY WrapOnce
<1>4. CASE h + i + 1 < 2 * Capacity
  <2>1. SlotAt(h + (i + 1)) = (IF h + i + 1 < Capacity THEN h + i + 1 ELSE h + i + 1 - Capacity)
    BY <1>4, WrapOnce
  <2>2. SlotAt(SlotAt(h + 1) + i) = SlotAt(h + (i + 1))
    <3> DEFINE a == SlotAt(h + 1) + i
    <3>1. a \in Nat /\ a < 2 * Capacity
      BY <1>2, <1>4
    <3>2. SlotAt(a) = (IF a < Capacity THEN a ELSE a - Capacity)
      BY <3>1, WrapOnce
    <3>3. QED
      BY <1>2, <1>4, <2>1, <3>2
  <2>3. SlotAt(SlotAt(h + i) + 1) = SlotAt(h + (i + 1))
    <3> DEFINE b == SlotAt(h + i) + 1
    <3>1. b \in Nat /\ b < 2 * Capacity
      BY <1>1, <1>4
    <3>2. SlotAt(b) = (IF b < Capacity THEN b ELSE b - Capacity)
      BY <3>1, WrapOnce
    <3>3. QED
      BY <1>1, <1>4, <2>1, <3>2
  <2>4. QED
    BY <1>1, <1>3, <2>2, <2>3
<1>5. CASE h + i + 1 = 2 * Capacity
  <2>1. h = Capacity - 1 /\ i = Capacity
    BY <1>5
  <2>2. SlotAt(2 * Capacity) = 0
    BY DEF SlotAt
  <2>3. SlotAt(Capacity) = 0
    BY WrapOnce
  <2>4. SlotAt(h + 1) = 0 /\ SlotAt(h + i) = Capacity - 1
    BY <1>1, <1>2, <2>1
  <2>5. SlotAt(h + (i + 1)) = 0
    BY <2>1, <2>2
  <2>6. QED
    BY <1>3, <2>1, <2>3, <2>4, <2>5
<1>6. QED
  BY <1>4, <1>5

-----------------------------------------------------------------------------
(* The inductive invariant holds initially.                                *)
LEMMA RingInvInit == Init => RingInv
<1> SUFFICES ASSUME Init PROVE RingInv
  OBVIOUS
<1> USE CapacityAssumption DEF Init, InitRing
<1>1. TypeOK
  BY DEF TypeOK, Slot
<1>2. CursorsAgree
  BY WrapOnce DEF CursorsAgree
<1>3. WaitingSlotsWritten
  BY DEF WaitingSlotsWritten
<1>4. QED
  BY <1>1, <1>2, <1>3 DEF RingInv

(* An accepted push keeps the cursors together and writes the slot it adds *)
(* to the waiting ones (protocol_frame_queue.c:23-28).                     *)
LEMMA PushKeepsRing ==
  ASSUME RingInv, NEW f \in Frame, Push(f)
  PROVE  RingInv'
<1> USE CapacityAssumption DEF Push
<1>1. g_head \in Slot /\ g_tail \in Slot /\ g_count \in 0 .. Capacity - 1
  BY DEF RingInv, TypeOK, Slot
<1>2. g_tail = SlotAt(g_head + g_count)
  BY DEF RingInv, CursorsAgree
<1>3. SlotAt(g_tail + 1) = SlotAt(g_head + (g_count + 1)) /\ SlotAt(g_tail + 1) \in Slot
  BY <1>1, <1>2, SlotShift, 1 \in 0 .. Capacity
<1>4. TypeOK'
  BY <1>1, <1>3 DEF RingInv, TypeOK
<1>5. CursorsAgree'
  BY <1>3 DEF CursorsAgree
<1>6. WaitingSlotsWritten'
  <2> SUFFICES ASSUME NEW i \in 0 .. g_count
               PROVE  g_frames'[SlotAt(g_head + i)] \in Frame
    BY <1>1 DEF WaitingSlotsWritten
  <2>1. CASE i = g_count
    BY <1>1, <1>2, <2>1 DEF RingInv, TypeOK
  <2>2. CASE i \in 0 .. g_count - 1
    <3>1. SlotAt(g_head + i) # g_tail
      BY <1>1, <1>2, <2>2, SlotsDistinct
    <3>2. g_frames[SlotAt(g_head + i)] \in Frame
      BY <2>2 DEF RingInv, WaitingSlotsWritten
    <3>3. SlotAt(g_head + i) \in Slot
      BY <1>1, <2>2, SlotShift
    <3>4. QED
      BY <3>1, <3>2, <3>3 DEF RingInv, TypeOK
  <2>3. QED
    BY <1>1, <2>1, <2>2
<1>7. QED
  BY <1>4, <1>5, <1>6 DEF RingInv

(* A pop moves the oldest frame out and keeps the rest waiting             *)
(* (protocol_frame_queue.c:44-49).                                         *)
LEMMA PopKeepsRing ==
  ASSUME RingInv, Pop
  PROVE  RingInv'
<1> USE CapacityAssumption DEF Pop
<1>1. g_head \in Slot /\ g_count \in 1 .. Capacity
  BY DEF RingInv, TypeOK, Slot
<1>2. g_head' \in Slot
  BY <1>1, SlotShift, 1 \in 0 .. Capacity
<1>3. \A i \in 0 .. g_count - 1 : SlotAt(g_head' + i) = SlotAt(g_head + (i + 1))
  BY <1>1, SlotShift
<1>4. TypeOK'
  <2>1. g_frames[g_head] \in Frame \cup {NoFrame}
    BY <1>1 DEF RingInv, TypeOK
  <2>2. QED
    BY <1>1, <1>2, <2>1 DEF RingInv, TypeOK
<1>5. CursorsAgree'
  <2>1. g_count - 1 \in 0 .. g_count - 1 /\ (g_count - 1) + 1 = g_count
    BY <1>1
  <2>2. SlotAt(g_head' + (g_count - 1)) = SlotAt(g_head + g_count)
    BY <1>3, <2>1
  <2>3. QED
    BY <2>2 DEF RingInv, CursorsAgree
<1>6. WaitingSlotsWritten'
  <2> SUFFICES ASSUME NEW i \in 0 .. g_count - 2
               PROVE  g_frames[SlotAt(g_head' + i)] \in Frame
    BY <1>1 DEF WaitingSlotsWritten
  <2>1. i + 1 \in 0 .. g_count - 1 /\ i \in 0 .. g_count - 1
    BY <1>1
  <2>2. QED
    BY <1>3, <2>1 DEF RingInv, WaitingSlotsWritten
<1>7. QED
  BY <1>4, <1>5, <1>6 DEF RingInv

(* A clear puts the cursors back together on slot 0                        *)
(* (protocol_frame_queue.c:57-61).                                         *)
LEMMA ClearKeepsRing ==
  ASSUME RingInv, Clear
  PROVE  RingInv'
<1> USE CapacityAssumption DEF Clear
<1>1. TypeOK'
  BY DEF RingInv, TypeOK, Slot
<1>2. CursorsAgree'
  BY WrapOnce DEF CursorsAgree
<1>3. WaitingSlotsWritten'
  BY DEF WaitingSlotsWritten
<1>4. QED
  BY <1>1, <1>2, <1>3 DEF RingInv

(* Every call on the ring preserves the inductive invariant.               *)
LEMMA RingInvStep == RingInv /\ [Next]_queueVars => RingInv'
<1> SUFFICES ASSUME RingInv, [Next]_queueVars PROVE RingInv'
  OBVIOUS
<1>1. CASE UNCHANGED queueVars
  BY <1>1 DEF queueVars, RingInv, TypeOK, CursorsAgree, WaitingSlotsWritten
<1>2. CASE PushRefused
  BY <1>1, <1>2 DEF PushRefused, queueVars, RingInv, TypeOK, CursorsAgree, WaitingSlotsWritten
<1>3. QED
  BY <1>1, <1>2, PushKeepsRing, PopKeepsRing, ClearKeepsRing DEF Next

(* The cursors never leave the array and the slots only ever hold frames.  *)
THEOREM RingTyped == Spec => []TypeOK
<1>1. RingInv => TypeOK
  BY DEF RingInv
<1>2. QED
  BY <1>1, RingInvInit, RingInvStep, PTL DEF Spec

(* The cursors always agree on how many frames wait.                       *)
THEOREM RingCursors == Spec => []CursorsAgree
<1>1. RingInv => CursorsAgree
  BY DEF RingInv
<1>2. QED
  BY <1>1, RingInvInit, RingInvStep, PTL DEF Spec

(* Whatever pop() may copy out next is a frame push() validated.           *)
THEOREM RingWritten == Spec => []WaitingSlotsWritten
<1>1. RingInv => WaitingSlotsWritten
  BY DEF RingInv
<1>2. QED
  BY <1>1, RingInvInit, RingInvStep, PTL DEF Spec

-----------------------------------------------------------------------------
(* The abstract state is a sequence of frames, as long as g_count says.    *)
LEMMA ContentsIsSeq ==
  ASSUME RingInv
  PROVE  Contents \in Seq(Frame) /\ Len(Contents) = g_count
<1>1. g_count \in Nat
  BY CapacityAssumption DEF RingInv, TypeOK
<1>2. \A i \in 1 .. g_count : g_frames[SlotAt(g_head + i - 1)] \in Frame
  <2> SUFFICES ASSUME NEW i \in 1 .. g_count
               PROVE  g_frames[SlotAt(g_head + i - 1)] \in Frame
    OBVIOUS
  <2>1. i - 1 \in 0 .. g_count - 1
    BY <1>1
  <2>2. g_head + i - 1 = g_head + (i - 1)
    BY <1>1, CapacityAssumption DEF RingInv, TypeOK, Slot
  <2>3. QED
    BY <2>1, <2>2 DEF RingInv, WaitingSlotsWritten
<1>3. QED
  BY <1>1, <1>2 DEF Contents

(* The empty ring is the empty queue.                                      *)
LEMMA FifoInit == Init => Fifo!Init
<1> SUFFICES ASSUME Init PROVE Fifo!Init
  OBVIOUS
<1>1. Contents = <<>>
  BY DEF Init, InitRing, Contents
<1>2. QED
  BY <1>1 DEF Fifo!Init, Init

(* An accepted push appends at the young end.                              *)
LEMMA PushAccepts ==
  ASSUME RingInv, NEW f \in Frame, Push(f)
  PROVE  Fifo!Accept(f)
<1> USE CapacityAssumption DEF Push
<1>1. g_head \in Slot /\ g_tail \in Slot /\ g_count \in 0 .. Capacity - 1
  BY DEF RingInv, TypeOK, Slot
<1>2. Contents \in Seq(Frame) /\ Len(Contents) = g_count
  BY ContentsIsSeq
<1>3. RingInv'
  BY PushKeepsRing
<1>4. Contents' \in Seq(Frame) /\ Len(Contents') = g_count + 1
  <2>1. (Contents \in Seq(Frame) /\ Len(Contents) = g_count)'
    BY <1>3, ContentsIsSeq, PTL
  <2>2. QED
    BY <2>1
<1>5. \A i \in 1 .. g_count + 1 : Contents'[i] = (IF i = g_count + 1 THEN f ELSE Contents[i])
  <2> SUFFICES ASSUME NEW i \in 1 .. g_count + 1
               PROVE  g_frames'[SlotAt(g_head + i - 1)]
                        = (IF i = g_count + 1 THEN f ELSE g_frames[SlotAt(g_head + i - 1)])
    BY <1>1 DEF Contents
  <2>1. g_head + i - 1 = g_head + (i - 1) /\ i - 1 \in 0 .. Capacity - 1
    BY <1>1 DEF Slot
  <2>2. g_tail = SlotAt(g_head + g_count)
    BY DEF RingInv, CursorsAgree
  <2>3. CASE i = g_count + 1
    BY <1>1, <2>1, <2>2, <2>3 DEF RingInv, TypeOK
  <2>4. CASE i # g_count + 1
    <3>1. SlotAt(g_head + (i - 1)) # g_tail
      BY <1>1, <2>1, <2>2, <2>4, SlotsDistinct
    <3>2. SlotAt(g_head + (i - 1)) \in Slot
      BY <1>1, <2>1, SlotShift
    <3>3. QED
      BY <2>1, <2>4, <3>1, <3>2 DEF RingInv, TypeOK
  <2>5. QED
    BY <2>3, <2>4
<1>6. Contents' = Append(Contents, f)
  BY <1>1, <1>2, <1>4, <1>5
<1>7. QED
  BY <1>1, <1>2, <1>6 DEF Fifo!Accept

(* A pop takes the oldest frame.                                           *)
LEMMA PopTakes ==
  ASSUME RingInv, Pop
  PROVE  Fifo!Take
<1> USE CapacityAssumption DEF Pop
<1>1. g_head \in Slot /\ g_count \in 1 .. Capacity
  BY DEF RingInv, TypeOK, Slot
<1>2. Contents \in Seq(Frame) /\ Len(Contents) = g_count
  BY ContentsIsSeq
<1>3. RingInv'
  BY PopKeepsRing
<1>4. Contents' \in Seq(Frame) /\ Len(Contents') = g_count - 1
  <2>1. (Contents \in Seq(Frame) /\ Len(Contents) = g_count)'
    BY <1>3, ContentsIsSeq, PTL
  <2>2. QED
    BY <2>1
<1>5. Contents # <<>> /\ Head(Contents) = g_frames[g_head]
  <2>1. SlotAt(g_head + 1 - 1) = g_head
    <3>1. g_head + 1 - 1 = g_head
      BY <1>1 DEF Slot
    <3>2. QED
      BY <1>1, <3>1, SlotShift, 0 \in 0 .. Capacity
  <2>2. Contents[1] = g_frames[g_head]
    BY <1>1, <2>1 DEF Contents
  <2>3. QED
    BY <1>1, <1>2, <2>2
<1>6. \A i \in 1 .. g_count - 1 : Contents'[i] = Contents[i + 1]
  <2> SUFFICES ASSUME NEW i \in 1 .. g_count - 1
               PROVE  g_frames[SlotAt(g_head' + i - 1)] = g_frames[SlotAt(g_head + (i + 1) - 1)]
    BY <1>1 DEF Contents
  <2>1. i - 1 \in 0 .. Capacity /\ g_head \in Nat /\ g_head' \in Nat
    BY <1>1, <1>3 DEF RingInv, TypeOK, Slot
  <2>2. SlotAt(SlotAt(g_head + 1) + (i - 1)) = SlotAt(g_head + ((i - 1) + 1))
    BY <1>1, <2>1, SlotShift
  <2>3. g_head' + i - 1 = g_head' + (i - 1) /\ g_head + (i + 1) - 1 = g_head + ((i - 1) + 1)
    BY <2>1
  <2>4. QED
    BY <2>2, <2>3
<1>7. Contents' = Tail(Contents)
  BY <1>1, <1>2, <1>4, <1>6
<1>8. QED
  BY <1>5, <1>7 DEF Fifo!Take

(* Every call of the ring is a step of the bounded FIFO or changes nothing *)
(* it shows.                                                               *)
LEMMA FifoStep == RingInv /\ [Next]_queueVars => [Fifo!Next]_(Fifo!fifoVars)
<1> SUFFICES ASSUME RingInv, [Next]_queueVars PROVE [Fifo!Next]_(Fifo!fifoVars)
  OBVIOUS
<1>1. CASE UNCHANGED queueVars
  BY <1>1 DEF queueVars, Fifo!fifoVars, Contents
<1>2. CASE PushRefused
  BY <1>2 DEF PushRefused, queueVars, Fifo!fifoVars, Contents
<1>3. CASE Clear
  <2>1. Contents' = <<>>
    BY <1>3 DEF Clear, Contents
  <2>2. QED
    BY <1>3, <2>1 DEF Clear, Fifo!Next, Fifo!Discard
<1>4. CASE Pop
  BY <1>4, PopTakes DEF Fifo!Next
<1>5. CASE \E f \in Frame : Push(f)
  BY <1>5, PushAccepts DEF Fifo!Next
<1>6. QED
  BY <1>1, <1>2, <1>3, <1>4, <1>5 DEF Next

(* The ring implements the bounded FIFO for every capacity: frames reach   *)
(* the main loop in the order the receive thread pushed them, each once    *)
(* and unaltered, across every wrap-around and clear.                      *)
THEOREM RingIsFifo == Spec => ImplementsFifo
BY FifoInit, FifoStep, RingInvInit, RingInvStep, PTL DEF Spec, ImplementsFifo, Fifo!Spec
=============================================================================
