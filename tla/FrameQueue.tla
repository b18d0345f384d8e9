----------------------------- MODULE FrameQueue -----------------------------
(***************************************************************************)
(* src/un260/protocol/protocol_frame_queue.c: the ring of received frames  *)
(* between the UART4 receive thread (push) and the main loop (pop).  Each  *)
(* function holds g_mutex from its first to its last access of the ring,   *)
(* so one call is one action.                                              *)
(***************************************************************************)
EXTENDS Naturals, Sequences

CONSTANTS
  Capacity, \* PROTOCOL_FRAME_QUEUE_CAPACITY
  Frame,    \* the frames protocol_frame_is_valid() accepts
  NoFrame   \* a slot never written, a consumer that popped nothing

ASSUME CapacityAssumption == Capacity \in Nat \ {0}
ASSUME NoFrameAssumption == NoFrame \notin Frame

VARIABLES
  g_frames, \* the slots
  g_head,   \* the slot the next pop reads
  g_tail,   \* the slot the next push writes
  g_count,  \* how many slots are waiting
  popped    \* the main loop's local: the last frame pop() copied out

ring == <<g_frames, g_head, g_tail, g_count>>
queueVars == <<g_frames, g_head, g_tail, g_count, popped>>

Slot == 0 .. Capacity - 1

(* The slot a cursor that has moved x places from slot 0 stands on.        *)
SlotAt(x) == x % Capacity

InitRing ==
  /\ g_frames = [s \in Slot |-> NoFrame]
  /\ g_head = 0
  /\ g_tail = 0
  /\ g_count = 0

Init == InitRing /\ popped = NoFrame

(* protocol_frame_queue_push() of a valid frame with room left.            *)
Push_OffByOne(f) == \* mutant: accepts one frame too many
  /\ g_count <= Capacity
  /\ g_frames' = [g_frames EXCEPT ![g_tail] = f]
  /\ g_tail' = SlotAt(g_tail + 1)
  /\ g_count' = g_count + 1
  /\ UNCHANGED <<g_head, popped>>

Push(f) ==
  /\ g_count < Capacity
  /\ g_frames' = [g_frames EXCEPT ![g_tail] = f]
  /\ g_tail' = SlotAt(g_tail + 1)
  /\ g_count' = g_count + 1
  /\ UNCHANGED <<g_head, popped>>

(* push() returns false on a full ring and leaves it alone.                *)
PushRefused ==
  /\ g_count = Capacity
  /\ UNCHANGED <<g_frames, g_head, g_tail, g_count, popped>>

(* protocol_frame_queue_pop() with a frame waiting.                        *)
Pop ==
  /\ g_count > 0
  /\ popped' = g_frames[g_head]
  /\ g_head' = SlotAt(g_head + 1)
  /\ g_count' = g_count - 1
  /\ UNCHANGED <<g_frames, g_tail>>

(* protocol_frame_queue_clear(): the cursors only, the slots keep their    *)
(* bytes.                                                                  *)
Clear ==
  /\ g_head' = 0
  /\ g_tail' = 0
  /\ g_count' = 0
  /\ UNCHANGED <<g_frames, popped>>

Next == (\E f \in Frame : Push(f)) \/ PushRefused \/ Pop \/ Clear

Spec == Init /\ [][Next]_queueVars

-----------------------------------------------------------------------------
(* The frames waiting, oldest first: the abstract state of the ring.       *)
Contents == [i \in 1 .. g_count |-> g_frames[SlotAt(g_head + i - 1)]]

Fifo == INSTANCE BoundedFifo WITH waiting <- Contents, taken <- popped

(* The ring behaves as the bounded FIFO: no frame the receive thread       *)
(* pushed reaches the main loop out of order, twice or altered, whatever   *)
(* the wrap-around and the clears (protocol_frame_queue.c:14-62).          *)
ImplementsFifo == Fifo!Spec

(* The three cursors always agree: the next free slot is g_count slots     *)
(* after the oldest frame.  push() trusts g_tail and pop() trusts g_head   *)
(* without looking at the other (protocol_frame_queue.c:23-28, 44-49).     *)
CursorsAgree == g_tail = SlotAt(g_head + g_count)

(* A slot between the cursors holds a frame, never stale or unwritten      *)
(* memory: what pop() copies out is always something push() validated.     *)
WaitingSlotsWritten ==
  \A i \in 0 .. g_count - 1 : g_frames[SlotAt(g_head + i)] \in Frame

(* The cursors stay inside the array of protocol_frame_queue.c:8-11 and    *)
(* the slots hold frames or what they held at start-up.                    *)
TypeOK ==
  /\ g_frames \in [Slot -> Frame \cup {NoFrame}]
  /\ g_head \in Slot
  /\ g_tail \in Slot
  /\ g_count \in 0 .. Capacity
  /\ popped \in Frame \cup {NoFrame}
=============================================================================
