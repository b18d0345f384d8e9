---------------------------- MODULE BoundedFifo ----------------------------
(***************************************************************************)
(* What the protocol frame queue promises its two users, the UART4 receive *)
(* thread and the main loop: frames leave in the order they were accepted, *)
(* none is duplicated or altered, a frame that arrives when Capacity       *)
(* frames are waiting is refused and changes nothing, and a clear discards *)
(* everything that was waiting.                                            *)
(***************************************************************************)
EXTENDS Naturals, Sequences

CONSTANTS
  Capacity, \* how many frames may wait
  Frame,    \* the valid frames
  NoFrame   \* what the consumer holds before its first frame

VARIABLES
  waiting,  \* the frames accepted and not yet taken, oldest first
  taken     \* the frame the consumer took last

fifoVars == <<waiting, taken>>

Init == waiting = <<>> /\ taken = NoFrame

Accept(f) ==
  /\ Len(waiting) < Capacity
  /\ waiting' = Append(waiting, f)
  /\ UNCHANGED taken

Take ==
  /\ waiting # <<>>
  /\ taken' = Head(waiting)
  /\ waiting' = Tail(waiting)

Discard == waiting' = <<>> /\ UNCHANGED taken

Next == (\E f \in Frame : Accept(f)) \/ Take \/ Discard

Spec == Init /\ [][Next]_fifoVars
=============================================================================
