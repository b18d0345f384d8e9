---------------------------- MODULE MCFrameQueue ----------------------------
(* The frame ring with four slots and three interchangeable frames.       *)
EXTENDS FrameQueue, TLC

FrameSymmetry == Permutations(Frame)
=============================================================================
