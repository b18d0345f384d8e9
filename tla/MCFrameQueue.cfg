SPECIFICATION Spec
CONSTANTS
  Capacity = 4
  Frame = {f1, f2, f3}
  NoFrame = NoFrame
PROPERTY
  ImplementsFifo
SYMMETRY FrameSymmetry
