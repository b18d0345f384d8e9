SPECIFICATION Spec
CONSTANTS
  Capacity = 2
  MaxSession = 2
  FrameLength = 2
INVARIANTS
  NoUseAfterClose
  OneSenderMidFrame
  AllOrNothing
PROPERTIES
  OnlyThisSession
  StopReturns
\* after MaxSession sessions there is nothing left to call
CHECK_DEADLOCK FALSE
