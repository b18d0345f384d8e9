CONSTANTS
  MaxFrames = 2
  MaxRecordings = 2
SPECIFICATION Spec
INVARIANTS
  StateTrue
  EachReported
  SavedTrue
PROPERTIES
  StopEnds
