SPECIFICATION Spec
CONSTANTS
  Settings = {"speed", "add", "batch", "double_note", "serial_number", "flap", "reject_pocket"}
  Values = {"low", "mid", "high"}
  Timeout = 1
  MaxRequests = 3
  MaxFaults = 1
  MaxInFlight = 2
INVARIANTS
  MirrorTrue
  NeverInvented
  DisplayAgrees
PROPERTY EveryRequestEnds
\* The user and the controller may come to an end.
CHECK_DEADLOCK FALSE
