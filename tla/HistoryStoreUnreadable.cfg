SPECIFICATION HistorySpec
CONSTANTS
  MaxRecords = 3
  MaxSession = 5
  MaxEdits = 2
  MaxFaults = 2
  Unreadable = TRUE
INVARIANT
  RestartAgrees
\* The user and the notes may come to an end.
CHECK_DEADLOCK FALSE
