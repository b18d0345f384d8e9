\* The system may really stop: nobody has to count, and everything may be answered.
CHECK_DEADLOCK FALSE
SPECIFICATION Spec
CONSTANTS
  MaxSession = 2
  MaxEvents = 2
  MaxRetry = 1
  MaxAttempts = 2
INVARIANTS
  SavedOnce
  SavedComplete
  OneAction
PROPERTIES
  RecordLeaves
  DisplayKept
