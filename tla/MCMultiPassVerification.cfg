CONSTANTS
  Results <- ModelResults
  MinPasses = 2
  MaxPasses = 3
  MaxCounts = 3
SPECIFICATION Spec
INVARIANTS
  TaskSound
  PassesAreCounts
  VerdictTrue
  PromptTrue
  PendingShown
