SPECIFICATION RejectSpec
CONSTANT MaxPocket = 3
INVARIANTS
  SplitIsTrue
