SPECIFICATION ParserSpec
CONSTANTS
  Byte = {0, 2, 5, 6, 7}
  FIRST = 7
  SECOND = 2
  MinSize = 5
  MaxSize = 7
INVARIANTS
  AcceptedHeaderCompletes
  ReadyIsContiguous
  OutsideFrameNeverMissed
