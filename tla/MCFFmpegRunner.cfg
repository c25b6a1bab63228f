SPECIFICATION FairSpec
CONSTANTS
  Durations = {0, 2}
  OutTimes <- MCOutTimes
  LongLines = TRUE
  PipeSize = 2
  MaxLines = 3
  MaxErrors = 1
CHECK_DEADLOCK FALSE
INVARIANTS
  TypeOK
  NothingLeftBehind
  ReturnedIsComplete
PROPERTIES
  RunEnds
