SPECIFICATION Spec
CONSTANTS
  Part <- Parts
  a = a
  b = b
  Run = {a, b}
  NoRun = NoRun
  Text <- Lines
  Noise = "noise"
  CutOf <- Cut
  MaxLaunch = 3
  MaxLines <- LinesOfRun
  Row <- SomeRows
  Registers <- SomeRegisters
  Enumerated = 2
  MaxRows = 3
  Record <- SomeRecords
  LiveRow <- SomeLive
  MaxRecords = 3
  MaxWrites = 2
INVARIANTS
  JobEnded
  LockNotStale
  RowsFollowFile
  SummaryOfRun
  Reported
  DisplayTrue
  ReadersAgree
PROPERTIES
  RunnerEnds
  CaughtUp
  Released
CHECK_DEADLOCK FALSE
