SPECIFICATION Spec
CONSTANTS
  Part <- Parts
  Tlp <- Completions
  NoData = NoData
  MAX_COMPLETIONS = 3
  DataSize = 2
  XgigContext = {1, 2}
  Length = {0, 1}
  MaxSends = 4
  Context = {1, 2, 3}
  PollLimit = 3
  Tag = {0, 1, 2, 3}
  MaxOpens = 4
  a = a
  b = b
  Writer = {a, b}
  MaxWrites = 4
  Links <- SomeLinks
  Targets <- SomeTargets
  Accesses <- Tlps
  Unit = {0, 1}
  Size = 5
  MaxLength = 3
  Dword = 2
  Registers = 2
  MaxAccesses = 2
  Place <- Places
  Ones = 255
  HopLimit = 3
  SpeedCode <- Codes
  MaxChanges = 1
  MaxQueries = 1
  NoNumber = NoNumber
  Speeds <- SomeSpeeds
  Widths <- SomeWidths
  Names <- SomeNames
  Durations <- SomeDurations
  MaxItems = 2
INVARIANTS
  RingInv
  AccessExact
  FoundIfReachable
  NoUseAfterFree
  Framing
  AccessMapped
  HandlesReleased
  LinkAsConfigured
  TableHonest
  PassEarned
PROPERTIES
  ImplementsFifo
  GoneIsNoticed
  PciReturns
  Settles
  CallsReturn
CHECK_DEADLOCK FALSE
