SPECIFICATION Spec
CONSTANTS
  Tlp <- LoopTlps
  NoData = NoData
  Filters <- LoopFilters
  PayloadSize = 2
  InitialCapacity = 1
  SnifferSlots = 3
  AddrMax = 4
  MaxRequests = 0
  MaxSent = 0
  MaxReceived = 3
  MaxRegistrations = 4
INVARIANTS
  RxRangeCovers
CHECK_DEADLOCK FALSE
