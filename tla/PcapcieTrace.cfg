SPECIFICATION Spec
CONSTANTS
  Tlp <- TraceTlps
  NoData = NoData
  Filters <- LoopFilters
  PayloadSize = 2
  InitialCapacity = 1
  SnifferSlots = 1
  AddrMax = 4
  MaxRequests = 5
  MaxSent = 1
  MaxReceived = 1
  MaxRegistrations = 0
INVARIANTS
  TypeOK
  TraceMemoryBounded
PROPERTIES
  ImplementsLog
