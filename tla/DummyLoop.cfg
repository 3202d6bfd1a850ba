SPECIFICATION DummySpec
CONSTANTS
  Limit = 3
  Tlp <- DummyTlps
  NoData = NoData
  Filters <- DummyFilters
  PayloadSize = 1
  InitialCapacity = 2
  SnifferSlots = 2
  AddrMax = 8192
  MaxRequests = 2
  MaxSent = 1
  MaxReceived = 3
  MaxRegistrations = 2
INVARIANTS
  ShownOnce
PROPERTIES
  LoopReturns
