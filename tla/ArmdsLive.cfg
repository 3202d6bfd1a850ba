SPECIFICATION FairSpec
CONSTANTS
  Tlps <- AllTlps
  MaxLength = 1
  BufferSize = 2
  MaxOffered = 2
  MaxResponses = 2
  MaxRuns = 1
PROPERTIES
  CallsReturn
  Delivered
CHECK_DEADLOCK FALSE
