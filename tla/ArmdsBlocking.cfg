SPECIFICATION Spec
CONSTANTS
  Tlps <- AllTlps
  MaxLength = 1
  BufferSize = 8
  MaxOffered = 2
  MaxResponses = 2
  MaxRuns = 2
INVARIANTS
  BlockingRestored
CHECK_DEADLOCK FALSE
