SPECIFICATION Spec
CONSTANTS
  Tlps <- AllTlps
  MaxLength = 1
  BufferSize = 8
  MaxOffered = 2
  MaxResponses = 0
  MaxRuns = 1
INVARIANTS
  OnlySentTlps
CHECK_DEADLOCK FALSE
