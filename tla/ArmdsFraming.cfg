SPECIFICATION Spec
CONSTANTS
  Tlps <- AllTlps
  MaxLength = 1
  BufferSize = 4
  MaxOffered = 2
  MaxResponses = 2
  MaxRuns = 2
INVARIANTS
  TypeOK
  TxFraming
  RxFraming
CHECK_DEADLOCK FALSE
