SPECIFICATION Spec
CONSTANTS
  Second = 1
  Rates <- OneRate
  Latencies <- NoLatency
  Limit = 2
  Burst = 2
  MaxClock = 8
  MaxPassed = 9
INVARIANTS
  RateKept
