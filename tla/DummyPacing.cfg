SPECIFICATION Spec
CONSTANTS
  Second = 3
  Rates <- MixedRates
  Latencies <- SomeLatencies
  Limit = 2
  Burst = 1
  MaxClock = 7
  MaxPassed = 3
INVARIANTS
  TypeOK
  TwoPerInterval
  DelayBounded
