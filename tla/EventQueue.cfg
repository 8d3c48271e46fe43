CONSTANTS
  Chains = {c1, c2}
  Lambdas = {l1, l2}
  Delays = {1, 3}
  Runs = {0, 1, 3}
  MaxCycle = 5
SPECIFICATION FairSpec
INVARIANTS
  TypeOK
  NoEventInThePast
  ClockMatchesRuns
  NoTickMissed
PROPERTIES
  FireOnTime
  RunReturns
CHECK_DEADLOCK FALSE
