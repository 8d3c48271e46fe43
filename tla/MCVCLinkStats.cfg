CONSTANTS
  Masters = {m1, m2}
  OutSizes <- MCOutSizes
  InSizes <- MCInSizes
  VcIds = {0, 1, 2}
  MaxPackets = 1
  None = None
  UINT64_MAX = 99
  MaxCycle = 2
  MaxTries = 1
SPECIFICATION StatsSpec
INVARIANTS
  StatsTypeOK
  VCStatsBalance
  AttemptsAccounted
  DelayBounds
CHECK_DEADLOCK FALSE
