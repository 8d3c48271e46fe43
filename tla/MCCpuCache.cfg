SPECIFICATION CacheSpec
CONSTANTS
  cpu0 = cpu0
  cpu1 = cpu1
  Null = Null
  Cpus = {cpu0, cpu1}
  Generators = {}
  MaxPackets = 8
  MaxInflight = 2
  NumRequests = 2
  OutSize = 1
  InSize = 1
  MaxTries = 3
  MaxBuffer = 1
INVARIANT OriginalInUse
CHECK_DEADLOCK FALSE
