SPECIFICATION Spec
CONSTANTS
  cpu = cpu
  tg = tg
  Null = Null
  Cpus = {cpu}
  Generators = {tg}
  MaxPackets = 8
  MaxInflight = 3
  NumRequests = 2
  OutSize = 1
  InSize = 1
  MaxTries = 4
INVARIANTS
  TypeOK
  NoUndefinedBehaviour
  InflightIsOutstanding
  ResponseToRequester
  InUseOnce
PROPERTY Answering
CHECK_DEADLOCK FALSE
