CONSTANTS
  Masters = {m1, m2}
  OutSizes <- MCOutSizes
  InSizes <- MCInSizes
  VcIds = {0, 1, 2}
  MaxPackets = 3
SPECIFICATION Spec
INVARIANTS
  TypeOK
  ExactlyOnceInOrder
PROPERTIES
  ImplementsChannel
  VCsIndependent
CHECK_DEADLOCK FALSE
