CONSTANTS
  Masters = {m1}
  OutSizes <- MCOutSizes
  InSizes <- MCInSizes
  VcIds = {0, 1}
  MaxPackets = 2
SPECIFICATION FairSpec
PROPERTIES
  BufferedIsSent
CHECK_DEADLOCK FALSE
