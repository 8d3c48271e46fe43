SPECIFICATION Spec
CONSTANTS
  DATA_SIZE = 2
  Columns = 2
  Rows = 2
  p1 = p1
  p2 = p2
  Packets = {p1, p2}
  Traffic <- MCTraffic
INVARIANTS
  TypeOK
  OnRoute
  Handshake
  FlitsExactlyOnce
  InOrder
  TailCompletesPacket
  SplittersAgree
PROPERTY Delivery
