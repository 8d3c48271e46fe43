CONSTANTS
  Packets = {p1, p2, p3, p4}
  Payloads = {d1, d2, d3, d4}
  MaxSize = 2
  None = None
SYMMETRY Addresses
SPECIFICATION Spec
INVARIANTS
  TypeOK
  PacketsAccounted
  PayloadsAccounted
  UsageIsHeld
  DeletedReadOnlyAfterOverflow
CHECK_DEADLOCK FALSE
