SPECIFICATION Spec
CONSTANTS
  a = a
  b = b
  c = c
  r = r
  u = u
  z = z
  x = x
  y = y
  g = g
  h = h
  mem = mem
  io = io
  Sources = {a, b, c}
  Crossbars = {x, y}
  Arbiters = {g, h}
  Routers = {r, u, z}
  Targets = {mem, io}
  Wires <- MCWires
  Programs <- MCPrograms
  OutSize = 1
  InSize = 1
INVARIANTS
  PacketsAccounted
  InOrder
PROPERTY NoHeadOfLineBlocking
CHECK_DEADLOCK FALSE
