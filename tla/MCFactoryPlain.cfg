SPECIFICATION Spec
CONSTANTS
  None = None
  cpu = cpu
  mem = mem
  sub = sub
  in = in
  out = out
  cpus = cpus
  mems = mems
  Port = Port
  Bare = Bare
  Module = Module
  Unknown = Unknown
  main = main
  more = more
  own = own
  inner = inner
  ObjectTypes = {Port, Bare}
  ModuleTypes = {Module}
  PortTypes = {Port}
  Files = {main, more, own, inner}
  FileSystems <- MCFileSystems
  MaxDepth = 5
INVARIANT ConnectionsConnect
CHECK_DEADLOCK FALSE
