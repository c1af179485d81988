CONSTANTS
  Sections = {1}
  Values = {0}
  Requests <- Unknown
  LowMemory = {}
  MaxPkts = 3
  MaxConns = 1
SPECIFICATION Spec
INVARIANTS HaveAPacket
