CONSTANTS
  Sections = {1}
  Values = {0}
  Requests <- Sessions
  LowMemory = {}
  MaxPkts = 3
  MaxConns = 1
SPECIFICATION Spec
PROPERTIES ClosedIsDropped
