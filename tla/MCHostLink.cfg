CONSTANTS
  Sections = {1, 2}
  Values = {0, 1, 2}
  Requests <- All
  LowMemory = {"buffer", "connect", "select"}
  MaxPkts = 3
  MaxConns = 2
SPECIFICATION Spec
INVARIANTS HaveAPacket BufferHolds HandshakeIsFresh
PROPERTIES ImplementsRequests BrokenIsDropped AnsweredOrGone
