CONSTANTS
  BufSize = 12
  HdrLen = 2
  PointLens = {2, 4, 7}
  SectionLens = {1, 3}
  PreDurations = {0, 2}
  StreamBound = 21
SPECIFICATION Spec
INVARIANTS IndicesInRange Intact EmptyIsExact PreTrigWindow
PROPERTIES OverFlowIsExplained ImplementsStream Terminates

