CONSTANTS
  BufSize = 10
  HdrLen = 2
  PointLens = {2, 4, 6}
  SectionLens = {1, 3}
  PreDurations = {1}
  StreamBound = 16
SPECIFICATION Spec
PROPERTY PreTrigKeepsNewest
