CONSTANTS
  NumTids = 1
  BufPoints = 2
  NumInfos = 2
  Activities <- Unconditional
  Triggers <- OneShotOnly
SPECIFICATION Spec
PROPERTY EventsEnd
