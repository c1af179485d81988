CONSTANTS
  NumTids = 1
  BufPoints = 3
  NumInfos = 2
  Activities <- Unconditional
  Triggers <- OneRate
SPECIFICATION Spec
INVARIANTS CleanDisconnect PreTrigDropsOldest
PROPERTIES ServedEnds EventLength
