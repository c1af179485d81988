CONSTANTS
  NumTids = 3
  BufPoints = 2
  NumInfos = 1
  Activities <- Unconditional
  Triggers <- OneShotOnly
SPECIFICATION Spec
INVARIANT FinalFlush
