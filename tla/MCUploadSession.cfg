CONSTANTS
  NumTids = 2
  BufPoints = 2
  NumInfos = 1
  Activities <- Conditional
  Triggers <- TwoRates
SPECIFICATION Spec
INVARIANTS TypeOK CancelSticks FinalFlush NoDataAfterEnd ListedIsHeld
PROPERTIES EventLength FlushedIsQuiet
