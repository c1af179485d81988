CONSTANTS
  NumTids = 3
  Selections <- Some
  Widths <- OneSection
  RealSize = 8
  Values = {0, 1, 2}
  Level = 1
SPECIFICATION MemorySpec
INVARIANTS NoLeak AssertsHold AllOrNothing ArmedHasMemory
PROPERTIES FiresOnCrossing
