CONSTANTS
  NumBlocks = 2
  MaxIdx = 3
  MaxRecords = 4
SPECIFICATION Spec
INVARIANTS OwnFile
