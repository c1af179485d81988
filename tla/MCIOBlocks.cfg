CONSTANTS
  RxBufSize = 3
  MaxIdx = 3
  MaxRecords = 10
  Lines <- Two
  Framed <- JustA
  Size <- EqualSizes
  Header <- TwoBytes
  Stream <- NoisyAndPlain
  Models <- Apart
  MaxBlocks = 3
  MaxSteps = 7
SPECIFICATION Spec
INVARIANTS FileInOrder FileComplete MessagesAreGenuine InTurn
