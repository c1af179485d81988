CONSTANTS
  RxBufSize = 3
  Blocks <- Two
  Framed <- JustA
  Size <- EqualSizes
  Header <- TwoBytes
  Stream <- NoisyAndPlain
SPECIFICATION Spec
INVARIANTS StatusMeansData
