CONSTANTS
  RxBufSize = 3
  Blocks <- Two
  Framed <- Two
  Size <- TwoSizes
  Header <- TwoBytes
  Stream <- OneMessageEach
SPECIFICATION Spec
INVARIANTS Genuine
