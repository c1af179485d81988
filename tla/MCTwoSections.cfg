SPECIFICATION Spec
CONSTANTS
  Selections <- TwoSections
  RealSize = 8
  Values = {0, 1}
  Level = 1
PROPERTY FiresOnCrossing
