CONSTANTS
  GroupSlots = 10
  SizeMax = 255
  Families <- DifferingFamilies
SPECIFICATION BothSpec
INVARIANT SameAnswer
