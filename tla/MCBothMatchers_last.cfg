CONSTANTS
  GroupSlots = 10
  SizeMax = 255
  Families <- SharedLastFamilies
SPECIFICATION BothSpec
INVARIANT NothingAfterRet
