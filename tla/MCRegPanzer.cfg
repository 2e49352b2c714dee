CONSTANTS
  GroupSlots = 10
  SizeMax = 255
  Families <- MCFamilies
SPECIFICATION Spec
INVARIANT CyclesAreCut
PROPERTY ImplementsSearch
PROPERTY Terminates
