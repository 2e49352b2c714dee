CONSTANTS
  GroupSlots = 10
  SizeMax = 255
  Families <- PossessiveFamilies
SPECIFICATION Spec
PROPERTY ImplementsSearch
