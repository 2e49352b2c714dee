CONSTANTS
  GroupSlots = 10
  SizeMax = 255
  Families <- MCFamilies
SPECIFICATION BothSpec
INVARIANT SameAnswer
INVARIANT GenerationSucceeds
PROPERTY FunctionAnswers
