SPECIFICATION Spec
CONSTANTS
  GroupSlots = 10
  SizeMax = 255
  PatternTexts <- NegatedTexts
INVARIANT Faithful
