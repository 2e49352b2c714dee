SPECIFICATION Spec
CONSTANTS
  GroupSlots = 10
  SizeMax = 255
  PatternTexts <- MCTexts
INVARIANT TypeOK
INVARIANT DepthBounded
INVARIANT GroupsInOrder
INVARIANT Faithful
INVARIANT ReadsWhatIsWritten
PROPERTY ParsingEnds
