CONSTANTS
  GroupSlots = 10
  SizeMax = 255
  SourceGraphs <- InvertedClasses
SPECIFICATION OptimizerSpec
INVARIANT LoopLengthsExact
