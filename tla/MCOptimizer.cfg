CONSTANTS
  GroupSlots = 10
  SizeMax = 255
  SourceGraphs <- MCSourceGraphs
SPECIFICATION OptimizerSpec
INVARIANT OptimizerTypeOK
INVARIANT NestingKept
INVARIANT StoringKept
INVARIANT WalkReachesAll
INVARIANT PossessiveStaysExclusive
INVARIANT LoopLengthsExact
PROPERTY OptimizerEnds
