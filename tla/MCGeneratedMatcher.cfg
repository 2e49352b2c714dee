CONSTANTS
  GroupSlots = 10
  SizeMax = 255
  Inputs <- MCInputs
SPECIFICATION Spec
INVARIANT TypeOK
INVARIANT ChainsLive
INVARIANT CallsReturn
INVARIANT CountersInitialized
INVARIANT PointersInString
PROPERTY FunctionReturns
