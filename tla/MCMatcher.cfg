CONSTANTS
  GroupSlots = 10
  SizeMax = 255
  Inputs <- MCInputs
SPECIFICATION FairSpec
INVARIANT TypeOK
INVARIANT SavedStateLive
INVARIANT RestoresItsOwnSave
INVARIANT CallsBalanced
INVARIANT GroupEndFindsStart
INVARIANT StatesInString
INVARIANT ElementLengthExact
PROPERTY MatchReturns
