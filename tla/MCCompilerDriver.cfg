SPECIFICATION DriverSpec
CONSTANTS
  GroupSlots = 10
  SizeMax = 255
  Chunks = 3
  CommandLines <- MCCommandLines
  Built <- MCBuilt
INVARIANT DriverTypeOK
INVARIANT OldFileKept
INVARIANT SuccessIsWhole
PROPERTY CompilerEnds
