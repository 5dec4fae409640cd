SPECIFICATION Spec
CONSTANTS
  Count = 3
  Thredhold = 1
  Size = 2
  FrameLens = {1, 3}
  Encoders <- MCEncoders
  Entries = 3
  Samples = 5
  MaxCalls = 2
INVARIANTS TypeOK OnlyTheHeadIsLost
PROPERTIES JoinReturns
CHECK_DEADLOCK FALSE
