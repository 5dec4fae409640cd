SPECIFICATION Spec
CONSTANTS
  Count = 3
  Thredhold = 1
  Size = 2
  FrameLens = {1, 3}
  Encoders = {"lame"}
  Entries = 3
  Samples = 6
  MaxCalls = 2
INVARIANT LastBufferIsPushed
CHECK_DEADLOCK FALSE
