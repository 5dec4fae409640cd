SPECIFICATION FairSpec
CONSTANTS
  Count = 3
  Thredhold = 2
  Tags = 4
  LevelSpan = 4
  Controls = {"flush"}
  MayEnd = FALSE
  ResetWhileHeld = FALSE
PROPERTIES EveryBufferIsConsumed PullReturns
