SPECIFICATION Spec
CONSTANTS
  Count = 3
  Thredhold = 1
  Tags = 4
  LevelSpan = 8
  Controls = {"pause", "flush", "reset"}
  MayEnd = TRUE
  ResetWhileHeld = TRUE
INVARIANTS TypeOK NoSharedBuffer LevelExact
PROPERTY ImplementsFifo
