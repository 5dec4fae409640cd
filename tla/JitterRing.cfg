SPECIFICATION FairSpec
CONSTANTS
  Count = 4
  Size = 2
  Thredhold = 2
  Tags = 16
  Produces <- BothSources
  Abandons = TRUE
  Destroys = TRUE
INVARIANTS TypeOK BlocksAreApart ReadsTheStream
PROPERTIES ImplementsFifo PullReturns PeerReturns
CHECK_DEADLOCK FALSE
