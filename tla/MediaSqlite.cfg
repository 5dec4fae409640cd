SPECIFICATION Spec
CONSTANTS
  u1 = u1
  u2 = u2
  u3 = u3
  NoUrl = NoUrl
  Urls = {u1, u2, u3}
  Titles = {u1, u2, u3}
  Setups <- MCSetups
  Garbage <- MCGarbage
INVARIANTS TypeOK GivenAsLiked NextReturns
PROPERTY EveryMediaComesBack
CHECK_DEADLOCK FALSE
