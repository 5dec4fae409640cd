SPECIFICATION Spec
CONSTANTS
  f1 = f1
  f2 = f2
  f3 = f3
  text = text
  sub = sub
  Root = Root
  NoUrl = NoUrl
  Files = {f1, f2, f3}
  Others = {text}
  Dirs = {Root, sub}
  MaxLevel = 1
  Urls = {f1, f2, f3}
  Setups <- MCSetups
INVARIANTS TypeOK WalksAgree NextReturns
PROPERTIES PlaysInOrder EveryEntryComesBack
CHECK_DEADLOCK FALSE
