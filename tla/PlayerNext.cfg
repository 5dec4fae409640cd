SPECIFICATION Spec
CONSTANTS
  Clients = {c1, c2}
  Sources = {s1, s2, s3}
  Main = Main
  None = None
  Requests = {"PLAY", "NEXT"}
  MaxCalls = 1
SYMMETRY Symmetry
INVARIANT ChangeIsObeyed
CHECK_DEADLOCK FALSE
