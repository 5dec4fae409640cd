SPECIFICATION FairSpec
CONSTANTS
  Clients = {c1, c2}
  Sources = {s1, s2, s3}
  Main = Main
  None = None
  Requests = {"PLAY", "PAUSE", "STOP", "CHANGE", "ERROR", "NEXT"}
  MaxCalls = 1
INVARIANTS TypeOK OneProducer RestIsConsistent
PROPERTY MainRests
CHECK_DEADLOCK FALSE
