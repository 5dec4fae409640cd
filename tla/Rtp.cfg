SPECIFICATION Spec
CONSTANTS
  Senders = {2, 4}
  Setups <- MCSetups
  Modulus = 4
  OutSize = 4
  Header = 1
  Lens = {1, 2}
  MaxNet = 4
  Profiles = {"mp3", "pcm"}
INVARIANTS TypeOK SingleSession OneCopySuffices
PROPERTY ImplementsStream
CHECK_DEADLOCK FALSE
