SPECIFICATION UnixSpec
CONSTANTS
  Clients = {c1, c2}
  MaxClients = 1
  Buffers = 4
INVARIANTS UnixTypeOK NeverBack NeverTwoMissed
PROPERTIES Acknowledged
CHECK_DEADLOCK FALSE
