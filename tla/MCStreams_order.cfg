CONSTANTS
  Tcp = {11}
  Udp = {}
  ChunkMax = 1
  SessionMax = 1
  Hasty = {11}
  Impatient = {}
  Mortal = {}
SPECIFICATION Spec
INVARIANTS ConnectOkComesFirst
CHECK_DEADLOCK FALSE
