CONSTANTS
  Tcp = {11}
  Udp = {12}
  ChunkMax = 1
  SessionMax = 1
  Hasty = {}
  Impatient = {}
  Mortal = {}
SPECIFICATION OneSessionSpec
PROPERTIES  TargetCloseEndsStream
CHECK_DEADLOCK FALSE
