CONSTANTS
  Initiator = client
  Responder = server
  NonceLimit = 5
  InitiatorFrames = 5
  ResponderFrames = 2
  InitiatorData = 5
  ResponderData = 0
  MaxReorder = 3
  MaxReorderBuffer = 2
  MaxSentHistory = 5
  MaxRetries = 1
  RetransmitBudget = 0
  MaxRanges = 2
  RetryMax = 4
  Mobile = {}
  Closers = {}
  FrameLimit <- MCFrameLimit
  SendLimit <- MCSendLimit
SPECIFICATION Spec
INVARIANTS TypeOK Delivery Custody
PROPERTIES OnlyFreshFramesProvePath
CHECK_DEADLOCK FALSE
