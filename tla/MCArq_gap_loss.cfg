CONSTANTS
  Initiator = client
  Responder = server
  NonceLimit = 3
  InitiatorFrames = 3
  ResponderFrames = 2
  InitiatorData = 3
  ResponderData = 0
  MaxReorder = 3
  MaxReorderBuffer = 2
  MaxSentHistory = 5
  MaxRetries = 1
  RetransmitBudget = 0
  MaxRanges = 2
  RetryMax = 4
  Mobile = {}
  Closers = {}
  FrameLimit <- MCFrameLimit
  SendLimit <- MCSendLimit
SPECIFICATION Spec
INVARIANTS GapRecoveryDelivers
CHECK_DEADLOCK FALSE
