CONSTANTS
  Initiator = client
  Responder = server
  NonceLimit = 2
  InitiatorFrames = 2
  ResponderFrames = 2
  InitiatorData = 2
  ResponderData = 0
  MaxReorder = 3
  MaxReorderBuffer = 2
  MaxSentHistory = 1
  MaxRetries = 1
  RetransmitBudget = 1
  MaxRanges = 2
  RetryMax = 4
  Mobile = {client}
  Closers = {server}
  FrameLimit <- MCFrameLimit
  SendLimit <- MCSendLimit
SPECIFICATION FairSpec
PROPERTIES NoPhantomRetries BothTransfer RetransmissionEnds
CHECK_DEADLOCK FALSE
