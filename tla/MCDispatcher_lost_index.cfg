CONSTANTS
  Alice = alice
  Bob = bob
  None = none
  Sids = {s1, s2}
  OtherUser = {}
  Keys <- MCKeys
  KeyOf <- MCKeyOf
  Addrs = {a1}
  MaxSessions = 2
  DriftLimit = 1
  SessionTimeout = 1
  ReplayCacheMax = 2
  RoamingBurst = 1
  TrialBurst = 1
  TrafficLimit = 2
  SendMax = 2
  Limited = {}
  Administered = {}
SPECIFICATION Spec
PROPERTIES TrialsAreForStrangers
