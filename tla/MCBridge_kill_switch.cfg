CONSTANTS
  Hosts = {"runner", "android"}
  QueueMax = 2
SPECIFICATION Spec
PROPERTIES KillSwitchHolds
CHECK_DEADLOCK FALSE
