SPECIFICATION Spec
CONSTANTS
  Sockets = {"s"}
  Conns = {"c"}
  Remotes = {"x", "y"}
  Programs = {"p", "q"}
  QueueMax = 2
  Choices <- Exclusions
  AllRuns = {1, 2}
  Defaults <- Routings
  Scripts <- Wishes
  HeaderMax = 3
  Datagrams = 2
INVARIANTS RoutesSound FlowsSound
PROPERTIES IdleEnds RunsGoOn DesktopSettles
CHECK_DEADLOCK FALSE
