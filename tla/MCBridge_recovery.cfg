CONSTANTS
  Hosts = {"runner", "android"}
  QueueMax = 2
SPECIFICATION FairSpec
INVARIANTS UpOrRetrying
PROPERTIES ProxyNeverOutlivesTunnel Recovers ReleasesWhenCutOff
CHECK_DEADLOCK FALSE
