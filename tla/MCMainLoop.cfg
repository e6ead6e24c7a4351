SPECIFICATION MCSpec
CONSTANTS
  Pids = {1}
  Durations = {0, 3}
  Period <- MCPeriod
  MinDuration = 2
  MissLimit = 1
  ListenModes = {TRUE, FALSE}
  MaxTime = 3
INVARIANT WriteBlockRemoved
PROPERTY LiveWatchKept
CHECK_DEADLOCK FALSE
