SPECIFICATION MCFairSpec
CONSTANTS
  Pids = {1}
  Durations = {0, 3}
  Period <- MCPeriod
  MinDuration = 2
  MissLimit = 1
  ListenModes = {FALSE}
  MaxTime = 3
PROPERTIES TerminalEndsLoop DurationEndsLoop WatchEndsTerminal
CHECK_DEADLOCK FALSE
