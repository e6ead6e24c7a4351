SPECIFICATION FairSpec
CONSTANTS
  serial = serial
  usb = usb
  banned = banned
  NoPort = NoPort
  Ports <- MCPorts
  Paths <- MCPaths
  Preferred <- MCPreferred
  Blacklist <- MCBlacklist
  PreferredRetry = 2
  DefaultRetry = 1
  Retries = {0, 2, 3}
  Modulus = 4
INVARIANTS RetryBound AnsweringPortWins
PROPERTIES TryEnds DeviceFound
CHECK_DEADLOCK FALSE
