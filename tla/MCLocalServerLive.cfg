SPECIFICATION FairSpec
CONSTANTS
  Conns = {c1, c2}
  NoConn = NoConn
  NumSlots = 2
  MaxLines = 0
PROPERTIES ClaimedIsServed BacklogDrained
CHECK_DEADLOCK FALSE
