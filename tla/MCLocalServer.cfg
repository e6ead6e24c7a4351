SPECIFICATION Spec
CONSTANTS
  Conns = {c1, c2, c3}
  NoConn = NoConn
  NumSlots = 2
  MaxLines = 1
INVARIANTS SocketOwnedOnce TerminalNeverRefused RepliesSeparate
PROPERTY ImplementsSessions
SYMMETRY Symmetry
CHECK_DEADLOCK FALSE
