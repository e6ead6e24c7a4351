SPECIFICATION Spec
CONSTANTS
  Conns = {c1, c2}
  NoConn = NoConn
  NumSlots = 2
  MaxLines = 0
INVARIANT AcceptedIsServed
CHECK_DEADLOCK FALSE
