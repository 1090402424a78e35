\* Other writers, and node-postgres' default: nothing bounds the wait for a connection.
SPECIFICATION FairSpec
CONSTANTS
  p1 = p1
  p2 = p2
  p3 = p3
  k1 = k1
  k2 = k2
  Calls = {p1, p2, p3}
  Keys = {k1, k2}
  Conns = {c1, c2}
  KeyOf <- TwoOperations
  NoConn = NoConn
  Orphan = Orphan
  Setups <- DefaultPoolWithTools
  MaxFaults = 0
PROPERTIES NoSelfDeadlock
CHECK_DEADLOCK FALSE
