\* Three callers of two operations compete for two connections, one fault, in every setup; with other
\* writers and unbounded waits the calls of both operations can stop for good.
SPECIFICATION FairSpec
CONSTANTS
  p1 = p1
  p2 = p2
  p3 = p3
  k1 = k1
  k2 = k2
  Calls = {p1, p2, p3}
  Keys = {k1, k2}
  Conns = {c1, c2}
  KeyOf <- TwoOperations
  NoConn = NoConn
  Orphan = Orphan
  Setups <- AnySetup
  MaxFaults = 1
INVARIANTS ConnectionsAccounted LockBelongsToPass PassesExclude PoolInvariant
PROPERTIES CallsEnd LocksEnd
CHECK_DEADLOCK FALSE
