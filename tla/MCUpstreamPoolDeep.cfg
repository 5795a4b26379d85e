SPECIFICATION Spec
CONSTANTS
  Conn = {u1, u2, u3, u4}
  Venue = {a}
  Cap = 3
  IdleFor = 1
  MaxNow = 2
  NoConn = NoConn
SYMMETRY Symmetric
INVARIANTS TypeOK ListsSound CountSound PoolClean
PROPERTIES ReapComplete AcquireNewest
