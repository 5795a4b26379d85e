SPECIFICATION Spec
CONSTANTS
  Conn = {u1, u2, u3}
  Venue = {a, b}
  Cap = 2
  IdleFor = 1
  MaxNow = 3
  NoConn = NoConn
SYMMETRY Symmetric
INVARIANTS ListsSound
PROPERTIES ReapComplete RefinesStacks
