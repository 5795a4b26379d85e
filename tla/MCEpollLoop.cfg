SPECIFICATION Spec
CONSTANTS
  Clients = {c1, c2}
  Ups = {u1}
  Tls = {u1}
  MaxOut = 2
  MaxPost = 1
  MaxBatch = 2
SYMMETRY Symmetric
INVARIANT EntriesLive
INVARIANT SweepLooksAtAll
INVARIANT WireWhole
INVARIANT OwedArmed
