\* Three requests over two pods that grant two slots of three; one restart, one
\* repeated INCR.  No symmetry: SlotsComeBack is a liveness property.
SPECIFICATION FairSpec
CONSTANTS
  Requests = {r1, r2, r3}
  Pods = {p1, p2}
  ResourcePoolSize = 3
  AllocLimit = 2
  MaxRetries = 1
  MaxRestarts = 1
INVARIANTS
  PoolAccounting
  CountsIncrease
PROPERTIES
  SlotsComeBack
