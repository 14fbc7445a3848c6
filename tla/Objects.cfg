\* Two operations, whose requests share a slab of two keys; two objects on one
\* description, used by two tasks; two sockets that share keys, so that
\* entries of a closed one meet its successor.
SPECIFICATION SumSpec
CONSTANTS
  One = o1
  Another = o2
  Ops <- MCOps
  OpKinds <- MCOpKinds
  Tokens = {k1, k2}
  Places = {p1, p2}
  Connections = {d1, d2}
  Wakers = {w1, w2}
  None = None
  f1 = f1
SYMMETRY Symmetry
INVARIANTS
  
  ResultIsTruthful
  PendingIsWatched
  FlagFollowsMode
  
  KernelStateIsOwned
  
