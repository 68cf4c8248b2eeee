\* An invalidation while a fetch is under way.
CONSTANTS
  w1 = w1  w2 = w2  l1 = l1  l2 = l2  k1 = k1  k2 = k2
  None = None
  Workers = {w1, w2}
  Licenses = {l1, l2}
  Codes = {k1, k2}
  InitialCodes <- AllCodes
  PageLimit = 1
  TTL = 2
  Latency = 1
  MaxNow = 7
  MaxChanges = 1
SYMMETRY Symmetry
SPECIFICATION Spec
INVARIANTS
  InvalidateForcesRefetch
