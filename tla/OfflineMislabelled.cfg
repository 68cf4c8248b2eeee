\* The row of the first key holds the key of the second.
CONSTANTS
  k1 = k1  k2 = k2  k3 = k3  junk = junk  hidden = hidden  rsa = rsa  nokey = nokey
  None = None
  Keys = {k1, k2, k3}
  RowKey <- OneWrongRow
  Undecodable = {junk}
  Pinned = {k1}
  HiddenKey = hidden
  RSAKey = rsa
  NoKey = nokey
  Requests <- FourRequests
  Drifts <- BothWays
  Skew = 1
  MaxNow = 5
  MaxFiles = 1
SPECIFICATION Spec
INVARIANTS
  GenuineNeverForged
CHECK_DEADLOCK FALSE
