\* Three keys, the row of the third undecodable; the first is pinned.
CONSTANTS
  k1 = k1  k2 = k2  k3 = k3  junk = junk  hidden = hidden  rsa = rsa  nokey = nokey
  None = None
  Keys = {k1, k2, k3}
  RowKey <- OneJunkRow
  Undecodable = {junk}
  Pinned = {k1}
  HiddenKey = hidden
  RSAKey = rsa
  NoKey = nokey
  Requests <- FourRequests
  Drifts <- BothWays
  Skew = 1
  MaxNow = 5
  MaxFiles = 1
SPECIFICATION Spec
INVARIANTS
  TypeOK
  GenuineNeverForged
  RotationSurvives
  AcceptedIsGenuine
  ExpiryWithinSkew
  SetExtendsVerify
CHECK_DEADLOCK FALSE
