\* Three installations, two licenses, uniqueness across licenses, the whole
\* listing on one page; one fault, such as the crash a restart follows.
CONSTANTS
  a = a  b = b  c = c  l1 = l1  l2 = l2  f1 = f1  f2 = f2
  None = None
  Clients = {a, b, c}
  Licenses = {l1, l2}
  Fingerprints = {f1, f2}
  LicenseOf <- ThreeLicenseOf
  FingerprintOf <- ThreeFingerprintOf
  Contains <- TwoContains
  WideUniqueness = TRUE
  SeatLimit <- OneSeat
  CreateCap <- OneAbove
  PageSize = 100
  MaxOffset = 100000
  MaxIds = 2
  MaxFaults = 1
SPECIFICATION Spec
INVARIANTS
  HoldsOwnSeat
