\* Two installations of one license, fingerprint f1 a substring of f2, one
\* fault, pages of one row.
CONSTANTS
  a = a  b = b  c = c  l1 = l1  l2 = l2  f1 = f1  f2 = f2
  None = None
  Clients = {a, b}
  Licenses = {l1, l2}
  Fingerprints = {f1, f2}
  LicenseOf <- TwoLicenseOf
  FingerprintOf <- TwoFingerprintOf
  Contains <- TwoContains
  WideUniqueness = FALSE
  SeatLimit <- OneSeat
  CreateCap <- OneAbove
  PageSize = 1
  MaxOffset = 100000
  MaxIds = 3
  MaxFaults = 1
SPECIFICATION Spec
INVARIANTS
  TypeOK
  SeatsWithinLimit
  NoSilentOrphan
  RestartFindsOwnSeat
PROPERTIES
  RecoveryDestroysNothing
  FlowReturns
