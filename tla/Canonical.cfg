\* Every text of up to four pieces; every list of two components with values of
\* up to two bytes.
CONSTANTS
  MaxPieces = 4
  MaxComponents = 2
  MaxValue = 2
SPECIFICATION Spec
INVARIANTS
  GenuineProofVerifies
  ProofBindsTuple
  FingerprintIsIdentity
CHECK_DEADLOCK FALSE
