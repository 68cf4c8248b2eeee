\* Two goroutines, one license, two codes and pages of one code; the clock runs on
\* for a TTL and a response after a change.
CONSTANTS
  w1 = w1  w2 = w2  l1 = l1  l2 = l2  k1 = k1  k2 = k2
  None = None
  Workers = {w1, w2}
  Licenses = {l1}
  Codes = {k1, k2}
  InitialCodes <- AllCodes
  PageLimit = 1
  TTL = 2
  Latency = 1
  MaxNow = 8
  MaxChanges = 3
SYMMETRY Symmetry
SPECIFICATION Spec
INVARIANTS
  TypeOK
  AnswersWereTrue
