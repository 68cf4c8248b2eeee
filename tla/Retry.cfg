\* The SDK's defaults: three retries, 45 seconds per attempt.
CONSTANTS
  c = c
  NoHeader = NoHeader
  Calls = {c}
  Requests <- SomeRequests
  RetryAfters <- SomeRetryAfters
  MaxRetries = 3
  Timeout = 45
SPECIFICATION DecodedSpec
INVARIANTS
  TypeOK
  CreatesAtMostOnce
  EveryAttemptIsWhole
  TimeBounded
  BodiesClosedOnce
PROPERTIES
  HelperIsRemoteCall
