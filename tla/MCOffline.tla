------------------------------ MODULE MCOffline ------------------------------
EXTENDS OfflineVerification

CONSTANTS k1, k2, k3, junk, hidden, rsa, nokey

OneJunkRow == [k \in Keys |-> IF k = k3 THEN junk ELSE k]
OneWrongRow == [k \in Keys |-> IF k = k1 THEN k2 ELSE k]
FourRequests ==
  {[kind |-> "license", enc |-> "base64", sign |-> "ed25519", ttl |-> 1],
   [kind |-> "license", enc |-> "aes-256-gcm", sign |-> "ed25519", ttl |-> 0],
   [kind |-> "machine", enc |-> "aes-256-gcm", sign |-> "ed25519", ttl |-> 1],
   [kind |-> "machine", enc |-> "base64", sign |-> "rsa-sha256", ttl |-> 0]}
BothWays == {-1, 1}
=============================================================================
