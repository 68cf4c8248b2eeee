---------------------- MODULE OfflineVerification_proofs ----------------------
(***************************************************************************)
(* Theorems about OfflineVerification, for any keys, rows, pinned keys,    *)
(* check-outs and clocks, and any number of files.                         *)
(***************************************************************************)
EXTENDS OfflineVerification, TLAPS, FiniteSetTheorems

-----------------------------------------------------------------------------
(* Pipelines of checks. *)

\* The least of some numbers, none above nine: the longest pipeline has nine
\* checks.
LEMMA LeastOfNine ==
  ASSUME NEW S \in SUBSET (1..9), S # {}
  PROVE  \E x \in S : \A y \in S : x =< y
  <1> DEFINE none(k) == \A y \in S : y > k
  <1>1. none(0)
    OBVIOUS
  <1>2. \A k \in 0..8 : none(k) => none(k + 1) \/ \E x \in S : \A y \in S : x =< y
    <2> TAKE k \in 0..8
    <2> HAVE none(k)
    <2>1. CASE k + 1 \in S
      BY <2>1
    <2>2. CASE k + 1 \notin S
      BY <2>2
    <2>3. QED
      BY <2>1, <2>2
  <1>3. ~none(9)
    <2>1. PICK x : x \in S
      OBVIOUS
    <2>2. x \in 1..9
      BY <2>1
    <2>3. ~(x > 9)
      BY <2>2
    <2>4. QED
      BY <2>1, <2>3
  <1> HIDE DEF none
  <1>4. QED
    BY <1>1, <1>2, <1>3

LEMMA MinIs ==
  ASSUME NEW S \in SUBSET Int, NEW m \in S, \A y \in S : m =< y
  PROVE  Min(S) = m
  <1>1. \E x \in S : \A y \in S : x =< y
    OBVIOUS
  <1>2. Min(S) \in S /\ \A y \in S : Min(S) =< y
    BY <1>1 DEF Min
  <1>3. Min(S) \in Int /\ m \in Int /\ Min(S) =< m /\ m =< Min(S)
    BY <1>2
  <1>4. QED
    BY <1>3

\* A pipeline without a refusal passes.
LEMMA NoRefusal ==
  ASSUME NEW s, \A i \in DOMAIN s : ~s[i][1]
  PROVE  FirstRefusal(s) = "ok"
  BY DEF FirstRefusal

\* The first check to refuse gives the outcome.
LEMMA RefusalAt ==
  ASSUME NEW s, DOMAIN s \subseteq Int, NEW m \in DOMAIN s, s[m][1],
         \A i \in DOMAIN s : i < m => ~s[i][1]
  PROVE  FirstRefusal(s) = s[m][2]
  <1> DEFINE refusing == {i \in DOMAIN s : s[i][1]}
  <1>1. refusing \in SUBSET Int /\ m \in refusing /\ \A y \in refusing : m =< y
    OBVIOUS
  <1>2. Min(refusing) = m
    BY <1>1, MinIs
  <1>3. QED
    BY <1>1, <1>2 DEF FirstRefusal

\* A pipeline in two parts: the second is asked only if the first passes.
LEMMA TwoParts ==
  ASSUME NEW X, NEW s \in Seq(X), NEW t \in Seq(X), Len(s) + Len(t) <= 9,
         \A i \in DOMAIN s : s[i][2] # "ok"
  PROVE  FirstRefusal(s \o t) = IF FirstRefusal(s) # "ok" THEN FirstRefusal(s) ELSE FirstRefusal(t)
  <1> DEFINE st == s \o t
             rs == {i \in DOMAIN s : s[i][1]}
             rt == {i \in DOMAIN t : t[i][1]}
  <1>1. /\ DOMAIN s = 1..Len(s) /\ DOMAIN t = 1..Len(t) /\ DOMAIN st = 1..(Len(s) + Len(t))
        /\ Len(s) \in Nat /\ Len(t) \in Nat
        /\ \A i \in DOMAIN s : st[i] = s[i]
        /\ \A i \in DOMAIN t : st[i + Len(s)] = t[i]
        /\ \A i \in DOMAIN st : i > Len(s) => st[i] = t[i - Len(s)]
    OBVIOUS
  <1> HIDE DEF st
  <1>2. CASE rs # {}
    <2>1. rs \in SUBSET (1..9)
      BY <1>1
    <2>2. PICK m \in rs : \A y \in rs : m =< y
      BY <1>2, <2>1, LeastOfNine
    <2>3. FirstRefusal(s) = s[m][2]
      <3>1. m \in DOMAIN s /\ s[m][1] /\ \A i \in DOMAIN s : i < m => ~s[i][1]
        BY <1>1, <2>2
      <3>2. DOMAIN s \subseteq Int
        BY <1>1
      <3>3. QED
        BY <3>1, <3>2, RefusalAt
    <2>4. FirstRefusal(st) = st[m][2]
      <3>1. m \in DOMAIN st /\ st[m][1] /\ DOMAIN st \subseteq Int
        BY <1>1, <2>2
      <3>2. \A i \in DOMAIN st : i < m => ~st[i][1]
        BY <1>1, <2>2
      <3>3. QED
        BY <3>1, <3>2, RefusalAt
    <2>5. st[m] = s[m] /\ s[m][2] # "ok"
      BY <1>1, <2>2
    <2>6. QED
      BY <2>3, <2>4, <2>5 DEF st
  <1>3. CASE rs = {} /\ rt # {}
    <2>1. FirstRefusal(s) = "ok"
      BY <1>3, NoRefusal
    <2>2. rt \in SUBSET (1..9)
      BY <1>1
    <2>3. PICK m \in rt : \A y \in rt : m =< y
      BY <1>3, <2>2, LeastOfNine
    <2>4. FirstRefusal(t) = t[m][2]
      <3>1. m \in DOMAIN t /\ t[m][1] /\ \A i \in DOMAIN t : i < m => ~t[i][1]
        BY <1>1, <2>3
      <3>2. DOMAIN t \subseteq Int
        BY <1>1
      <3>3. QED
        BY <3>1, <3>2, RefusalAt
    <2>5. FirstRefusal(st) = st[m + Len(s)][2]
      <3>1. m + Len(s) \in DOMAIN st /\ st[m + Len(s)][1] /\ DOMAIN st \subseteq Int
        BY <1>1, <2>3
      <3>2. \A i \in DOMAIN st : i < m + Len(s) => ~st[i][1]
        <4> TAKE i \in DOMAIN st
        <4> HAVE i < m + Len(s)
        <4>1. CASE i <= Len(s)
          BY <1>1, <1>3, <4>1
        <4>2. CASE i > Len(s)
          <5>1. i - Len(s) \in DOMAIN t /\ i - Len(s) < m
            BY <1>1, <2>3, <4>2
          <5>2. i - Len(s) \notin rt
            BY <1>1, <2>3, <5>1
          <5>3. QED
            BY <1>1, <4>2, <5>1, <5>2
        <4>3. QED
          BY <1>1, <4>1, <4>2
      <3>3. QED
        BY <3>1, <3>2, RefusalAt
    <2>6. QED
      BY <1>1, <2>1, <2>3, <2>4, <2>5 DEF st
  <1>4. CASE rs = {} /\ rt = {}
    <2>1. FirstRefusal(s) = "ok" /\ FirstRefusal(t) = "ok"
      BY <1>4, NoRefusal
    <2>2. \A i \in DOMAIN st : ~st[i][1]
      <3> TAKE i \in DOMAIN st
      <3>1. CASE i <= Len(s)
        BY <1>1, <1>4, <3>1
      <3>2. CASE i > Len(s)
        BY <1>1, <1>4, <3>2
      <3>3. QED
        BY <1>1, <3>1, <3>2
    <2>3. FirstRefusal(st) = "ok"
      BY <2>2, NoRefusal
    <2>4. QED
      BY <2>1, <2>3 DEF st
  <1>5. QED
    BY <1>2, <1>3, <1>4

\* Pipelines of one, two and three checks.
LEMMA OneCheck ==
  ASSUME NEW a \in BOOLEAN, NEW x
  PROVE  FirstRefusal(<< <<a, x>> >>) = IF a THEN x ELSE "ok"
  <1> DEFINE s == << <<a, x>> >>
  <1>1. DOMAIN s = {1} /\ s[1][1] = a /\ s[1][2] = x /\ DOMAIN s \subseteq Int
    OBVIOUS
  <1> HIDE DEF s
  <1>2. FirstRefusal(s) = IF a THEN x ELSE "ok"
    <2>1. CASE a
      <3>1. \A i \in DOMAIN s : i < 1 => ~s[i][1]
        BY <1>1
      <3>2. FirstRefusal(s) = s[1][2]
        BY <1>1, <2>1, <3>1, RefusalAt
      <3>3. QED
        BY <1>1, <2>1, <3>2
    <2>2. CASE ~a
      BY <1>1, <2>2, NoRefusal
    <2>3. QED
      BY <2>1, <2>2
  <1>3. QED
    BY <1>2 DEF s

LEMMA TwoChecks ==
  ASSUME NEW a \in BOOLEAN, NEW b \in BOOLEAN, NEW x, NEW y
  PROVE  FirstRefusal(<< <<a, x>>, <<b, y>> >>) = IF a THEN x ELSE IF b THEN y ELSE "ok"
  <1> DEFINE s == << <<a, x>>, <<b, y>> >>
  <1>1. /\ DOMAIN s = {1, 2} /\ DOMAIN s \subseteq Int
        /\ s[1][1] = a /\ s[1][2] = x /\ s[2][1] = b /\ s[2][2] = y
    OBVIOUS
  <1> HIDE DEF s
  <1>2. FirstRefusal(s) = IF a THEN x ELSE IF b THEN y ELSE "ok"
    <2>1. CASE a
      <3>1. \A i \in DOMAIN s : i < 1 => ~s[i][1]
        BY <1>1
      <3>2. FirstRefusal(s) = s[1][2]
        BY <1>1, <2>1, <3>1, RefusalAt
      <3>3. QED
        BY <1>1, <2>1, <3>2
    <2>2. CASE ~a /\ b
      <3>1. \A i \in DOMAIN s : i < 2 => ~s[i][1]
        BY <1>1, <2>2
      <3>2. FirstRefusal(s) = s[2][2]
        BY <1>1, <2>2, <3>1, RefusalAt
      <3>3. QED
        BY <1>1, <2>2, <3>2
    <2>3. CASE ~a /\ ~b
      BY <1>1, <2>3, NoRefusal
    <2>4. QED
      BY <2>1, <2>2, <2>3
  <1>3. QED
    BY <1>2 DEF s

LEMMA ThreeChecks ==
  ASSUME NEW a \in BOOLEAN, NEW b \in BOOLEAN, NEW c \in BOOLEAN, NEW x, NEW y, NEW z
  PROVE  FirstRefusal(<< <<a, x>>, <<b, y>>, <<c, z>> >>) =
           IF a THEN x ELSE IF b THEN y ELSE IF c THEN z ELSE "ok"
  <1> DEFINE s == << <<a, x>>, <<b, y>>, <<c, z>> >>
  <1>1. /\ DOMAIN s = {1, 2, 3} /\ DOMAIN s \subseteq Int
        /\ s[1][1] = a /\ s[1][2] = x /\ s[2][1] = b /\ s[2][2] = y
        /\ s[3][1] = c /\ s[3][2] = z
    OBVIOUS
  <1> HIDE DEF s
  <1>2. FirstRefusal(s) = IF a THEN x ELSE IF b THEN y ELSE IF c THEN z ELSE "ok"
    <2>1. CASE a
      <3>1. \A i \in DOMAIN s : i < 1 => ~s[i][1]
        BY <1>1
      <3>2. FirstRefusal(s) = s[1][2]
        BY <1>1, <2>1, <3>1, RefusalAt
      <3>3. QED
        BY <1>1, <2>1, <3>2
    <2>2. CASE ~a /\ b
      <3>1. \A i \in DOMAIN s : i < 2 => ~s[i][1]
        BY <1>1, <2>2
      <3>2. FirstRefusal(s) = s[2][2]
        BY <1>1, <2>2, <3>1, RefusalAt
      <3>3. QED
        BY <1>1, <2>2, <3>2
    <2>3. CASE ~a /\ ~b /\ c
      <3>1. \A i \in DOMAIN s : i < 3 => ~s[i][1]
        BY <1>1, <2>3
      <3>2. FirstRefusal(s) = s[3][2]
        BY <1>1, <2>3, <3>1, RefusalAt
      <3>3. QED
        BY <1>1, <2>3, <3>2
    <2>4. CASE ~a /\ ~b /\ ~c
      BY <1>1, <2>4, NoRefusal
    <2>5. QED
      BY <2>1, <2>2, <2>3, <2>4
  <1>3. QED
    BY <1>2 DEF s

-----------------------------------------------------------------------------
(* The pipelines of verification. *)

Outcomes == {"licenseKeyRequired", "decryptionFailed", "fingerprintRequired", "expired",
             "malformedSignature", "unsupportedAlgorithm", "schemeNotSupported",
             "suffixMismatch", "invalidSignature", "noUsableKey"}
Checks == Seq(BOOLEAN \X Outcomes)

LEMMA ConcatSeq ==
  ASSUME NEW X, NEW s \in Seq(X), NEW t \in Seq(X)
  PROVE  s \o t \in Seq(X) /\ Len(s \o t) = Len(s) + Len(t) /\ Len(s) \in Nat /\ Len(t) \in Nat
  OBVIOUS

LEMMA Parts ==
  ASSUME NEW s \in Checks, NEW t \in Checks, Len(s) + Len(t) <= 9
  PROVE  /\ s \o t \in Checks /\ Len(s \o t) = Len(s) + Len(t)
         /\ FirstRefusal(s \o t) =
              IF FirstRefusal(s) # "ok" THEN FirstRefusal(s) ELSE FirstRefusal(t)
  <1>1. \A i \in DOMAIN s : s[i][2] # "ok"
    <2> TAKE i \in DOMAIN s
    <2>1. s[i] \in BOOLEAN \X Outcomes
      BY DEF Checks
    <2>2. s[i][2] \in Outcomes
      BY <2>1
    <2>3. QED
      BY <2>2 DEF Outcomes
  <1>2. QED
    BY <1>1, ConcatSeq, TwoParts DEF Checks

\* What decoding finds, once the signature is settled.
Decoded(f, in) ==
  IF f.enc = "base64" THEN "ok"
  ELSE IF in.licenseKey = "none" THEN "licenseKeyRequired"
  ELSE IF f.kind = "machine" /\ in.fingerprint = "none" THEN "fingerprintRequired"
  ELSE IF \/ f.damage = "payload" \/ in.licenseKey = "wrong"
          \/ f.kind = "machine" /\ in.fingerprint = "wrong"
    THEN "decryptionFailed"
  ELSE "ok"

TooLate(f, in) == f.exp # 0 /\ LocalNow(in) - Skew > f.exp

LEMMA DecodeChecks ==
  ASSUME NEW f \in File, NEW in \in Inputs(f.kind)
  PROVE  /\ decodePlaintext(f, in) \in Checks
         /\ Len(decodePlaintext(f, in)) <= 3
         /\ \A i \in DOMAIN decodePlaintext(f, in) : decodePlaintext(f, in)[i][2] # "ok"
         /\ FirstRefusal(decodePlaintext(f, in)) = Decoded(f, in)
  <1>1. CASE f.enc = "base64"
    <2>1. decodePlaintext(f, in) = << >>
      BY <1>1 DEF decodePlaintext, licensePlaintext, machinePlaintext
    <2>2. FirstRefusal(<< >>) = "ok"
      BY NoRefusal
    <2>3. QED
      BY <1>1, <2>1, <2>2 DEF Checks, Decoded
  <1>2. CASE f.enc # "base64" /\ f.kind = "license"
    <2> DEFINE a == in.licenseKey = "none"
               b == f.damage = "payload" \/ in.licenseKey = "wrong"
    <2>1. decodePlaintext(f, in) = << <<a, "licenseKeyRequired">>, <<b, "decryptionFailed">> >>
      BY <1>2 DEF decodePlaintext, licensePlaintext
    <2>2. a \in BOOLEAN /\ b \in BOOLEAN
      OBVIOUS
    <2>3. Decoded(f, in) = IF a THEN "licenseKeyRequired" ELSE IF b THEN "decryptionFailed" ELSE "ok"
      BY <1>2 DEF Decoded
    <2> HIDE DEF a, b
    <2>4. FirstRefusal(<< <<a, "licenseKeyRequired">>, <<b, "decryptionFailed">> >>) = Decoded(f, in)
      BY <2>2, <2>3, TwoChecks
    <2>5. QED
      BY <2>1, <2>2, <2>4 DEF Checks, Outcomes
  <1>3. CASE f.enc # "base64" /\ f.kind # "license"
    <2> DEFINE a == in.licenseKey = "none"
               b == in.fingerprint = "none"
               c == f.damage = "payload" \/ "wrong" \in {in.licenseKey, in.fingerprint}
    <2>1. decodePlaintext(f, in) =
            << <<a, "licenseKeyRequired">>, <<b, "fingerprintRequired">>, <<c, "decryptionFailed">> >>
      BY <1>3 DEF decodePlaintext, machinePlaintext
    <2>2. a \in BOOLEAN /\ b \in BOOLEAN /\ c \in BOOLEAN
      OBVIOUS
    <2>3. Decoded(f, in) = IF a THEN "licenseKeyRequired" ELSE IF b THEN "fingerprintRequired"
                           ELSE IF c THEN "decryptionFailed" ELSE "ok"
      BY <1>3 DEF Decoded, File, Kinds
    <2> HIDE DEF a, b, c
    <2>4. FirstRefusal(<< <<a, "licenseKeyRequired">>, <<b, "fingerprintRequired">>,
                          <<c, "decryptionFailed">> >>) = Decoded(f, in)
      BY <2>2, <2>3, ThreeChecks
    <2>5. QED
      BY <2>1, <2>2, <2>4 DEF Checks, Outcomes
  <1>4. QED
    BY <1>1, <1>2, <1>3

LEMMA ExpiryCheck ==
  ASSUME NEW f \in File, NEW in \in Inputs(f.kind)
  PROVE  /\ payloadFrom(f, in) \in Checks /\ Len(payloadFrom(f, in)) = 1
         /\ FirstRefusal(payloadFrom(f, in)) = IF TooLate(f, in) THEN "expired" ELSE "ok"
  <1>1. payloadFrom(f, in) = << <<TooLate(f, in), "expired">> >>
    BY DEF payloadFrom, TooLate
  <1>2. TooLate(f, in) \in BOOLEAN
    BY DEF TooLate
  <1>3. QED
    BY <1>1, <1>2, OneCheck DEF Checks, Outcomes

\* Everything past the signature.
Opened(f, in) ==
  IF Decoded(f, in) # "ok" THEN Decoded(f, in) ELSE IF TooLate(f, in) THEN "expired" ELSE "ok"

LEMMA TailChecks ==
  ASSUME NEW f \in File, NEW in \in Inputs(f.kind)
  PROVE  FirstRefusal(decodePlaintext(f, in) \o payloadFrom(f, in)) = Opened(f, in)
  <1> DEFINE d == decodePlaintext(f, in)
             p == payloadFrom(f, in)
  <1>1. d \in Checks /\ Len(d) <= 3 /\ FirstRefusal(d) = Decoded(f, in)
    BY DecodeChecks
  <1>2. p \in Checks /\ Len(p) = 1 /\ FirstRefusal(p) = IF TooLate(f, in) THEN "expired" ELSE "ok"
    BY ExpiryCheck
  <1> HIDE DEF d, p
  <1>3. Len(d) + Len(p) <= 9
    BY <1>1, <1>2 DEF Checks
  <1>4. FirstRefusal(d \o p) = IF FirstRefusal(d) # "ok" THEN FirstRefusal(d) ELSE FirstRefusal(p)
    BY <1>1, <1>2, <1>3, Parts
  <1>5. QED
    BY <1>1, <1>2, <1>4 DEF d, p, Opened

\* The gate of each kind of file, before its signature is looked at.
Gate(f, in) ==
  IF f.kind = "license" THEN
    IF ~f.v2 \/ f.sign # "ed25519" THEN "unsupportedAlgorithm"
    ELSE IF f.damage = "signature" THEN "malformedSignature" ELSE "ok"
  ELSE IF in.scheme = "jwt" THEN "schemeNotSupported"
  ELSE IF ~f.v2 THEN "unsupportedAlgorithm"
  ELSE IF f.sign # schemeAlgSuffix(in.scheme) THEN "suffixMismatch"
  ELSE IF f.damage = "signature" THEN "malformedSignature" ELSE "ok"

LEMMA AlgChecks ==
  ASSUME NEW f \in File, NEW in \in Inputs(f.kind)
  PROVE  /\ machineAlgChecks(f, in) \in Checks /\ Len(machineAlgChecks(f, in)) = 3
         /\ FirstRefusal(machineAlgChecks(f, in)) =
              IF in.scheme = "jwt" THEN "schemeNotSupported"
              ELSE IF ~f.v2 THEN "unsupportedAlgorithm"
              ELSE IF f.sign # schemeAlgSuffix(in.scheme) THEN "suffixMismatch" ELSE "ok"
  <1> DEFINE a == in.scheme = "jwt"
             b == ~f.v2
             c == f.sign # schemeAlgSuffix(in.scheme)
  <1>1. machineAlgChecks(f, in) =
          << <<a, "schemeNotSupported">>, <<b, "unsupportedAlgorithm">>, <<c, "suffixMismatch">> >>
    BY DEF machineAlgChecks
  <1>2. a \in BOOLEAN /\ b \in BOOLEAN /\ c \in BOOLEAN
    OBVIOUS
  <1> HIDE DEF a, b, c
  <1>3. FirstRefusal(machineAlgChecks(f, in)) =
          IF a THEN "schemeNotSupported" ELSE IF b THEN "unsupportedAlgorithm"
          ELSE IF c THEN "suffixMismatch" ELSE "ok"
    BY <1>1, <1>2, ThreeChecks
  <1>4. machineAlgChecks(f, in) \in Checks /\ Len(machineAlgChecks(f, in)) = 3
    BY <1>1, <1>2 DEF Checks, Outcomes
  <1>5. QED
    BY <1>3, <1>4 DEF a, b, c

\* Verify, in the order of its checks.
LEMMA VerifyOutcome ==
  ASSUME NEW f \in File, NEW in \in Inputs(f.kind), NEW k
  PROVE  Verify(f, k, in) =
           IF Gate(f, in) # "ok" THEN Gate(f, in)
           ELSE IF ~SignedBy(f, k) THEN "invalidSignature" ELSE Opened(f, in)
  <1> DEFINE p == payloadFrom(f, in)
             d == decodePlaintext(f, in)
  <1>1. p \in Checks /\ Len(p) = 1 /\ FirstRefusal(p) = IF TooLate(f, in) THEN "expired" ELSE "ok"
    BY ExpiryCheck
  <1>2. d \in Checks /\ Len(d) <= 3 /\ Len(d) \in Nat /\ FirstRefusal(d) = Decoded(f, in)
    BY DecodeChecks DEF Checks
  <1>3. CASE f.kind = "license"
    <2> DEFINE a == ~f.v2 \/ f.sign # "ed25519"
               b == f.damage = "signature"
               c == ~SignedBy(f, k)
               s == << <<a, "unsupportedAlgorithm">>, <<b, "malformedSignature">>,
                       <<c, "invalidSignature">> >>
    <2>1. Verify(f, k, in) = FirstRefusal(s \o d \o p)
      BY <1>3 DEF Verify, LicenseFileVerify, validateLicenseFileAlg, malformedSig, decodePlaintext
    <2>2. a \in BOOLEAN /\ b \in BOOLEAN /\ c \in BOOLEAN
      OBVIOUS
    <2>3. Gate(f, in) = IF a THEN "unsupportedAlgorithm" ELSE IF b THEN "malformedSignature" ELSE "ok"
      BY <1>3 DEF Gate
    <2> HIDE DEF a, b, p, d
    <2>4. FirstRefusal(s) = IF a THEN "unsupportedAlgorithm" ELSE IF b THEN "malformedSignature"
                            ELSE IF c THEN "invalidSignature" ELSE "ok"
      <3> HIDE DEF c
      <3>1. QED
        BY <2>2, ThreeChecks
    <2>5. s \in Checks /\ Len(s) = 3
      <3> HIDE DEF c
      <3>1. QED
        BY <2>2 DEF Checks, Outcomes
    <2> HIDE DEF s
    <2>6. /\ s \o d \in Checks /\ Len(s \o d) = Len(s) + Len(d)
          /\ FirstRefusal(s \o d) = IF FirstRefusal(s) # "ok" THEN FirstRefusal(s) ELSE FirstRefusal(d)
      <3>1. Len(s) + Len(d) <= 9
        BY <1>2, <2>5
      <3>2. QED
        BY <1>2, <2>5, <3>1, Parts
    <2>7. FirstRefusal(s \o d \o p) =
            IF FirstRefusal(s \o d) # "ok" THEN FirstRefusal(s \o d) ELSE FirstRefusal(p)
      <3>1. Len(s \o d) + Len(p) <= 9
        BY <1>1, <1>2, <2>5, <2>6
      <3>2. QED
        BY <1>1, <2>6, <3>1, Parts
    <2>8. QED
      BY <1>1, <1>2, <2>1, <2>3, <2>4, <2>6, <2>7 DEF Opened
  <1>4. CASE f.kind # "license"
    <2> DEFINE b == f.damage = "signature"
               c == ~SignedBy(f, k)
               m == machineAlgChecks(f, in)
               s == << <<b, "malformedSignature">>, <<c, "invalidSignature">> >>
    <2>1. Verify(f, k, in) = FirstRefusal(m \o s \o d \o p)
      BY <1>4 DEF Verify, MachineFileVerify, malformedSig, decodePlaintext
    <2>2. b \in BOOLEAN /\ c \in BOOLEAN
      OBVIOUS
    <2>3. m \in Checks /\ Len(m) = 3
      BY AlgChecks
    <2>4. Gate(f, in) = IF FirstRefusal(m) # "ok" THEN FirstRefusal(m)
                        ELSE IF b THEN "malformedSignature" ELSE "ok"
      BY <1>4, AlgChecks DEF Gate
    <2> HIDE DEF b, m, p, d
    <2>5. FirstRefusal(s) = IF b THEN "malformedSignature" ELSE IF c THEN "invalidSignature" ELSE "ok"
      <3> HIDE DEF c
      <3>1. QED
        BY <2>2, TwoChecks
    <2>6. s \in Checks /\ Len(s) = 2
      <3> HIDE DEF c
      <3>1. QED
        BY <2>2 DEF Checks, Outcomes
    <2> HIDE DEF s
    <2>7. /\ m \o s \in Checks /\ Len(m \o s) = 5
          /\ FirstRefusal(m \o s) = IF FirstRefusal(m) # "ok" THEN FirstRefusal(m) ELSE FirstRefusal(s)
      <3>1. Len(m) + Len(s) = 5 /\ Len(m) + Len(s) <= 9
        BY <2>3, <2>6
      <3>2. QED
        BY <2>3, <2>6, <3>1, Parts
    <2>8. /\ m \o s \o d \in Checks /\ Len(m \o s \o d) = 5 + Len(d)
          /\ FirstRefusal(m \o s \o d) =
               IF FirstRefusal(m \o s) # "ok" THEN FirstRefusal(m \o s) ELSE FirstRefusal(d)
      <3>1. Len(m \o s) + Len(d) = 5 + Len(d) /\ Len(m \o s) + Len(d) <= 9
        BY <1>2, <2>7
      <3>2. QED
        BY <1>2, <2>7, <3>1, Parts
    <2>9. FirstRefusal(m \o s \o d \o p) =
            IF FirstRefusal(m \o s \o d) # "ok" THEN FirstRefusal(m \o s \o d) ELSE FirstRefusal(p)
      <3>1. Len(m \o s \o d) + Len(p) <= 9
        BY <1>1, <1>2, <2>8
      <3>2. QED
        BY <1>1, <2>8, <3>1, Parts
    <2>10. QED
      BY <1>1, <1>2, <2>1, <2>4, <2>5, <2>7, <2>8, <2>9 DEF Opened
  <1>5. QED
    BY <1>3, <1>4

\* What stops a key-set verification before any key is tried.
SetGate(f, set, in) ==
  IF f.kind = "license" THEN
    IF Gate(f, in) # "ok" THEN Gate(f, in) ELSE IF set = {} THEN "noUsableKey" ELSE "ok"
  ELSE IF FirstRefusal(machineAlgChecks(f, in)) # "ok" THEN FirstRefusal(machineAlgChecks(f, in))
  ELSE IF in.scheme # "ed25519" \/ set = {} THEN "noUsableKey"
  ELSE IF f.damage = "signature" THEN "malformedSignature" ELSE "ok"

LEMMA BeforeKeysOutcome ==
  ASSUME NEW f \in File, NEW in \in Inputs(f.kind), NEW set
  PROVE  FirstRefusal(BeforeKeys(f, set, in)) = SetGate(f, set, in)
  <1>1. CASE f.kind = "license"
    <2> DEFINE a == ~f.v2 \/ f.sign # "ed25519"
               b == f.damage = "signature"
               c == set = {}
    <2>1. BeforeKeys(f, set, in) =
            << <<a, "unsupportedAlgorithm">>, <<b, "malformedSignature">>, <<c, "noUsableKey">> >>
      BY <1>1 DEF BeforeKeys, validateLicenseFileAlg, malformedSig, emptySet
    <2>2. a \in BOOLEAN /\ b \in BOOLEAN /\ c \in BOOLEAN
      OBVIOUS
    <2>3. SetGate(f, set, in) = IF a THEN "unsupportedAlgorithm" ELSE IF b THEN "malformedSignature"
                                ELSE IF c THEN "noUsableKey" ELSE "ok"
      BY <1>1 DEF SetGate, Gate
    <2> HIDE DEF a, b, c
    <2>4. QED
      BY <2>1, <2>2, <2>3, ThreeChecks
  <1>2. CASE f.kind # "license"
    <2> DEFINE a == in.scheme # "ed25519"
               b == set = {}
               c == f.damage = "signature"
               m == machineAlgChecks(f, in)
               s == << <<a, "noUsableKey">>, <<b, "noUsableKey">>, <<c, "malformedSignature">> >>
    <2>1. BeforeKeys(f, set, in) = m \o s
      BY <1>2 DEF BeforeKeys, malformedSig, emptySet
    <2>2. a \in BOOLEAN /\ b \in BOOLEAN /\ c \in BOOLEAN
      OBVIOUS
    <2>3. SetGate(f, set, in) = IF FirstRefusal(m) # "ok" THEN FirstRefusal(m)
                                ELSE IF a THEN "noUsableKey" ELSE IF b THEN "noUsableKey"
                                ELSE IF c THEN "malformedSignature" ELSE "ok"
      BY <1>2 DEF SetGate
    <2>4. m \in Checks /\ Len(m) = 3
      BY AlgChecks
    <2> HIDE DEF a, b, c, m
    <2>5. FirstRefusal(s) = IF a THEN "noUsableKey" ELSE IF b THEN "noUsableKey"
                            ELSE IF c THEN "malformedSignature" ELSE "ok"
      BY <2>2, ThreeChecks
    <2>6. s \in Checks /\ Len(s) = 3
      BY <2>2 DEF Checks, Outcomes
    <2> HIDE DEF s
    <2>7. Len(m) + Len(s) <= 9
      BY <2>4, <2>6
    <2>8. FirstRefusal(m \o s) = IF FirstRefusal(m) # "ok" THEN FirstRefusal(m) ELSE FirstRefusal(s)
      BY <2>4, <2>6, <2>7, Parts
    <2>9. QED
      BY <2>1, <2>3, <2>5, <2>8
  <1>3. QED
    BY <1>1, <1>2

\* The keys of the set that vouch for the file.
Signing(f, set) == {e \in set : SignedBy(f, e.publicKey)}

\* VerifyWithKeySet, in the order of its checks.
LEMMA SetOutcome ==
  ASSUME NEW f \in File, NEW in \in Inputs(f.kind), NEW set
  PROVE  /\ VerifyWithKeySet(f, set, in).outcome =
              IF SetGate(f, set, in) # "ok" THEN SetGate(f, set, in)
              ELSE IF Signing(f, set) # {} THEN Opened(f, in)
              ELSE IF Decoded(f, in) # "ok" THEN unverifiableFileError(Decoded(f, in))
              ELSE keySetFailure(set, f.kid)
         /\ VerifyWithKeySet(f, set, in).outcome = "ok" /\ SetGate(f, set, in) = "ok" /\ Signing(f, set) # {}
              => VerifyWithKeySet(f, set, in).key = (CHOOSE e \in Signing(f, set) : TRUE).publicKey
  <1>1. FirstRefusal(BeforeKeys(f, set, in)) = SetGate(f, set, in)
    BY BeforeKeysOutcome
  <1>2. FirstRefusal(decodePlaintext(f, in)) = Decoded(f, in)
    BY DecodeChecks
  <1>3. FirstRefusal(decodePlaintext(f, in) \o payloadFrom(f, in)) = Opened(f, in)
    BY TailChecks
  <1>4. {e \in TriedKeys(set) : SignedBy(f, e.publicKey)} = Signing(f, set)
    BY DEF TriedKeys, Signing
  <1>5. QED
    BY <1>1, <1>2, <1>3, <1>4 DEF VerifyWithKeySet

\* "ok" takes every gate, a signature and a payload that opens.
LEMMA OkMeans ==
  ASSUME NEW f \in File, NEW in \in Inputs(f.kind), NEW set,
         VerifyWithKeySet(f, set, in).outcome = "ok"
  PROVE  /\ SetGate(f, set, in) = "ok" /\ Gate(f, in) = "ok"
         /\ Signing(f, set) # {} /\ Decoded(f, in) = "ok" /\ ~TooLate(f, in)
         /\ VerifyWithKeySet(f, set, in).key = f.signer /\ f.damage = "none"
         /\ \E e \in set : e.publicKey = f.signer
  <1>1. /\ Decoded(f, in) # "ok" => unverifiableFileError(Decoded(f, in)) # "ok"
        /\ keySetFailure(set, f.kid) # "ok"
    BY DEF unverifiableFileError, keySetFailure, UnknownSigningKeyError
  <1>2. SetGate(f, set, in) = "ok" /\ Signing(f, set) # {} /\ Opened(f, in) = "ok"
    BY <1>1, SetOutcome
  <1>3. VerifyWithKeySet(f, set, in).key = (CHOOSE e \in Signing(f, set) : TRUE).publicKey
    BY <1>2, SetOutcome
  <1>4. (CHOOSE e \in Signing(f, set) : TRUE) \in Signing(f, set)
    BY <1>2
  <1>5. \A e \in Signing(f, set) : e \in set /\ f.damage = "none" /\ f.signer = e.publicKey
    BY DEF Signing, SignedBy
  <1>6. Gate(f, in) = "ok"
    BY <1>2, AlgChecks DEF SetGate, Gate
  <1>7. Decoded(f, in) = "ok" /\ ~TooLate(f, in)
    BY <1>2 DEF Opened
  <1>8. QED
    BY <1>2, <1>3, <1>4, <1>5, <1>6, <1>7

-----------------------------------------------------------------------------
(* Types. *)

LEMMA IssueType ==
  ASSUME TypeOK, NEW r \in Requests, Issue(r)
  PROVE  TypeOK'
  <1> DEFINE f == [kind |-> r.kind, enc |-> r.enc, sign |-> r.sign, v2 |-> TRUE,
                   signer |-> IF r.sign # "ed25519" THEN RSAKey
                              ELSE IF active = NoKey THEN HiddenKey ELSE active,
                   kid |-> KeyID(active), exp |-> IF r.ttl = 0 THEN 0 ELSE now + r.ttl,
                   damage |-> "none"]
  <1>1. f \in File
    <2>1. r \in [kind : Kinds, enc : Encodings, sign : Suffixes, ttl : Nat]
      BY ConfigOK
    <2>2. active \in Keys \union {NoKey} /\ now \in Nat
      BY ConfigOK DEF TypeOK
    <2>3. KeyID(active) \in KeyIDs
      BY <2>2 DEF KeyIDs
    <2>4. QED
      BY <2>1, <2>2, <2>3 DEF File, Signers
  <1>2. files' = files \union {f}
    BY DEF Issue
  <1> HIDE DEF f
  <1>3. IsFiniteSet(files') /\ Cardinality(files') <= MaxFiles
    <2>1. Cardinality(files) \in Nat /\ Cardinality(files) < MaxFiles /\ IsFiniteSet(files)
      BY FS_CardinalityType DEF TypeOK, Issue
    <2>2. IsFiniteSet(files') /\ Cardinality(files') <= Cardinality(files) + 1
      BY <1>2, <2>1, FS_AddElement
    <2>3. Cardinality(files') \in Nat
      BY <2>2, FS_CardinalityType
    <2>4. QED
      BY <2>1, <2>2, <2>3, ConfigOK
  <1>4. /\ files' \subseteq File /\ files \subseteq files'
        /\ UNCHANGED <<now, account, reply, held, covers>>
    BY <1>1, <1>2 DEF TypeOK, Issue
  <1>5. reply' \in [rows : SUBSET Row, files : SUBSET files', under : BOOLEAN] /\ covers' \subseteq files'
    BY <1>4 DEF TypeOK
  <1>6. QED
    BY <1>3, <1>4, <1>5 DEF TypeOK, account

\* A row the server publishes, and what the set makes of it.
LEMMA RowTypes ==
  /\ \A k \in Keys : PublishedRow(k) \in Row
  /\ \A rs \in SUBSET Row : NewSigningKeySet(rs) \subseteq Entry /\ Retire(rs) \subseteq Row
  <1>1. ASSUME NEW k \in Keys  PROVE PublishedRow(k) \in Row
    BY ConfigOK DEF PublishedRow, Row, KeyIDs
  <1>2. ASSUME NEW r \in Row, Usable(r)  PROVE EntryOf(r) \in Entry
    <2>1. r.publicKey \in Keys
      BY <1>2 DEF Usable, Row
    <2>2. QED
      BY <2>1 DEF EntryOf, Entry, Row, KeyIDs
  <1>3. ASSUME NEW r \in Row  PROVE [r EXCEPT !.retired = TRUE] \in Row
    BY DEF Row
  <1>4. QED
    BY <1>1, <1>2, <1>3 DEF NewSigningKeySet, Retire

LEMMA InitType == Init => TypeOK
  <1> SUFFICES ASSUME Init PROVE TypeOK
    OBVIOUS
  <1>1. rows \subseteq Row
    BY RowTypes DEF Init
  <1>2. /\ \A r, t \in rows : r.id = t.id => r = t
        /\ \A r \in rows : ~r.retired <=> r.id = KeyID(active)
    <2>1. CASE active = NoKey /\ rows = {}
      BY <2>1
    <2>2. CASE \E k \in Keys : active = k /\ rows = {PublishedRow(k)}
      <3>1. PICK k \in Keys : active = k /\ rows = {PublishedRow(k)}
        BY <2>2
      <3>2. PublishedRow(k).retired = FALSE /\ PublishedRow(k).id = KeyID(k)
        BY DEF PublishedRow
      <3>3. QED
        BY <3>1, <3>2
    <2>3. QED
      BY <2>1, <2>2 DEF Init
  <1>3. files \subseteq File /\ IsFiniteSet(files) /\ Cardinality(files) <= MaxFiles
    BY FS_EmptySet, ConfigOK DEF Init
  <1>4. reply \in [rows : SUBSET Row, files : SUBSET files, under : BOOLEAN]
    BY DEF Init, NoReply
  <1>5. held \subseteq Entry
    <2>1. ASSUME NEW k \in Keys
          PROVE  [id |-> KeyID(k), computedID |-> KeyID(k), publicKey |-> k, retired |-> FALSE] \in Entry
      BY DEF Entry, KeyIDs
    <2>2. QED
      BY <2>1, ConfigOK DEF Init, NewSigningKeySetFromPublicKeys
  <1>6. now \in 1..MaxNow /\ active \in Keys \union {NoKey} /\ deleted \subseteq Keys /\ covers \subseteq files
    <2>1. now \in 1..MaxNow
      BY ConfigOK DEF Init
    <2>2. active \in Keys \union {NoKey} /\ deleted \subseteq Keys /\ covers \subseteq files
      BY DEF Init
    <2>3. QED
      BY <2>1, <2>2
  <1>7. QED
    BY <1>1, <1>2, <1>3, <1>4, <1>5, <1>6 DEF TypeOK

LEMMA NextType ==
  ASSUME TypeOK, [Next]_vars
  PROVE  TypeOK'
  <1>1. ASSUME NEW k \in Keys, Rotate(k)  PROVE TypeOK'
    <2>1. rows' = Retire(rows) \union {PublishedRow(k)} /\ active' = k
      BY <1>1 DEF Rotate
    <2>2. rows' \subseteq Row
      BY <2>1, RowTypes DEF TypeOK
    <2>3. \A r \in Retire(rows) : r.retired = TRUE /\ r.id # KeyID(k)
                                  /\ \E t \in rows : r = [t EXCEPT !.retired = TRUE] /\ r.id = t.id
      BY <1>1 DEF TypeOK, Row, Retire, Rotate
    <2>4. PublishedRow(k).id = KeyID(k) /\ ~PublishedRow(k).retired
      BY DEF PublishedRow
    <2>5. \A r, t \in rows' : r.id = t.id => r = t
      <3>1. \A r \in Retire(rows) : r # PublishedRow(k) /\ r.id # PublishedRow(k).id
        BY <2>3, <2>4
      <3>2. ASSUME NEW r \in Retire(rows), NEW t \in Retire(rows), r.id = t.id  PROVE r = t
        <4>1. PICK x \in rows : r = [x EXCEPT !.retired = TRUE] /\ r.id = x.id
          BY <2>3
        <4>2. PICK y \in rows : t = [y EXCEPT !.retired = TRUE] /\ t.id = y.id
          BY <2>3
        <4>3. x = y
          BY <3>2, <4>1, <4>2 DEF TypeOK
        <4>4. QED
          BY <4>1, <4>2, <4>3
      <3>3. QED
        BY <2>1, <3>1, <3>2
    <2>6. \A r \in rows' : ~r.retired <=> r.id = KeyID(k)
      BY <2>1, <2>3, <2>4
    <2>7. QED
      BY <1>1, <2>1, <2>2, <2>5, <2>6 DEF Rotate, TypeOK
  <1>2. ASSUME NEW k \in Keys, DeleteKey(k)  PROVE TypeOK'
    BY <1>2 DEF DeleteKey, TypeOK
  <1>3. ASSUME NEW r \in Requests, Issue(r)  PROVE TypeOK'
    BY <1>3, IssueType
  <1>4. CASE ServerListsKeys
    BY <1>4 DEF ServerListsKeys, TypeOK, account
  <1>5. CASE GetSigningKeySet
    <2>1. held' \subseteq Entry /\ covers' \subseteq files
      BY <1>5, RowTypes DEF GetSigningKeySet, TypeOK
    <2>2. reply' \in [rows : SUBSET Row, files : SUBSET files, under : BOOLEAN]
      BY <1>5 DEF GetSigningKeySet, NoReply
    <2>3. QED
      BY <1>5, <2>1, <2>2 DEF GetSigningKeySet, TypeOK, account
  <1>6. CASE FetchFails
    <2>1. reply' \in [rows : SUBSET Row, files : SUBSET files, under : BOOLEAN]
      BY <1>6 DEF FetchFails, NoReply
    <2>2. QED
      BY <1>6, <2>1 DEF FetchFails, TypeOK, account
  <1>7. CASE Tick
    BY <1>7, ConfigOK DEF Tick, TypeOK, account
  <1>8. CASE UNCHANGED vars
    BY <1>8 DEF vars, account, TypeOK
  <1>9. QED
    BY <1>1, <1>2, <1>3, <1>4, <1>5, <1>6, <1>7, <1>8
    DEF Next, CheckOutLicense, CheckOutMachine

\* Type correctness, for any keys and any rotations: one row per key, and the
\* only row that is not retired is that of the key the account signs with.
THEOREM TypeCorrect == Spec => []TypeOK
  BY InitType, NextType, PTL DEF Spec

-----------------------------------------------------------------------------
(* What is accepted. *)

LEMMA HandedType ==
  ASSUME TypeOK
  PROVE  Handed \subseteq File
  <1>1. ASSUME NEW f \in File  PROVE Copies(f) \subseteq File
    <2>1. [f EXCEPT !.v2 = FALSE] \in File
      BY DEF File
    <2>2. [f EXCEPT !.damage = "signature"] \in File /\ [f EXCEPT !.damage = "payload"] \in File
      BY DEF File
    <2>3. [f EXCEPT !.damage = "payload", !.kid = None] \in File
      BY DEF File
    <2>4. QED
      BY <2>1, <2>2, <2>3 DEF Copies
  <1>2. QED
    BY <1>1 DEF Handed, TypeOK

\* An accepted file is unchanged, signed by the key that is returned, and opens
\* only for its own license key, fingerprint and scheme.
THEOREM AcceptedHolds == Spec => []AcceptedIsGenuine
  <1>1. ASSUME TypeOK, NEW f \in Handed, NEW in \in Inputs(f.kind), Outcome(f, in) = "ok"
        PROVE  /\ Genuine(f) /\ Fits(f, in)
               /\ f.signer = VerifyWithKeySet(f, held, in).key
               /\ \E e \in held : e.publicKey = f.signer
    <2>1. f \in File
      BY <1>1, HandedType
    <2>2. /\ Gate(f, in) = "ok" /\ Decoded(f, in) = "ok" /\ f.damage = "none"
          /\ VerifyWithKeySet(f, held, in).key = f.signer
          /\ \E e \in held : e.publicKey = f.signer
      BY <1>1, <2>1, OkMeans DEF Outcome
    <2>3. f.v2
      BY <2>1, <2>2 DEF Gate, File
    <2>4. f.kind = "machine" => schemeAlgSuffix(in.scheme) = f.sign /\ in.scheme # "jwt"
      BY <2>2 DEF Gate
    <2>5. /\ f.enc = "aes-256-gcm" => in.licenseKey = "right"
          /\ f.enc = "aes-256-gcm" /\ f.kind = "machine" => in.fingerprint = "right"
      BY <2>2 DEF Decoded, Inputs
    <2>6. QED
      BY <2>2, <2>3, <2>4, <2>5 DEF Genuine, Fits
  <1>2. TypeOK => AcceptedIsGenuine
    BY <1>1 DEF AcceptedIsGenuine
  <1>3. QED
    BY <1>2, TypeCorrect, PTL

\* With clocks at most Skew apart no file expires early, and none is accepted
\* more than twice Skew late.
THEOREM ExpiryHolds == Spec => []ExpiryWithinSkew
  <1>1. ASSUME TypeOK, NEW f \in files, NEW in \in Inputs(f.kind)
        PROVE  /\ Outcome(f, in) = "expired" => f.exp # 0 /\ now > f.exp
               /\ Outcome(f, in) = "ok" /\ f.exp # 0 => now <= f.exp + 2 * Skew
    <2>1. f \in File /\ f.exp \in Nat /\ now \in Nat /\ Skew \in Nat
      <3>1. f \in File /\ now \in 1..MaxNow
        BY <1>1 DEF TypeOK
      <3>2. f.exp \in Nat
        BY <3>1 DEF File
      <3>3. QED
        BY <3>1, <3>2, ConfigOK
    <2>2. in.drift \in Int /\ in.drift >= -Skew /\ in.drift <= Skew
      <3>1. in.drift \in Drifts
        BY DEF Inputs
      <3>2. in.drift \in (-Skew)..Skew
        BY <3>1, ConfigOK
      <3>3. QED
        BY <2>1, <3>2
    <2>3. ASSUME Outcome(f, in) = "expired"  PROVE TooLate(f, in)
      <3>1. /\ SetGate(f, held, in) # "expired"
            /\ Decoded(f, in) # "expired"
            /\ unverifiableFileError(Decoded(f, in)) # "expired"
            /\ keySetFailure(held, f.kid) # "expired"
        BY <2>1, AlgChecks DEF SetGate, Gate, Decoded, unverifiableFileError, keySetFailure, UnknownSigningKeyError
      <3>2. Opened(f, in) = "expired"
        BY <2>1, <2>3, <3>1, SetOutcome DEF Outcome
      <3>3. QED
        BY <3>1, <3>2 DEF Opened
    <2>4. ASSUME Outcome(f, in) = "ok"  PROVE ~TooLate(f, in)
      BY <2>1, <2>4, OkMeans DEF Outcome
    <2>5. QED
      BY <2>1, <2>2, <2>3, <2>4 DEF TooLate, LocalNow
  <1>2. TypeOK => ExpiryWithinSkew
    BY <1>1 DEF ExpiryWithinSkew
  <1>3. QED
    BY <1>2, TypeCorrect, PTL

\* A file that one key of the set verifies gets from the set exactly the
\* verdict Verify gives under that key, errors included.
THEOREM SetExtendsHolds == Spec => []SetExtendsVerify
  <1>1. ASSUME TypeOK, NEW f \in Handed, NEW in \in Inputs(f.kind), NEW e \in held,
               f.sign = "ed25519", Verify(f, e.publicKey, in) # "invalidSignature"
        PROVE  Outcome(f, in) = Verify(f, e.publicKey, in)
    <2>1. f \in File /\ held # {}
      BY <1>1, HandedType
    <2>2. CASE Gate(f, in) # "ok"
      <3>1. SetGate(f, held, in) = Gate(f, in)
        BY <1>1, <2>1, <2>2, AlgChecks DEF SetGate, Gate, schemeAlgSuffix
      <3>2. QED
        BY <2>1, <2>2, <3>1, VerifyOutcome, SetOutcome DEF Outcome
    <2>3. CASE Gate(f, in) = "ok"
      <3>1. SetGate(f, held, in) = "ok"
        BY <1>1, <2>1, <2>3, AlgChecks DEF SetGate, Gate, schemeAlgSuffix
      <3>2. SignedBy(f, e.publicKey) /\ Verify(f, e.publicKey, in) = Opened(f, in)
        BY <1>1, <2>1, <2>3, VerifyOutcome
      <3>3. Signing(f, held) # {}
        BY <3>2 DEF Signing
      <3>4. QED
        BY <2>1, <3>1, <3>2, <3>3, SetOutcome DEF Outcome
    <2>4. QED
      BY <2>2, <2>3
  <1>2. TypeOK => SetExtendsVerify
    BY <1>1 DEF SetExtendsVerify
  <1>3. QED
    BY <1>2, TypeCorrect, PTL

-----------------------------------------------------------------------------
(* Rotations. *)

\* The server's row for the key k is among rs.
RowFor(k, rs) == \E r \in rs : r.id = KeyID(k) /\ r.publicKey = RowKey[k]

\* A row is published under the id of a key, with the bytes RowKey gives it.
RowsOfKeys(rs) == \A r \in rs : \E k \in Keys : r.id = KeyID(k) /\ r.publicKey = RowKey[k]

\* An entry carries the id of a key, and the bytes it was pinned or published
\* with.
EntriesOfKeys ==
  \A e \in held : /\ e.computedID = KeyID(e.publicKey)
                  /\ \E k \in Keys : e.id = KeyID(k) /\ e.publicKey \in {k, RowKey[k]}

\* A file as check-out issues it names the key that signed it, or the empty one.
Issued(f) ==
  /\ f.v2 /\ f.damage = "none"
  /\ f.kind = "license" => f.sign = "ed25519"
  /\ f.sign = "ed25519" => \/ f.signer \in Keys /\ f.kid = KeyID(f.signer)
                           \/ f.signer = HiddenKey /\ f.kid = KeyID(NoKey)
  /\ f.sign # "ed25519" => f.signer = RSAKey

Standing(f) == f.signer \in Keys \ deleted

\* The rows of the account, of a reply and of the set held are those of the
\* keys that signed the files of their time, deleted keys apart.
RowsReach ==
  /\ active \in Keys => RowFor(active, rows)
  /\ \A f \in files : Standing(f) => RowFor(f.signer, rows)
  /\ \A f \in reply.files : Standing(f) => RowFor(f.signer, reply.rows)
  /\ \A f \in covers : Standing(f) /\ RowKey[f.signer] \notin Undecodable
       => \E e \in held : e.publicKey = RowKey[f.signer]

Inv ==
  /\ RowsOfKeys(rows) /\ RowsOfKeys(reply.rows) /\ EntriesOfKeys
  /\ \A f \in files : Issued(f)
  /\ RowsReach

LEMMA RetireKeepsRows ==
  ASSUME NEW rs \in SUBSET Row
  PROVE  /\ RowsOfKeys(rs) => RowsOfKeys(Retire(rs))
         /\ \A k \in Keys : RowFor(k, rs) => RowFor(k, Retire(rs))
  <1>1. \A r \in rs : /\ [r EXCEPT !.retired = TRUE].id = r.id
                      /\ [r EXCEPT !.retired = TRUE].publicKey = r.publicKey
                      /\ [r EXCEPT !.retired = TRUE] \in Retire(rs)
    BY DEF Row, Retire
  <1>2. \A r \in Retire(rs) : \E t \in rs : r.id = t.id /\ r.publicKey = t.publicKey
    BY DEF Row, Retire
  <1>3. QED
    <2>1. RowsOfKeys(rs) => RowsOfKeys(Retire(rs))
      <3> SUFFICES ASSUME RowsOfKeys(rs), NEW r \in Retire(rs)
                   PROVE  \E k \in Keys : r.id = KeyID(k) /\ r.publicKey = RowKey[k]
        BY DEF RowsOfKeys
      <3>1. PICK t \in rs : r.id = t.id /\ r.publicKey = t.publicKey
        BY <1>2
      <3>2. QED
        BY <3>1 DEF RowsOfKeys
    <2>2. ASSUME NEW k \in Keys, RowFor(k, rs)  PROVE RowFor(k, Retire(rs))
      <3>1. PICK r \in rs : r.id = KeyID(k) /\ r.publicKey = RowKey[k]
        BY <2>2 DEF RowFor
      <3>2. QED
        BY <1>1, <3>1 DEF RowFor
    <2>3. QED
      BY <2>1, <2>2

LEMMA NewSetOfRows ==
  ASSUME NEW rs \in SUBSET Row, RowsOfKeys(rs)
  PROVE  /\ \A e \in NewSigningKeySet(rs) :
              /\ e.computedID = KeyID(e.publicKey)
              /\ \E k \in Keys : e.id = KeyID(k) /\ e.publicKey \in {k, RowKey[k]}
         /\ \A k \in Keys : RowFor(k, rs) /\ RowKey[k] \notin Undecodable
              => \E e \in NewSigningKeySet(rs) : e.publicKey = RowKey[k]
  <1>1. ASSUME NEW e \in NewSigningKeySet(rs)
        PROVE  /\ e.computedID = KeyID(e.publicKey)
               /\ \E k \in Keys : e.id = KeyID(k) /\ e.publicKey \in {k, RowKey[k]}
    <2>1. PICK r \in rs : e = EntryOf(r)
      BY DEF NewSigningKeySet
    <2>2. e.id = r.id /\ e.publicKey = r.publicKey /\ e.computedID = KeyID(r.publicKey)
      BY <2>1 DEF EntryOf
    <2>3. QED
      BY <2>2 DEF RowsOfKeys
  <1>2. ASSUME NEW k \in Keys, RowFor(k, rs), RowKey[k] \notin Undecodable
        PROVE  \E e \in NewSigningKeySet(rs) : e.publicKey = RowKey[k]
    <2>1. PICK r \in rs : r.publicKey = RowKey[k]
      BY <1>2 DEF RowFor
    <2>2. EntryOf(r) \in NewSigningKeySet(rs)
      BY <1>2, <2>1 DEF NewSigningKeySet, Usable
    <2>3. EntryOf(r).publicKey = RowKey[k]
      BY <2>1 DEF EntryOf
    <2>4. QED
      BY <2>2, <2>3
  <1>3. QED
    BY <1>1, <1>2

LEMMA InvInit == Init => Inv
  <1> SUFFICES ASSUME Init PROVE Inv
    OBVIOUS
  <1>1. \A k \in Keys : PublishedRow(k).id = KeyID(k) /\ PublishedRow(k).publicKey = RowKey[k]
    BY DEF PublishedRow
  <1>2. RowsOfKeys(rows) /\ (active \in Keys => RowFor(active, rows))
    <2>1. CASE active = NoKey /\ rows = {}
      BY <2>1, ConfigOK DEF RowsOfKeys
    <2>2. CASE \E k \in Keys : active = k /\ rows = {PublishedRow(k)}
      BY <1>1, <2>2 DEF RowsOfKeys, RowFor
    <2>3. QED
      BY <2>1, <2>2 DEF Init
  <1>3. RowsOfKeys(reply.rows) /\ reply.files = {} /\ files = {} /\ covers = {}
    BY DEF Init, NoReply, RowsOfKeys
  <1>4. EntriesOfKeys
    BY ConfigOK DEF Init, NewSigningKeySetFromPublicKeys, EntriesOfKeys
  <1>5. QED
    BY <1>2, <1>3, <1>4 DEF Inv, RowsReach

LEMMA RotateStep ==
  ASSUME TypeOK, Inv, NEW k \in Keys, Rotate(k)
  PROVE  Inv'
  <1>1. rows' = Retire(rows) \union {PublishedRow(k)} /\ active' = k
        /\ UNCHANGED <<now, deleted, files, reply, held, covers>>
    BY DEF Rotate
  <1>2. PublishedRow(k).id = KeyID(k) /\ PublishedRow(k).publicKey = RowKey[k]
    BY DEF PublishedRow
  <1>3. RowsOfKeys(Retire(rows)) /\ \A q \in Keys : RowFor(q, rows) => RowFor(q, Retire(rows))
    BY RetireKeepsRows DEF TypeOK, Inv
  <1>4. RowsOfKeys(rows')
    BY <1>1, <1>2, <1>3 DEF RowsOfKeys
  <1>5. RowFor(k, rows') /\ \A q \in Keys : RowFor(q, rows) => RowFor(q, rows')
    BY <1>1, <1>2, <1>3 DEF RowFor
  <1>6. RowsReach'
    BY <1>1, <1>5 DEF Inv, RowsReach, Standing, RowFor
  <1>7. QED
    BY <1>1, <1>4, <1>6 DEF Inv, EntriesOfKeys, Issued, RowsOfKeys

LEMMA DeleteStep ==
  ASSUME TypeOK, Inv, NEW k \in Keys, DeleteKey(k)
  PROVE  Inv'
  <1>1. /\ rows' = {r \in rows : r.id # KeyID(k)} /\ deleted' = deleted \union {k} /\ k # active
        /\ UNCHANGED <<now, active, files, reply, held, covers>>
    BY DEF DeleteKey
  <1>2. \A q \in Keys \ {k} : RowFor(q, rows) => RowFor(q, rows')
    BY <1>1 DEF RowFor, KeyID
  <1>3. RowsOfKeys(rows')
    BY <1>1 DEF Inv, RowsOfKeys
  <1>4. \A f : Standing(f)' => Standing(f) /\ f.signer # k
    BY <1>1 DEF Standing
  <1>5. RowsReach'
    BY <1>1, <1>2, <1>4 DEF Inv, RowsReach, Standing, RowFor
  <1>6. QED
    BY <1>1, <1>3, <1>5 DEF Inv, EntriesOfKeys, Issued, RowsOfKeys

LEMMA IssueStep ==
  ASSUME TypeOK, Inv, NEW r \in Requests, Issue(r)
  PROVE  Inv'
  <1> DEFINE f == [kind |-> r.kind, enc |-> r.enc, sign |-> r.sign, v2 |-> TRUE,
                   signer |-> IF r.sign # "ed25519" THEN RSAKey
                              ELSE IF active = NoKey THEN HiddenKey ELSE active,
                   kid |-> KeyID(active), exp |-> IF r.ttl = 0 THEN 0 ELSE now + r.ttl,
                   damage |-> "none"]
  <1>1. files' = files \union {f} /\ UNCHANGED <<now, account, reply, held, covers>>
    BY DEF Issue
  <1>2. active \in Keys \union {NoKey}
    BY DEF TypeOK
  <1>3. Issued(f)
    BY <1>2, ConfigOK DEF Issued
  <1>4. f.signer \in Keys => f.signer = active
    BY <1>2, ConfigOK
  <1> HIDE DEF f
  <1>5. Standing(f) => RowFor(f.signer, rows)
    BY <1>2, <1>4 DEF Inv, RowsReach, Standing
  <1>6. RowsReach'
    BY <1>1, <1>5 DEF Inv, RowsReach, Standing, RowFor, account
  <1>7. QED
    BY <1>1, <1>3, <1>6 DEF Inv, EntriesOfKeys, Issued, RowsOfKeys, account

LEMMA InvStep ==
  ASSUME TypeOK, Inv, [Next]_vars
  PROVE  Inv'
  <1>1. ASSUME NEW k \in Keys, Rotate(k)  PROVE Inv'
    BY <1>1, RotateStep
  <1>2. ASSUME NEW k \in Keys, DeleteKey(k)  PROVE Inv'
    BY <1>2, DeleteStep
  <1>3. ASSUME NEW r \in Requests, Issue(r)  PROVE Inv'
    BY <1>3, IssueStep
  <1>4. CASE ServerListsKeys
    <2>1. reply'.rows = rows /\ reply'.files = files /\ UNCHANGED <<now, account, files, held, covers>>
      BY <1>4 DEF ServerListsKeys
    <2>2. RowsReach'
      BY <2>1 DEF Inv, RowsReach, Standing, RowFor, account
    <2>3. QED
      BY <2>1, <2>2 DEF Inv, EntriesOfKeys, Issued, RowsOfKeys, account
  <1>5. CASE GetSigningKeySet
    <2>1. /\ reply'.rows = {} /\ reply'.files = {} /\ held' = NewSigningKeySet(reply.rows)
          /\ covers' = reply.files /\ UNCHANGED <<now, account, files>>
      BY <1>5 DEF GetSigningKeySet, NoReply
    <2>2. reply.rows \in SUBSET Row /\ RowsOfKeys(reply.rows)
      BY DEF TypeOK, Inv
    <2>3. EntriesOfKeys'
      BY <2>1, <2>2, NewSetOfRows DEF EntriesOfKeys
    <2>4. \A f \in covers' : Standing(f)' /\ RowKey[f.signer] \notin Undecodable
            => \E e \in held' : e.publicKey = RowKey[f.signer]
      <3> TAKE f \in covers'
      <3> HAVE Standing(f)' /\ RowKey[f.signer] \notin Undecodable
      <3>1. f.signer \in Keys /\ RowFor(f.signer, reply.rows)
        BY <2>1 DEF Standing, Inv, RowsReach, account
      <3>2. QED
        BY <2>1, <2>2, <3>1, NewSetOfRows
    <2>5. RowsReach'
      BY <2>1, <2>4 DEF Inv, RowsReach, Standing, RowFor, account
    <2>6. QED
      BY <2>1, <2>3, <2>5 DEF Inv, Issued, RowsOfKeys, account
  <1>6. CASE FetchFails
    <2>1. reply'.rows = {} /\ reply'.files = {} /\ UNCHANGED <<now, account, files, held, covers>>
      BY <1>6 DEF FetchFails, NoReply
    <2>2. RowsReach'
      BY <2>1 DEF Inv, RowsReach, Standing, RowFor, account
    <2>3. QED
      BY <2>1, <2>2 DEF Inv, EntriesOfKeys, Issued, RowsOfKeys, account
  <1>7. CASE Tick \/ UNCHANGED vars
    <2>1. UNCHANGED <<account, files, reply, held, covers>>
      BY <1>7 DEF Tick, vars
    <2>2. QED
      BY <2>1 DEF account, Inv, RowsOfKeys, EntriesOfKeys, Issued, RowsReach, RowFor, Standing
  <1>8. QED
    BY <1>1, <1>2, <1>3, <1>4, <1>5, <1>6, <1>7 DEF Next, CheckOutLicense, CheckOutMachine

LEMMA InvHolds == Spec => []Inv
  BY InvInit, InvStep, TypeCorrect, PTL DEF Spec

\* With inputs that fit, an issued file passes its gate and decodes.
LEMMA FittingOpens ==
  ASSUME NEW f \in File, Issued(f), NEW in \in Inputs(f.kind), Fits(f, in)
  PROVE  /\ Decoded(f, in) = "ok"
         /\ Opened(f, in) \in {"ok", "expired"}
         /\ f.sign = "ed25519" /\ held # {} => SetGate(f, held, in) = "ok"
         /\ SetGate(f, held, in) \in {"ok", "noUsableKey"}
         /\ f.sign # "ed25519" => SetGate(f, held, in) = "noUsableKey"
  <1>1. Decoded(f, in) = "ok"
    BY DEF Decoded, Issued, Fits, File, Encodings, Inputs
  <1>2. Opened(f, in) \in {"ok", "expired"}
    BY <1>1 DEF Opened
  <1>3. CASE f.kind = "license"
    BY <1>1, <1>2, <1>3 DEF SetGate, Gate, Issued
  <1>4. CASE f.kind # "license"
    <2>1. f.kind = "machine"
      BY <1>4 DEF File, Kinds
    <2>2. FirstRefusal(machineAlgChecks(f, in)) = "ok"
      BY <2>1, AlgChecks DEF Issued, Fits
    <2>3. f.sign = "ed25519" <=> in.scheme = "ed25519"
      BY <2>1 DEF Fits, schemeAlgSuffix
    <2>4. QED
      BY <1>1, <1>2, <1>4, <2>2, <2>3 DEF SetGate, Issued
  <1>5. QED
    BY <1>3, <1>4

\* A set read after a file was signed verifies it through any number of
\* rotations, unusable rows and deletions of other keys.
THEOREM RotationSurvivesHolds == Spec => []RotationSurvives
  <1>1. ASSUME TypeOK, Inv, NEW f \in covers, NEW in \in Inputs(f.kind), Fits(f, in),
               f.signer \in Keys \ deleted, RowKey[f.signer] = f.signer
        PROVE  Outcome(f, in) \in {"ok", "expired"}
    <2>1. f \in File /\ Issued(f)
      BY <1>1 DEF TypeOK, Inv
    <2>2. RowKey[f.signer] \notin Undecodable
      BY <1>1, ConfigOK
    <2>3. PICK e \in held : e.publicKey = f.signer
      BY <1>1, <2>2 DEF Inv, RowsReach, Standing
    <2>4. e \in Signing(f, held)
      BY <2>1, <2>3 DEF Signing, SignedBy, Issued
    <2>5. f.sign = "ed25519"
      BY <1>1, <2>1, ConfigOK DEF Issued
    <2>6. SetGate(f, held, in) = "ok" /\ Opened(f, in) \in {"ok", "expired"}
      BY <1>1, <2>1, <2>3, <2>5, FittingOpens
    <2>7. QED
      BY <2>1, <2>4, <2>6, SetOutcome DEF Outcome
  <1>2. TypeOK /\ Inv => RotationSurvives
    BY <1>1 DEF RotationSurvives
  <1>3. QED
    BY <1>2, InvHolds, TypeCorrect, PTL

\* A genuine file is never reported as a forgery, by a set of any age, as long
\* as each row the server publishes holds the key its id names or no key at all.
THEOREM GenuineNeverForgedHolds ==
  ASSUME \A k \in Keys : RowKey[k] \in {k} \union Undecodable
  PROVE  Spec => []GenuineNeverForged
  <1>1. ASSUME TypeOK, Inv, NEW f \in files, NEW in \in Inputs(f.kind), Fits(f, in)
        PROVE  Outcome(f, in) # "invalidSignature"
    <2>1. f \in File /\ Issued(f)
      BY <1>1 DEF TypeOK, Inv
    <2>2. /\ Decoded(f, in) = "ok" /\ Opened(f, in) \in {"ok", "expired"}
          /\ SetGate(f, held, in) \in {"ok", "noUsableKey"}
          /\ f.sign # "ed25519" => SetGate(f, held, in) = "noUsableKey"
      BY <1>1, <2>1, FittingOpens
    <2>3. SUFFICES ASSUME SetGate(f, held, in) = "ok", Signing(f, held) = {}
                   PROVE  keySetFailure(held, f.kid) # "invalidSignature"
      BY <2>1, <2>2, SetOutcome DEF Outcome
    <2>4. f.sign = "ed25519"
      BY <2>2, <2>3
    <2>5. \/ f.signer \in Keys /\ f.kid = KeyID(f.signer)
          \/ f.signer = HiddenKey /\ f.kid = KeyID(NoKey)
      BY <2>1, <2>4 DEF Issued
    <2>6. ASSUME NEW e \in held
          PROVE  e.publicKey \in Keys /\ e.id = KeyID(e.publicKey) /\ e.computedID = KeyID(e.publicKey)
      <3>1. e.publicKey \in Keys /\ e.computedID = KeyID(e.publicKey)
        BY <1>1 DEF TypeOK, Entry, Inv, EntriesOfKeys
      <3>2. PICK k \in Keys : e.id = KeyID(k) /\ e.publicKey \in {k, RowKey[k]}
        BY <1>1 DEF Inv, EntriesOfKeys
      <3>3. e.publicKey = k
        BY <3>1, <3>2, ConfigOK
      <3>4. QED
        BY <3>1, <3>2, <3>3
    <2>7. ASSUME NEW e \in held  PROVE f.kid # KeyID(e.publicKey)
      <3>1. CASE f.signer \in Keys /\ f.kid = KeyID(f.signer)
        <4>1. e.publicKey # f.signer
          BY <2>1, <2>3 DEF Signing, SignedBy, Issued
        <4>2. QED
          BY <3>1, <4>1 DEF KeyID
      <3>2. CASE f.signer = HiddenKey /\ f.kid = KeyID(NoKey)
        BY <2>6, <3>2, ConfigOK DEF KeyID
      <3>3. QED
        BY <2>5, <3>1, <3>2
    <2>8. ~find(held, f.kid)
      BY <2>6, <2>7 DEF find
    <2>9. f.kid # None
      BY <2>5, ConfigOK DEF KeyIDs
    <2>10. QED
      BY <2>8, <2>9 DEF keySetFailure, UnknownSigningKeyError
  <1>2. TypeOK /\ Inv => GenuineNeverForged
    BY <1>1 DEF GenuineNeverForged
  <1>3. QED
    BY <1>2, InvHolds, TypeCorrect, PTL
=============================================================================
