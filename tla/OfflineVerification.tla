-------------------------- MODULE OfflineVerification --------------------------
(***************************************************************************)
(* Offline files and the keys that vouch for them: check-out, the          *)
(* account's key rotations, the SigningKeySet an application holds         *)
(* (signing_key.go), and LicenseFile.Verify, MachineFile.Verify and their  *)
(* key-set variants (checkout_license.go, checkout_machine.go,             *)
(* checkout_key_set.go).                                                   *)
(*                                                                         *)
(* Verifying changes nothing: it is an operator, and the properties ask    *)
(* for its result on every file in every reachable state.                  *)
(***************************************************************************)
EXTENDS Integers, Sequences, FiniteSets, FiniteSetsExt

CONSTANTS
  Keys,        \* Ed25519 key pairs the account signs with, in turn
  RowKey,      \* the public key the server's row for a key holds
  Undecodable, \* rows' keys that are not 32 bytes
  Pinned,      \* the keys compiled into the application
  HiddenKey,   \* signs for an account that has published no key
  RSAKey,      \* signs a machine file under an RSA scheme
  NoKey,       \* the empty public key
  Requests,    \* check-outs asked for: the kind of file, its encoding, the
               \* algorithm of the scheme, and the ttl (0 is none)
  Skew,        \* clockSkewToleranceSeconds
  Drifts,      \* how far the application's clock may be off
  MaxNow,      \* bound: the server's clock
  MaxFiles,    \* bound: files checked out
  None

Kinds     == {"license", "machine"}
Encodings == {"base64", "aes-256-gcm"}
Suffixes  == {"ed25519", "rsa-sha256"}

\* The digest of the key's text, never the key itself.
KeyID(k) == [kid |-> k]
UnpublishedSigningKeyID == KeyID(NoKey)

KeyIDs == {KeyID(k) : k \in Keys \union {NoKey}}

ASSUME ConfigOK ==
  /\ RowKey \in [Keys -> Keys \union Undecodable]
  /\ Keys \intersect Undecodable = {} /\ None \notin KeyIDs
  /\ Pinned \subseteq Keys
  /\ HiddenKey \notin Keys /\ RSAKey \notin Keys /\ HiddenKey # RSAKey
  /\ NoKey \notin Keys \union {HiddenKey, RSAKey}
  /\ \A r \in Requests : r.kind = "license" => r.sign = "ed25519"
  /\ Requests \subseteq [kind : Kinds, enc : Encodings, sign : Suffixes, ttl : Nat]
  /\ Skew \in Nat /\ Drifts \subseteq (-Skew)..Skew
  /\ MaxNow \in Nat \ {0} /\ MaxFiles \in Nat

Signers == Keys \union {HiddenKey, RSAKey}

\* kid is None when nothing in the payload can be read.
File == [kind : Kinds, enc : Encodings, sign : Suffixes, v2 : BOOLEAN, signer : Signers,
         kid : KeyIDs \union {None}, exp : Nat,
         damage : {"none", "signature", "payload"}]

Row   == [id : KeyIDs, publicKey : Keys \union Undecodable, retired : BOOLEAN]
Entry == [id : KeyIDs, computedID : KeyIDs, publicKey : Keys, retired : BOOLEAN]

VARIABLES
  now,     \* the server's clock, from the first check-out on
  active,  \* the key the account signs with; NoKey if none is published
  rows,    \* its published rows
  deleted, \* keys an operator deleted
  files,   \* every file that exists
  reply,   \* the rows on their way to a client, with the files of that moment
  held,    \* the entries of the application's SigningKeySet
  covers   \* history: the files that existed when held was read

account == <<active, rows, deleted>>
vars    == <<now, account, files, reply, held, covers>>

NoReply == [rows |-> {}, files |-> {}, under |-> FALSE]

TypeOK ==
  /\ now \in 1..MaxNow
  /\ active \in Keys \union {NoKey}
  /\ rows \subseteq Row
  /\ \A r, t \in rows : r.id = t.id => r = t
  /\ \A r \in rows : ~r.retired <=> r.id = KeyID(active)
  /\ deleted \subseteq Keys
  /\ files \subseteq File /\ IsFiniteSet(files) /\ Cardinality(files) <= MaxFiles
  /\ reply \in [rows : SUBSET Row, files : SUBSET files, under : BOOLEAN]
  /\ held \subseteq Entry
  /\ covers \subseteq files

-----------------------------------------------------------------------------
(* The key set. *)

PublishedRow(k) == [id |-> KeyID(k), publicKey |-> RowKey[k], retired |-> FALSE]

EntryOf(row) == [id |-> row.id, computedID |-> KeyID(row.publicKey),
                 publicKey |-> row.publicKey, retired |-> row.retired]

Usable(row) == row.publicKey \notin Undecodable

\* Mutant of NewSigningKeySet: rows that do not decode are kept.
SigningKeySetAll(rs) == {EntryOf(r) : r \in rs}

\* Mutant of NewSigningKeySet: one row that does not decode empties the set.
SigningKeySetStrict(rs) ==
  IF \A r \in rs : Usable(r) THEN {EntryOf(r) : r \in rs} ELSE {}

\* Lenient: rows that are not usable are skipped, retired ones are kept. The
\* order of the entries only decides which of two that hold the same key is
\* returned, and what is returned is the key.
NewSigningKeySet(rs) == {EntryOf(r) : r \in {t \in rs : Usable(t)}}

\* Each pinned key under the id computed from it.
NewSigningKeySetFromPublicKeys(ks) ==
  {[id |-> KeyID(k), computedID |-> KeyID(k), publicKey |-> k, retired |-> FALSE] : k \in ks}

find(set, kid) == \E e \in set : kid \in {e.id, e.computedID}

-----------------------------------------------------------------------------
(* Verification. *)

\* What the caller brings beside the key: the license key and, for a machine
\* file, the fingerprint (right, wrong, or none) and the license's scheme; and
\* its clock.
Inputs(kind) ==
  [licenseKey  : {"right", "wrong", "none"},
   fingerprint : IF kind = "machine" THEN {"right", "wrong", "none"} ELSE {"none"},
   scheme      : IF kind = "machine" THEN {"ed25519", "rsa", "jwt"} ELSE {"ed25519"},
   drift       : Drifts]

schemeAlgSuffix(scheme) == IF scheme = "ed25519" THEN "ed25519" ELSE "rsa-sha256"

\* A pipeline is a sequence of checks <<refuse, as>>: the first that refuses
\* gives the outcome, "ok" if none does.
FirstRefusal(checks) ==
  LET refusing == {i \in DOMAIN checks : checks[i][1]}
  IN IF refusing = {} THEN "ok" ELSE checks[Min(refusing)][2]

\* The signature covers the text of enc and nothing else.
SignedBy(f, k) == f.damage = "none" /\ f.signer = k

\* A license file's key is derived from the license key; base64 needs none.
licensePlaintext(f, in) ==
  IF f.enc = "base64" THEN <<>>
  ELSE << <<in.licenseKey = "none", "licenseKeyRequired">>,
          <<f.damage = "payload" \/ in.licenseKey = "wrong", "decryptionFailed">> >>

\* Mutant of machinePlaintext: the key is derived from the license key alone.
machineUnbound(f, in) == licensePlaintext(f, in)

\* A machine file's key is derived from the license key and the fingerprint.
machinePlaintext(f, in) ==
  IF f.enc = "base64" THEN <<>>
  ELSE << <<in.licenseKey = "none", "licenseKeyRequired">>,
          <<in.fingerprint = "none", "fingerprintRequired">>,
          <<\/ f.damage = "payload"
            \/ "wrong" \in {in.licenseKey, in.fingerprint}, "decryptionFailed">> >>

decodePlaintext(f, in) ==
  IF f.kind = "license" THEN licensePlaintext(f, in) ELSE machinePlaintext(f, in)

\* The application's clock, which may be off.
LocalNow(in) == now + in.drift

\* Mutant of payloadFrom: the allowance is on the wrong side.
payloadStrict(f, in) == << <<f.exp # 0 /\ LocalNow(in) + Skew > f.exp, "expired">> >>

\* An exp of 0 is an absent one: the file never expires.
payloadFrom(f, in) == << <<f.exp # 0 /\ LocalNow(in) - Skew > f.exp, "expired">> >>

malformedSig(f) == <<f.damage = "signature", "malformedSignature">>

validateLicenseFileAlg(f) ==
  <<~f.v2 \/ f.sign # "ed25519", "unsupportedAlgorithm">>

\* The alg string parsed and compared with the scheme, a JWT scheme first.
machineAlgChecks(f, in) ==
  << <<in.scheme = "jwt", "schemeNotSupported">>,
     <<~f.v2, "unsupportedAlgorithm">>,
     <<f.sign # schemeAlgSuffix(in.scheme), "suffixMismatch">> >>

\* Verify with the one key k.
LicenseFileVerify(f, k, in) ==
  FirstRefusal(
    <<validateLicenseFileAlg(f), malformedSig(f), <<~SignedBy(f, k), "invalidSignature">> >>
      \o licensePlaintext(f, in) \o payloadFrom(f, in))

MachineFileVerify(f, k, in) ==
  FirstRefusal(
    machineAlgChecks(f, in)
      \o << malformedSig(f), <<~SignedBy(f, k), "invalidSignature">> >>
      \o machinePlaintext(f, in) \o payloadFrom(f, in))

Verify(f, k, in) ==
  IF f.kind = "license" THEN LicenseFileVerify(f, k, in) ELSE MachineFileVerify(f, k, in)

emptySet(set) == <<set = {}, "noUsableKey">>

\* Mutant of BeforeKeys: the format gate is forgotten.
BeforeKeysUngated(f, set, in) ==
  IF f.kind = "license" THEN <<malformedSig(f), emptySet(set)>>
  ELSE machineAlgChecks(f, in)
         \o << <<in.scheme # "ed25519", "noUsableKey">>, emptySet(set), malformedSig(f)>>

\* What is checked before any key is tried; an RSA machine file has no key in
\* any set.
BeforeKeys(f, set, in) ==
  IF f.kind = "license" THEN <<validateLicenseFileAlg(f), malformedSig(f), emptySet(set)>>
  ELSE machineAlgChecks(f, in)
         \o << <<in.scheme # "ed25519", "noUsableKey">>, emptySet(set), malformedSig(f)>>

\* A kid the set does not hold: the account has published no key, or the set
\* is stale.
UnknownSigningKeyError(kid) ==
  IF kid = UnpublishedSigningKeyID THEN "notPublished" ELSE "unknownKey"

\* A kid in the set whose key refused the bytes is tampering.
keySetFailure(set, kid) ==
  IF kid = None \/ find(set, kid) THEN "invalidSignature" ELSE UnknownSigningKeyError(kid)

\* No key verified and the payload does not decode: the caller's omission is
\* reported as itself, anything else as a bad signature.
unverifiableFileError(err) ==
  IF err \in {"licenseKeyRequired", "fingerprintRequired", "unsupportedAlgorithm"}
  THEN err ELSE "invalidSignature"

\* Mutant of TriedKeys: retired keys are not tried.
ActiveOnly(set) == {e \in set : ~e.retired}

\* Every key of the set is tried; the kid chooses none.
TriedKeys(set) == set

VerifyWithKeySet(f, set, in) ==
  LET before  == FirstRefusal(BeforeKeys(f, set, in))
      signing == {e \in TriedKeys(set) : SignedBy(f, e.publicKey)}
      decoded == FirstRefusal(decodePlaintext(f, in))
      refuse(outcome) == [outcome |-> outcome, key |-> NoKey]
  IN IF before # "ok" THEN refuse(before)
     ELSE IF signing = {} THEN
       refuse(IF decoded # "ok" THEN unverifiableFileError(decoded) ELSE keySetFailure(set, f.kid))
     ELSE LET outcome == FirstRefusal(decodePlaintext(f, in) \o payloadFrom(f, in))
          IN [outcome |-> outcome,
              key |-> IF outcome = "ok" THEN (CHOOSE e \in signing : TRUE).publicKey ELSE NoKey]

-----------------------------------------------------------------------------
(* The account, the files and the application. *)

\* Either an account that never published a key, or one with its first.
Init ==
  /\ now = 1
  /\ \/ active = NoKey /\ rows = {}
     \/ \E k \in Keys : active = k /\ rows = {PublishedRow(k)}
  /\ deleted = {} /\ files = {}
  /\ reply = NoReply
  /\ held = NewSigningKeySetFromPublicKeys(Pinned) /\ covers = {}

Retire(rs) == {[r EXCEPT !.retired = TRUE] : r \in rs}

\* A rotation, or the first publication: a new key, the others retired.
Rotate(k) ==
  /\ k # active /\ k \notin deleted
  /\ \A r \in rows : r.id # KeyID(k)
  /\ active' = k
  /\ rows' = Retire(rows) \union {PublishedRow(k)}
  /\ UNCHANGED <<now, deleted, files, reply, held, covers>>

DeleteKey(k) ==
  /\ k # active /\ \E r \in rows : r.id = KeyID(k)
  /\ rows' = {r \in rows : r.id # KeyID(k)}
  /\ deleted' = deleted \union {k}
  /\ UNCHANGED <<now, active, files, reply, held, covers>>

\* The server signs; an account without a key still does, and names the empty
\* key.
Issue(r) ==
  /\ Cardinality(files) < MaxFiles
  /\ files' = files \union
       {[kind |-> r.kind, enc |-> r.enc, sign |-> r.sign, v2 |-> TRUE,
         signer |-> IF r.sign # "ed25519" THEN RSAKey
                    ELSE IF active = NoKey THEN HiddenKey ELSE active,
         kid |-> KeyID(active), exp |-> IF r.ttl = 0 THEN 0 ELSE now + r.ttl,
         damage |-> "none"]}
  /\ UNCHANGED <<now, account, reply, held, covers>>

CheckOutLicense(r) == r.kind = "license" /\ Issue(r)

CheckOutMachine(r) == r.kind = "machine" /\ Issue(r)

\* GetSigningKeySet: the server reads the rows; the reply arrives later, or
\* not at all.
ServerListsKeys ==
  /\ ~reply.under
  /\ reply' = [rows |-> rows, files |-> files, under |-> TRUE]
  /\ UNCHANGED <<now, account, files, held, covers>>

GetSigningKeySet ==
  /\ reply.under /\ reply' = NoReply
  /\ held' = NewSigningKeySet(reply.rows) /\ covers' = reply.files
  /\ UNCHANGED <<now, account, files>>

FetchFails ==
  /\ reply.under /\ reply' = NoReply
  /\ UNCHANGED <<now, account, files, held, covers>>

Tick ==
  /\ files # {} /\ now < MaxNow /\ now' = now + 1
  /\ UNCHANGED <<account, files, reply, held, covers>>

Next ==
  \/ \E k \in Keys : Rotate(k) \/ DeleteKey(k)
  \/ \E r \in Requests : CheckOutLicense(r) \/ CheckOutMachine(r)
  \/ ServerListsKeys \/ GetSigningKeySet \/ FetchFails \/ Tick

Spec == Init /\ [][Next]_vars

-----------------------------------------------------------------------------
(* Properties. *)

\* What an application may be handed for the file f: the file, a copy damaged in
\* storage or transit, or one of the first format.
Copies(f) ==
  {f, [f EXCEPT !.v2 = FALSE], [f EXCEPT !.damage = "signature"],
   [f EXCEPT !.damage = "payload"], [f EXCEPT !.damage = "payload", !.kid = None]}

Handed == UNION {Copies(f) : f \in files}

Genuine(f) == f.damage = "none" /\ f.v2

\* The caller passes what belongs to the file.
Fits(f, in) ==
  /\ f.kind = "machine" => schemeAlgSuffix(in.scheme) = f.sign /\ in.scheme # "jwt"
  /\ f.enc = "aes-256-gcm" => in.licenseKey = "right"
  /\ f.enc = "aes-256-gcm" /\ f.kind = "machine" => in.fingerprint = "right"

Outcome(f, in) == VerifyWithKeySet(f, held, in).outcome

\* A genuine file is never reported as a forgery, however many rotations lie
\* between it and the set, and whatever they did to it (checkout_key_set.go:
\* "tampering, not rotation"; NewSigningKeySet: "a mislabelled row cannot turn
\* an authentic file into a reported forgery").
GenuineNeverForged ==
  \A f \in files : \A in \in Inputs(f.kind) :
    Fits(f, in) => Outcome(f, in) # "invalidSignature"

\* A set read after a file was signed verifies it, through any number of
\* rotations and beside any unusable row; only an operator who deletes the key
\* ever stops it.
RotationSurvives ==
  \A f \in covers : \A in \in Inputs(f.kind) :
    Fits(f, in) /\ f.signer \in Keys \ deleted /\ RowKey[f.signer] = f.signer
      => Outcome(f, in) \in {"ok", "expired"}

\* What is accepted was signed, unchanged, by the very key that is returned,
\* one the account published or the application pinned, and opens only for
\* its license and machine.
AcceptedIsGenuine ==
  \A f \in Handed : \A in \in Inputs(f.kind) :
    Outcome(f, in) = "ok" =>
      /\ Genuine(f) /\ Fits(f, in)
      /\ f.signer = VerifyWithKeySet(f, held, in).key
      /\ \E e \in held : e.publicKey = f.signer

\* With the two clocks at most Skew apart, no file is refused before its exp
\* and none accepted more than twice Skew after it.
ExpiryWithinSkew ==
  \A f \in files : \A in \in Inputs(f.kind) :
    /\ Outcome(f, in) = "expired" => f.exp # 0 /\ now > f.exp
    /\ Outcome(f, in) = "ok" /\ f.exp # 0 => now <= f.exp + 2 * Skew

\* A file one key of the set would verify gets from the set the verdict Verify
\* gives under that key ("Everything past a successful signature check is
\* identical to Verify").
SetExtendsVerify ==
  \A f \in Handed : \A in \in Inputs(f.kind), e \in held :
    LET one == Verify(f, e.publicKey, in)
    IN f.sign = "ed25519" /\ one # "invalidSignature" => Outcome(f, in) = one
=============================================================================
