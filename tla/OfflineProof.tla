----------------------------- MODULE OfflineProof -----------------------------
(***************************************************************************)
(* The payload of an offline activation proof (proof.go), which client and *)
(* server must build byte for byte alike: the server signs what serde_json *)
(* writes, and the SDK verifies what encoding/json writes, repaired.       *)
(*                                                                         *)
(* A character is its code point, a text a sequence of characters, and a   *)
(* document the text it is the UTF-8 form of.  Texts are valid Unicode, as *)
(* JSON strings of the server are.                                         *)
(***************************************************************************)
EXTENDS StringOrder

Backslash == 92
Quote     == 34
LetterU   == 117

\* U+2028 and U+2029, the line and the paragraph separator.
LS == 8232
PS == 8233
Separators == {LS, PS}

\* The escapes of one letter: \b, \t, \n, \f and \r.
ShortEscapes ==
  [ch \in {8, 9, 10, 12, 13} |->
     CASE ch = 8 -> 98 [] ch = 9 -> 116 [] ch = 10 -> 110 [] ch = 12 -> 102 [] ch = 13 -> 114]

\* A digit of an escape by number: 0 to 9 and a to f.
HexDigit(n) == IF n < 10 THEN 48 + n ELSE 87 + n

\* The four digits, of the other control characters and of the separators.
EscapedAsU ==
  [ch \in ((0..31) \ DOMAIN ShortEscapes) \union Separators |->
     <<HexDigit(ch \div 4096), HexDigit((ch \div 256) % 16),
       HexDigit((ch \div 16) % 16), HexDigit(ch % 16)>>]

\* Mutant of EncodeChar: quotes are left as they are, as Sprintf would.
EncodeCharUnquoted(ch) ==
  IF ch \in DOMAIN EscapedAsU THEN <<Backslash, LetterU>> \o EscapedAsU[ch] ELSE <<ch>>

\* encoding/json with SetEscapeHTML(false): '<' stays, the separators do not.
EncodeChar(ch) ==
  CASE ch \in {Backslash, Quote}      -> <<Backslash, ch>>
    [] ch \in DOMAIN ShortEscapes     -> <<Backslash, ShortEscapes[ch]>>
    [] ch \in DOMAIN EscapedAsU       -> <<Backslash, LetterU>> \o EscapedAsU[ch]
    [] OTHER                          -> <<ch>>

\* serde_json leaves the separators raw.
SerdeChar(ch) ==
  CASE ch \in {Backslash, Quote}      -> <<Backslash, ch>>
    [] ch \in DOMAIN ShortEscapes     -> <<Backslash, ShortEscapes[ch]>>
    [] ch \in DOMAIN EscapedAsU \ Separators
                                      -> <<Backslash, LetterU>> \o EscapedAsU[ch]
    [] OTHER                          -> <<ch>>

\* The SDK's encoder is "json", the server's is "serde".
Encoded(encoder, ch) == IF encoder = "serde" THEN SerdeChar(ch) ELSE EncodeChar(ch)

-----------------------------------------------------------------------------
(* Documents. *)

String(text, encoder) ==
  <<Quote>> \o FlattenSeq([i \in 1..Len(text) |-> Encoded(encoder, text[i])]) \o <<Quote>>

\* An object whose fields are documents already.  Both encoders sort the keys of
\* a map and write them as they write any string.
Object(fields, encoder) ==
  LET keys     == Sorted(DOMAIN fields)
      Comma(i) == IF i < Len(keys) THEN <<44>> ELSE <<>>
      Field(i) == String(keys[i], encoder) \o <<58>> \o fields[keys[i]] \o Comma(i)
  IN <<123>> \o FlattenSeq([i \in 1..Len(keys) |-> Field(i)]) \o <<125>>

\* The names of the payload, by their first letters, which order them alike.
Account     == <<97>>
Dataset     == <<100>>
Fingerprint == <<102>>
Id          == <<105>>
Machine     == <<109>>

\* The dataset is a function from names to texts, empty when the caller has none.
Tuple(account, machine, fingerprint, dataset) ==
  [account |-> account, machine |-> machine, fingerprint |-> fingerprint, dataset |-> dataset]

Payload(t, encoder) ==
  LET account == [k \in {Id} |-> String(t.account, encoder)]
      machine == [k \in {Id, Fingerprint} |->
                    String(IF k = Id THEN t.machine ELSE t.fingerprint, encoder)]
      dataset == [k \in DOMAIN t.dataset |-> String(t.dataset[k], encoder)]
  IN Object([k \in {Account, Machine, Dataset} |->
               Object(CASE k = Account -> account [] k = Machine -> machine [] k = Dataset -> dataset,
                      encoder)], encoder)

-----------------------------------------------------------------------------
(* serdeCompatMarshal. *)

\* Mutant of TokenLength: an escaped backslash is not taken as one token.
TokenLengthBlind(doc, i) ==
  IF doc[i] = Backslash /\ i + 5 <= Len(doc) /\ doc[i + 1] = LetterU THEN 6 ELSE 1

\* An escape is consumed whole.
TokenLength(doc, i) ==
  IF doc[i] # Backslash \/ i = Len(doc) THEN 1
  ELSE IF doc[i + 1] = LetterU /\ i + 5 <= Len(doc) THEN 6
  ELSE IF doc[i + 1] \in {Quote, Backslash, 47, 98, 102, 110, 114, 116} THEN 2
  ELSE 1

Unescaped(token) ==
  LET escaped == {ch \in Separators : token = <<Backslash, LetterU>> \o EscapedAsU[ch]}
  IN IF escaped = {} THEN token ELSE <<CHOOSE ch \in escaped : TRUE>>

unescapeLineAndParagraphSeparators(doc) ==
  LET from[i \in 1..Len(doc) + 6] ==
        IF i > Len(doc) THEN <<>>
        ELSE LET n == TokenLength(doc, i)
             IN Unescaped(SubSeq(doc, i, i + n - 1)) \o from[i + n]
  IN from[1]

buildOfflineProofPayloadJSON(t) ==
  unescapeLineAndParagraphSeparators(Payload(t, "json"))

-----------------------------------------------------------------------------
(* The proof.  A signature is the key and the bytes it signs. *)

\* generate-offline-proof, on the server.
IssuedProof(key, t) ==
  [prefix |-> "v1x0.", base64 |-> TRUE, sig |-> [key |-> key, doc |-> Payload(t, "serde")]]

VerifyOfflineProof(pub, t, proof) ==
  IF pub = "nil" THEN "noKey"
  ELSE IF proof.prefix # "v1x0." \/ ~proof.base64 THEN "malformed"
  ELSE IF proof.sig = [key |-> pub, doc |-> buildOfflineProofPayloadJSON(t)] THEN "ok"
  ELSE "ErrInvalidSignature"

-----------------------------------------------------------------------------
(* What a reader of a document finds: its texts, in order. *)

\* The character a token inside a string stands for.
DecodedToken(token) ==
  LET meant == {ch \in DOMAIN EscapedAsU : token = <<Backslash, LetterU>> \o EscapedAsU[ch]}
      short == {ch \in DOMAIN ShortEscapes : token = <<Backslash, ShortEscapes[ch]>>}
  IN IF meant \union short # {} THEN CHOOSE ch \in meant \union short : TRUE
     ELSE token[Len(token)]

\* The text whose string starts before i, with its end.
TextAt(doc, i) ==
  LET from[j \in 1..Len(doc) + 6] ==
        IF j > Len(doc) \/ doc[j] = Quote THEN [text |-> <<>>, end |-> j]
        ELSE LET n    == TokenLength(doc, j)
                 rest == from[j + n]
             IN [text |-> <<DecodedToken(SubSeq(doc, j, j + n - 1))>> \o rest.text,
                 end  |-> rest.end]
  IN from[i]

TextsOf(doc) ==
  LET from[i \in 1..Len(doc) + 7] ==
        IF i > Len(doc) THEN <<>>
        ELSE IF doc[i] # Quote THEN from[i + 1]
        ELSE LET read == TextAt(doc, i + 1) IN <<read.text>> \o from[read.end + 1]
  IN from[1]

\* The texts of a tuple's payload, keys included.
TextsOfTuple(t) ==
  LET names == Sorted(DOMAIN t.dataset)
  IN <<Account, Id, t.account, Dataset>>
       \o FlattenSeq([i \in 1..Len(names) |-> <<names[i], t.dataset[names[i]]>>])
       \o <<Machine, Fingerprint, t.fingerprint, Id, t.machine>>
=============================================================================
