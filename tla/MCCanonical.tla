----------------------------- MODULE MCCanonical -----------------------------
(***************************************************************************)
(* Inputs of OfflineProof and of MachineFingerprint, built piece by piece. *)
(***************************************************************************)
EXTENDS OfflineProof, MachineFingerprint, TLC

CONSTANTS MaxPieces, MaxComponents, MaxValue

VARIABLES pieces, components

\* Pieces of a text: both separators, a control character with a short escape and
\* one without, '<', the letters an escape of a separator has (u2028), and the syntax
\* between two texts (",":").
Pieces ==
  { <<Backslash>>, <<Quote>>, <<LS>>, <<PS>>, <<31>>, <<10>>, <<60>>,
    <<LetterU, 50, 48, 50, 56>>,
    <<Quote, 44, Quote, 58, Quote>> }

\* Labels: two legal ones, one a prefix of the other; one with '=', none, non-ASCII.
Labels == {<<97>>, <<97, 98>>, <<97, 61>>, <<>>, <<195, 169>>}

\* Values over a space, the separator, '=', 'A' and a non-ASCII byte.
Values == UNION {[1..n -> {32, 31, 61, 65, 195}] : n \in 0..MaxValue}

Init == pieces = <<>> /\ components = <<>>

AppendPiece ==
  /\ components = <<>> /\ Len(pieces) < MaxPieces
  /\ \E piece \in Pieces : pieces' = Append(pieces, piece)
  /\ UNCHANGED components

AppendComponent ==
  /\ pieces = <<>> /\ Len(components) < MaxComponents
  /\ \E label \in Labels, value \in Values :
       components' = Append(components, [label |-> label, value |-> value])
  /\ UNCHANGED pieces

Next == AppendPiece \/ AppendComponent

Spec == Init /\ [][Next]_<<pieces, components>>

-----------------------------------------------------------------------------

\* Every text of the tuple holds the pieces, a name of the dataset among them, and no
\* two are the same.
TheTuple ==
  LET text == FlattenSeq(pieces)
  IN Tuple(text \o <<97>>, text \o <<109>>, text \o <<102>>,
           [k \in {text, <<107>>} |-> k \o <<118>>])

\* A proof the server issued verifies for the tuple it was issued for, whatever
\* characters the tuple holds: the SDK rebuilds the signed bytes exactly
\* (serdeCompatMarshal, buildOfflineProofPayloadJSON).
GenuineProofVerifies ==
  VerifyOfflineProof("rsa", TheTuple, IssuedProof("rsa", TheTuple)) = "ok"

\* The payload says which account, machine, fingerprint and dataset it is about: a
\* reader finds exactly these texts, so that no other tuple has the same payload
\* and a proof verifies for no other (VerifyOfflineProof).
ProofBindsTuple == TextsOf(buildOfflineProofPayloadJSON(TheTuple)) = TextsOfTuple(TheTuple)

\* Two lists of components get one fingerprint exactly when they mean the same: the
\* canonical form can be read back, and neither order nor padding changes it
\* (fingerprintCanonicalForm: a machine must not hold two seats, nor two machines
\* share one).
FingerprintIsIdentity ==
  LET form     == fingerprintCanonicalForm(components)
      Order(p) == [i \in DOMAIN components |-> components[p[i]]]
  IN /\ form # Refused => ReadBack(form) = Identity(components)
     /\ \A p \in Bijection(DOMAIN components, DOMAIN components) : fingerprintCanonicalForm(Order(p)) = form
     /\ fingerprintCanonicalForm(Padded(components)) = form
=============================================================================
