-------------------------- MODULE MachineFingerprint --------------------------
(***************************************************************************)
(* CanonicalFingerprint (fingerprint.go): the string a machine's labelled  *)
(* components are reduced to before it is hashed.  SHA-256 is injective    *)
(* here, so the canonical form stands for the fingerprint.                 *)
(*                                                                         *)
(* A component is a label and a value, each a sequence of bytes.           *)
(***************************************************************************)
EXTENDS StringOrder

fingerprintSeparator == 31
fingerprintDomain    == <<116>>    \* "tamga-fingerprint-v1", whose bytes do not matter
Equals               == 61

\* The trim cutset: space, tab, CR, LF, VT, FF.
Whitespace == {32, 9, 13, 10, 11, 12}

\* The empty string, beside ErrInvalidFingerprintComponent.
Refused == <<>>

Trim(value) ==
  LET kept == {i \in 1..Len(value) : value[i] \notin Whitespace}
  IN IF kept = {} THEN <<>> ELSE SubSeq(value, Min(kept), Max(kept))

validateFingerprintLabel(label) ==
  label # <<>> /\ \A i \in 1..Len(label) : label[i] \in 33..126 /\ label[i] # Equals

\* Mutant of validateFingerprintValue: control characters pass.
AnyFingerprintValue(value) == TRUE

validateFingerprintValue(value) ==
  \A i \in 1..Len(value) : value[i] > 31 /\ value[i] # 127

Accepted(components) ==
  /\ components # <<>>
  /\ \A i \in 1..Len(components) :
       /\ validateFingerprintLabel(components[i].label)
       /\ validateFingerprintValue(Trim(components[i].value))
       /\ \A j \in 1..(i - 1) : components[j].label # components[i].label

Part(component) == component.label \o <<Equals>> \o Trim(component.value)

Parts(components) == {Part(components[i]) : i \in 1..Len(components)}

\* slices.Sort of the parts.
fingerprintCanonicalForm(components) ==
  IF ~Accepted(components) THEN Refused
  ELSE LET parts == Sorted(Parts(components))
       IN fingerprintDomain
            \o FlattenSeq([i \in 1..Len(parts) |-> <<fingerprintSeparator>> \o parts[i]])

-----------------------------------------------------------------------------
(* What a canonical form says, read back: split at the separators, and each    *)
(* part at its first '='.                                                      *)

SplitPart(part) ==
  LET at == Min({Len(part) + 1} \union {i \in 1..Len(part) : part[i] = Equals})
  IN <<SubSeq(part, 1, at - 1), SubSeq(part, at + 1, Len(part))>>

ReadBack(form) ==
  LET cuts   == {i \in 1..Len(form) : form[i] = fingerprintSeparator}
      End(i) == Min({Len(form) + 1} \union {j \in cuts : j > i})
  IN {SplitPart(SubSeq(form, i + 1, End(i) - 1)) : i \in cuts}

\* What the components mean, in whatever order and padding they come.
Identity(components) ==
  {<<components[i].label, Trim(components[i].value)>> : i \in 1..Len(components)}

Padded(components) ==
  [i \in 1..Len(components) |->
     [components[i] EXCEPT !.value = <<32, 9>> \o @ \o <<10>>]]
=============================================================================
