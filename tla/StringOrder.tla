----------------------------- MODULE StringOrder -----------------------------
(***************************************************************************)
(* The order of strings that Go's sort.Strings and slices.Sort, the map    *)
(* keys of encoding/json and the BTreeMap under serde_json all use.        *)
(*                                                                         *)
(* A string is a sequence of numbers: its bytes, or its code points, which *)
(* UTF-8 orders alike.                                                     *)
(***************************************************************************)
EXTENDS Integers, Sequences, SequencesExt

\* s comes before t: it is a prefix, or less where they first differ.
Bytewise(s, t) ==
  \/ IsStrictPrefix(s, t)
  \/ \E i \in 1..Len(s) :
       /\ i <= Len(t) /\ s[i] < t[i]
       /\ SubSeq(s, 1, i - 1) = SubSeq(t, 1, i - 1)

\* The enumeration of a set of strings that increases.
Increasing(strings) ==
  \A i, j \in 1..Len(strings) : i < j => Bytewise(strings[i], strings[j])

Sorted(S) == CHOOSE strings \in SetToSeqs(S) : Increasing(strings)
=============================================================================
