----------------------------- MODULE MCActivation -----------------------------
(* Instances of MachineActivation for TLC. *)
EXTENDS MachineActivation, TLC

CONSTANTS a, b, c, l1, l2, f1, f2

\* a and b share a license; f1 is a substring of f2, so searching for f1 also
\* lists the row of b.
TwoLicenseOf == a :> l1 @@ b :> l1
TwoFingerprintOf == a :> f1 @@ b :> f2
TwoContains == f1 :> {f1, f2} @@ f2 :> {f2}

\* c runs a's fingerprint under another license.
ThreeLicenseOf == a :> l1 @@ b :> l1 @@ c :> l2
ThreeFingerprintOf == a :> f1 @@ b :> f2 @@ c :> f1

\* l1 lets one machine more be created than it licenses; l2 licenses none.
OneSeat == l1 :> 1 @@ l2 :> 0
OneAbove == l1 :> 2 @@ l2 :> 0
===============================================================================
