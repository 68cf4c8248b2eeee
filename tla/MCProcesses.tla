----------------------------- MODULE MCProcesses -----------------------------
(* Instances of ProcessSlots for TLC. *)
EXTENDS ProcessSlots, TLC

CONSTANTS a, b, c, m1, m2

\* a and b share a machine.
ThreeMachineOf == a :> m1 @@ b :> m1 @@ c :> m2
=============================================================================
