------------------------------ MODULE RemoteCall ------------------------------
(***************************************************************************)
(* What one call of the SDK promises, whatever the transport does: the     *)
(* server applies it at most as often as the call may be repeated, a call  *)
(* answered "ok" was applied, and every call returns.  It may still be     *)
(* applied after the caller was told that it failed.                       *)
(***************************************************************************)
EXTENDS Integers

CONSTANTS Calls, Budgets   \* how often the calls of a kind may be applied

VARIABLES
  status,    \* "idle", "pending", or how the call returned
  budget,
  effects    \* how often the server applied it

vars == <<status, budget, effects>>

Init ==
  /\ status = [c \in Calls |-> "idle"]
  /\ budget = [c \in Calls |-> 0]
  /\ effects = [c \in Calls |-> 0]

Invoke(c, n) ==
  /\ status[c] = "idle"
  /\ status' = [status EXCEPT ![c] = "pending"]
  /\ budget' = [budget EXCEPT ![c] = n]
  /\ UNCHANGED effects

Apply(c) ==
  /\ status[c] # "idle" /\ effects[c] < budget[c]
  /\ effects' = [effects EXCEPT ![c] = @ + 1]
  /\ UNCHANGED <<status, budget>>

Return(c, r) ==
  /\ r = "ok" => effects[c] > 0
  /\ status[c] = "pending"
  /\ status' = [status EXCEPT ![c] = r]
  /\ UNCHANGED <<budget, effects>>

Next ==
  \E c \in Calls :
    \/ \E n \in Budgets : Invoke(c, n)
    \/ Apply(c)
    \/ \E r \in {"ok", "failed"} : Return(c, r)

Spec ==
  /\ Init /\ [][Next]_vars
  /\ \A c \in Calls : WF_vars(\E r \in {"ok", "failed"} : Return(c, r))
=============================================================================
