------------------------------- MODULE MCRetry -------------------------------
(***************************************************************************)
(* One call of every kind: a read, a repeatable action with and without a  *)
(* body, a create and a delete; Retry-After absent, zero and absurd.       *)
(***************************************************************************)
EXTENDS ResponseDecoding

SomeRequests ==
  { [method |-> "GET", suffix |-> "other", body |-> FALSE],
    [method |-> "POST", suffix |-> "/actions/validate", body |-> TRUE],
    [method |-> "POST", suffix |-> "/actions/ping-heartbeat", body |-> FALSE],
    [method |-> "POST", suffix |-> "/actions/increment", body |-> FALSE],
    [method |-> "POST", suffix |-> "/machines", body |-> TRUE],
    [method |-> "DELETE", suffix |-> "other", body |-> FALSE] }

SomeRetryAfters == {0, 86400}
=============================================================================
