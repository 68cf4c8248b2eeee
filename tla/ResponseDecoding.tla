--------------------------- MODULE ResponseDecoding ---------------------------
(***************************************************************************)
(* What becomes of a response: doWith's caller maps an error document,     *)
(* decodes a result, or resolves a download (client.go, errors.go,         *)
(* release.go, artifact.go), on top of RequestRetry.                       *)
(*                                                                         *)
(* Each response body has one owner at a time: doWith until it returns,    *)
(* then the helper, mapError on its error path, and at the end the caller  *)
(* of DownloadArtifact.  The contents of a document are abstracted to what *)
(* decides the outcome.                                                    *)
(***************************************************************************)
EXTENDS RequestRetry

VARIABLES
  decoder,     \* the helper that sends the request
  received,    \* bodies hc.Do handed out
  closed,      \* calls of Close
  redirected,  \* the answer is a 303 to the storage host
  outcome      \* what the helper returned, "none" before

decoding == <<decoder, received, closed, redirected, outcome>>
dvars    == <<vars, decoding>>

Downloads == {"ArtifactDownloadURL", "DownloadArtifact"}

Outcomes ==
  {"none", "localError", "netErr", "ctxErr", "code", "UNKNOWN", "value", "notOffered",
   "decodeError", "url", "noURL", "fetch", "fetchError", "storageError", "stream"}

\* The helpers that send a request.
DecodersOf(r) ==
  CASE r.method = "GET"    -> {"decodeJSONAPI", "decodeFlat", "doRawText", "CheckUpgrade"}
                                \union Downloads
    [] r.method = "DELETE" -> {"doNoContent"}
    [] OTHER               -> {"decodeJSONAPI"}

DecodedInit ==
  /\ Init
  /\ decoder \in [Calls -> UNION {DecodersOf(r) : r \in Requests}]
  /\ \A c \in Calls : decoder[c] \in DecodersOf(req[c])
  /\ received = [c \in Calls |-> 0] /\ closed = [c \in Calls |-> 0]
  /\ redirected = [c \in Calls |-> FALSE]
  /\ outcome = [c \in Calls |-> "none"]

-----------------------------------------------------------------------------
(* The call, with the bodies it receives. *)

\* UpgradeOptions.validate and DownloadArtifactOptions.query refuse a call before
\* a request is built, and newRequest any whose body or URL cannot be encoded.
RefusedLocally(c) ==
  /\ pc[c] = "idle" /\ outcome[c] = "none"
  /\ outcome' = [outcome EXCEPT ![c] = "localError"]
  /\ UNCHANGED <<vars, decoder, received, closed, redirected>>

DecodedInvoke(c) ==
  /\ outcome[c] = "none" /\ Invoke(c)
  /\ UNCHANGED decoding

\* doWith drains and closes the response it does not return.
DecodedAnswered(c) ==
  /\ Answered(c)
  /\ received' = [received EXCEPT ![c] = @ + 1]
  /\ closed' = [closed EXCEPT ![c] = IF ReturnsAnswer(c) THEN @ ELSE @ + 1]
  /\ UNCHANGED <<decoder, redirected, outcome>>

DecodedNet(c) ==
  /\ Send(c) \/ SendRefused(c) \/ NetFails(c) \/ Retry(c) \/ WaitCancelled(c)
  /\ UNCHANGED decoding

\* A server or proxy ignores redirect=false and answers 303.  noRedirectClient,
\* which is for the downloads alone, hands the redirect on as the answer.
Redirected(c) ==
  /\ decoder[c] \in Downloads
  /\ Handled(c)
  /\ redirected' = [redirected EXCEPT ![c] = TRUE]
  /\ UNCHANGED <<decoder, received, closed, outcome>>

-----------------------------------------------------------------------------
(* The helpers, once doWith has returned. *)

Returned(c) == pc[c] = "done" /\ outcome[c] = "none"

Close(c, n) == closed' = [closed EXCEPT ![c] = @ + n]

Outcome(c, r) ==
  /\ outcome' = [outcome EXCEPT ![c] = r]
  /\ UNCHANGED <<vars, decoder, redirected>>

\* doWith's own error: there is no response.
TransportError(c) ==
  /\ Returned(c) /\ result[c] \in {"netErr", "ctxErr"}
  /\ Outcome(c, result[c])
  /\ UNCHANGED <<received, closed>>

\* Mutant of ErrorCloses: the helper closes as well.
ErrorClosesTwice == 2

\* mapError owns the body: it closes it once, whatever it can read.
ErrorCloses == 1

\* The code of the first error, or UNKNOWN for a body that is unreadable, no
\* error document, or one with no errors.
MapError(c) ==
  /\ Returned(c) /\ result[c] \in {"failed", "throttled"}
  /\ \E r \in {"code", "UNKNOWN"} : Outcome(c, r)
  /\ Close(c, ErrorCloses)
  /\ UNCHANGED received

\* What a helper can make of a 2xx (a 3xx too for a download).  Reading may fail
\* as well, the context being the request's.
OutcomesOf(c) ==
  CASE decoder[c] = "doNoContent"  -> {"value"}
    [] decoder[c] = "CheckUpgrade" -> {"value", "decodeError", "notOffered"}
    [] redirected[c]               -> {"url", "noURL"}
    [] decoder[c] \in Downloads    -> {"url", "decodeError", "noURL"}
    [] OTHER                       -> {"value", "decodeError"}

\* The deferred close, doNoContent's, or the drained redirect.
Decode(c) ==
  /\ Returned(c) /\ result[c] = "ok"
  /\ \E r \in OutcomesOf(c) :
       Outcome(c, IF r = "url" /\ decoder[c] = "DownloadArtifact" THEN "fetch" ELSE r)
  /\ Close(c, 1)
  /\ UNCHANGED received

\* DownloadArtifact fetches the URL with a request of its own.  It refuses a URL
\* that does not parse or is not http, and hc.Do may fail.
FetchFails(c) ==
  /\ outcome[c] = "fetch"
  /\ Outcome(c, "fetchError")
  /\ UNCHANGED <<received, closed>>

\* Storage answers: another status is drained and closed, a stream is handed on
\* open.
FetchAnswered(c) ==
  /\ outcome[c] = "fetch" /\ ~ctxDone[c]
  /\ received' = [received EXCEPT ![c] = @ + 1]
  /\ \/ Outcome(c, "stream") /\ UNCHANGED closed
     \/ Outcome(c, "storageError") /\ Close(c, 1)

HelperStep(c) ==
  \/ TransportError(c) \/ MapError(c) \/ Decode(c) \/ FetchFails(c) \/ FetchAnswered(c)

DecodedStep(c) == DecodedAnswered(c) \/ DecodedNet(c) \/ HelperStep(c)

World(c) ==
  /\ Cancel(c) \/ Handled(c) \/ Rejected(c) \/ Throttled(c)
  /\ UNCHANGED decoding

Settled(c) == outcome[c] \notin {"none", "fetch"}

AllSettled == (\A c \in Calls : Settled(c)) /\ UNCHANGED dvars

DecodedNext ==
  \/ \E c \in Calls :
       \/ RefusedLocally(c) \/ DecodedInvoke(c) \/ DecodedStep(c)
       \/ Redirected(c) \/ World(c)
  \/ AllSettled

\* Every call and every helper goes on to its end.
DecodedSpec ==
  /\ DecodedInit /\ [][DecodedNext]_dvars
  /\ \A c \in Calls : WF_dvars(DecodedStep(c))

-----------------------------------------------------------------------------
(* Properties. *)

\* The bodies someone still has to close.
Unclosed(c) ==
  CASE pc[c] = "done" /\ outcome[c] = "none" /\ result[c] \in {"ok", "failed", "throttled"} -> 1
    [] outcome[c] = "stream" -> 1
    [] OTHER -> 0

\* Every body is closed exactly once, by the one who owns it: none is left open by
\* a retry, an error path or a resolved download, and none is closed twice, across
\* doWith, the helpers and mapError ("Callers must not also close resp.Body when
\* they call mapError").
BodiesClosedOnce == \A c \in Calls : received[c] = closed[c] + Unclosed(c)

\* What the caller of a helper can tell.
HelperStatus(c) ==
  IF pc[c] = "idle" THEN "idle"
  ELSE IF ~Settled(c) THEN "pending"
  ELSE IF outcome[c] \in {"value", "notOffered", "url", "stream"} THEN "ok" ELSE "failed"

Helper == INSTANCE RemoteCall WITH
  Budgets <- {1, MaxRetries + 1},
  status  <- [c \in Calls |-> HelperStatus(c)],
  budget  <- [c \in Calls |-> Budget(c)]

\* A helper is a remote call too: applied within the budget of its request, told
\* the truth about, and certain to return, a download's second request included.
HelperIsRemoteCall == Helper!Spec

-----------------------------------------------------------------------------
(* The inductive invariant (proved in Requests_proofs). *)

DecodingTypes ==
  /\ decoder \in [Calls -> UNION {DecodersOf(r) : r \in Requests}]
  /\ received \in [Calls -> Nat] /\ closed \in [Calls -> Nat]
  /\ redirected \in [Calls -> BOOLEAN]
  /\ outcome \in [Calls -> Outcomes]

\* A helper has an outcome only once doWith returned, or without a request, and
\* goes to the storage host only for an answer the server gave.
OutcomeAfterReturn(c) ==
  /\ outcome[c] # "none" => pc[c] = "done" \/ (pc[c] = "idle" /\ outcome[c] = "localError")
  /\ outcome[c] \in {"fetch", "stream"} => pc[c] = "done" /\ result[c] = "ok"

DecodingInv ==
  /\ Inv /\ DecodingTypes /\ BodiesClosedOnce
  /\ \A c \in Calls : OutcomeAfterReturn(c)
=============================================================================
