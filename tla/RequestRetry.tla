----------------------------- MODULE RequestRetry -----------------------------
(***************************************************************************)
(* Client.do / doWith (client.go): one HTTP call, retried on 429 only, and *)
(* only when the request is safe to repeat.                                *)
(*                                                                         *)
(* The calls of a process share no state, so a call is modelled with the   *)
(* network and the server's handler on its other end.  A request in the    *)
(* network may be handled after its caller gave up.  A 429 is not proof    *)
(* that nothing happened: a gateway may throttle what it already passed    *)
(* on, which is why the SDK repeats no create.                             *)
(***************************************************************************)
EXTENDS Integers

CONSTANTS
  Calls,
  Requests,       \* requests the calls may send, a subset of Request
  MaxRetries,     \* Client.maxRetries
  Timeout,        \* http.Client.Timeout in seconds, per attempt
  RetryAfters,    \* Retry-After values a 429 may carry, in seconds
  NoHeader        \* a 429 without a usable Retry-After

VARIABLES
  \* the call: the locals of doWith and its context
  pc,
  req,
  attempt,
  body,      \* req.Body: "none", "full", or "spent" once an attempt read it
  ctxDone,
  delay,     \* the wait before the next attempt
  result,
  \* the network and the server
  wire,      \* the request under way: its body, or "absent"
  answer,    \* the response under way
  effects,   \* how often the server applied the call
  \* history
  elapsed,   \* seconds spent in attempts and waits
  truncated  \* the server received an attempt without its body

local   == <<pc, req, attempt, body, delay, result, elapsed>>
network == <<wire, answer, effects, truncated>>
vars    == <<local, ctxDone, network>>

retryablePOSTSuffixes ==
  {"/actions/validate", "/actions/validate-key", "/actions/check-in",
   "/actions/check-out", "/actions/ping", "/actions/ping-heartbeat",
   "/actions/reset-heartbeat"}

Suffixes == retryablePOSTSuffixes \union {"/machines", "/actions/increment", "other"}

Request == [method : {"GET", "POST", "PATCH", "DELETE"}, suffix : Suffixes, body : BOOLEAN]

MaxDelay == 60

ASSUME ConfigOK ==
  /\ Requests \subseteq Request /\ Requests # {}
  /\ MaxRetries \in Nat /\ Timeout \in Nat
  /\ RetryAfters \subseteq Nat /\ NoHeader \notin Nat

PCs     == {"idle", "send", "flight", "wait", "done"}
Results == {"none", "ok", "failed", "throttled", "netErr", "ctxErr"}
Bodies  == {"none", "full", "spent"}
Answers == [status : {"absent", "ok", "failed", "throttled"},
            retryAfter : RetryAfters \union {NoHeader}]

NoAnswer == [status |-> "absent", retryAfter |-> NoHeader]

TypeOK ==
  /\ pc \in [Calls -> PCs]
  /\ req \in [Calls -> Requests]
  /\ attempt \in [Calls -> 0..MaxRetries]
  /\ body \in [Calls -> Bodies]
  /\ ctxDone \in [Calls -> BOOLEAN]
  /\ delay \in [Calls -> 0..MaxDelay]
  /\ result \in [Calls -> Results]
  /\ wire \in [Calls -> Bodies \union {"absent"}]
  /\ answer \in [Calls -> Answers]
  /\ effects \in [Calls -> Nat]
  /\ elapsed \in [Calls -> Nat]
  /\ truncated \in [Calls -> BOOLEAN]

Init ==
  /\ pc = [c \in Calls |-> "idle"]
  /\ req \in [Calls -> Requests]
  /\ attempt = [c \in Calls |-> 0]
  /\ body = [c \in Calls |-> "none"]
  /\ ctxDone = [c \in Calls |-> FALSE]
  /\ delay = [c \in Calls |-> 0]
  /\ result = [c \in Calls |-> "none"]
  /\ wire = [c \in Calls |-> "absent"]
  /\ answer = [c \in Calls |-> NoAnswer]
  /\ effects = [c \in Calls |-> 0]
  /\ elapsed = [c \in Calls |-> 0]
  /\ truncated = [c \in Calls |-> FALSE]

-----------------------------------------------------------------------------
(* The decisions of doWith. *)

\* Mutant of isRetryable: every POST is repeated.
isRetryablePOST(r) == r.method \in {"GET", "POST"}

isRetryable(r) ==
  \/ r.method = "GET"
  \/ r.method = "POST" /\ r.suffix \in retryablePOSTSuffixes

\* 1 << min(attempt, 5) seconds.
Backoff(n) == <<1, 2, 4, 8, 16, 32>>[IF n > 5 THEN 6 ELSE n + 1]

\* Mutant of RetryDelays: Retry-After is taken as it comes.
RetryDelaysUncapped(n, retryAfter) ==
  IF retryAfter = NoHeader THEN {Backoff(n), Backoff(n) + 1} ELSE {retryAfter}

\* retryDelay: the server's Retry-After, capped; otherwise the backoff and
\* less than a second of jitter.
RetryDelays(n, retryAfter) ==
  IF retryAfter = NoHeader THEN {Backoff(n), Backoff(n) + 1}
  ELSE {IF retryAfter > MaxDelay THEN MaxDelay ELSE retryAfter}

\* Mutant of ReturnsAnswer: the budget is not looked at.
ReturnsAnswerUnbounded(c) ==
  answer[c].status # "throttled" \/ ~isRetryable(req[c])

ReturnsAnswer(c) ==
  \/ answer[c].status # "throttled"
  \/ ~isRetryable(req[c])
  \/ attempt[c] >= MaxRetries

\* Mutant of BodyOf: req.Body is not restored.
BodyAsLeft(c) == body[c]

\* The body an attempt sends: the buffered one from the second attempt on.
BodyOf(c) == IF attempt[c] > 0 /\ body[c] # "none" THEN "full" ELSE body[c]

Finish(c, r) ==
  /\ pc' = [pc EXCEPT ![c] = "done"]
  /\ result' = [result EXCEPT ![c] = r]
  /\ UNCHANGED <<req, attempt, body, delay>>

Spend(c, seconds) == elapsed' = [elapsed EXCEPT ![c] = @ + seconds]

-----------------------------------------------------------------------------
(* The call. *)

Invoke(c) ==
  /\ pc[c] = "idle"
  /\ pc' = [pc EXCEPT ![c] = "send"]
  /\ body' = [body EXCEPT ![c] = IF req[c].body THEN "full" ELSE "none"]
  /\ UNCHANGED <<req, attempt, delay, result, elapsed, ctxDone, network>>

\* hc.Do starts; it reads the body to its end.
Send(c) ==
  /\ pc[c] = "send" /\ ~ctxDone[c]
  /\ pc' = [pc EXCEPT ![c] = "flight"]
  /\ wire' = [wire EXCEPT ![c] = BodyOf(c)]
  /\ body' = [body EXCEPT ![c] = IF @ = "none" THEN "none" ELSE "spent"]
  /\ answer' = [answer EXCEPT ![c] = NoAnswer]
  /\ UNCHANGED <<req, attempt, delay, result, elapsed, ctxDone, effects, truncated>>

\* hc.Do with a context that is done sends nothing.
SendRefused(c) ==
  /\ pc[c] = "send" /\ ctxDone[c]
  /\ Finish(c, "ctxErr")
  /\ UNCHANGED <<elapsed, ctxDone, network>>

\* A response: returned as it is, or dropped and waited out.
Answered(c) ==
  /\ pc[c] = "flight" /\ answer[c] # NoAnswer
  /\ \E t \in {0, Timeout} : Spend(c, t)
  /\ IF ReturnsAnswer(c) THEN Finish(c, answer[c].status)
     ELSE /\ pc' = [pc EXCEPT ![c] = "wait"]
          /\ \E d \in RetryDelays(attempt[c], answer[c].retryAfter) :
               delay' = [delay EXCEPT ![c] = d]
          /\ UNCHANGED <<req, attempt, body, result>>
  /\ UNCHANGED <<ctxDone, network>>

\* Mutant of NetFails: a failed attempt is repeated too.
NetFailsRepeats(c) ==
  /\ pc[c] = "flight"
  /\ IF attempt[c] >= MaxRetries THEN Finish(c, "netErr")
     ELSE /\ pc' = [pc EXCEPT ![c] = "send"]
          /\ attempt' = [attempt EXCEPT ![c] = @ + 1]
          /\ UNCHANGED <<req, body, delay, result>>
  /\ UNCHANGED <<elapsed, ctxDone, network>>

\* hc.Do fails: a broken connection, the timeout, the context.
NetFails(c) ==
  /\ pc[c] = "flight"
  /\ \E t \in {0, Timeout} : Spend(c, t)
  /\ Finish(c, IF ctxDone[c] THEN "ctxErr" ELSE "netErr")
  /\ UNCHANGED <<ctxDone, network>>

\* The timer of the select; it may win even when the context is done as well.
Retry(c) ==
  /\ pc[c] = "wait"
  /\ pc' = [pc EXCEPT ![c] = "send"]
  /\ attempt' = [attempt EXCEPT ![c] = @ + 1]
  /\ Spend(c, delay[c])
  /\ UNCHANGED <<req, body, delay, result, ctxDone, network>>

WaitCancelled(c) ==
  /\ pc[c] = "wait" /\ ctxDone[c]
  /\ \E t \in {0, delay[c]} : Spend(c, t)
  /\ Finish(c, "ctxErr")
  /\ UNCHANGED <<ctxDone, network>>

Step(c) ==
  Send(c) \/ SendRefused(c) \/ Answered(c) \/ NetFails(c) \/ Retry(c) \/ WaitCancelled(c)

-----------------------------------------------------------------------------
(* The caller's context and the other end. *)

Cancel(c) ==
  /\ pc[c] \notin {"idle", "done"} /\ ~ctxDone[c]
  /\ ctxDone' = [ctxDone EXCEPT ![c] = TRUE]
  /\ UNCHANGED <<local, network>>

\* The request arrives; n is 1 when the server applies it.  An answer to a
\* caller that is gone is lost.
Arrives(c, n, a) ==
  /\ wire[c] # "absent"
  /\ wire' = [wire EXCEPT ![c] = "absent"]
  /\ effects' = [effects EXCEPT ![c] = @ + n]
  /\ truncated' = [truncated EXCEPT ![c] = @ \/ wire[c] = "spent"]
  /\ answer' = [answer EXCEPT ![c] = IF pc[c] = "flight" THEN a ELSE NoAnswer]
  /\ UNCHANGED <<local, ctxDone>>

Handled(c) == Arrives(c, 1, [status |-> "ok", retryAfter |-> NoHeader])

\* A status of 400 or above other than 429; a 5xx may follow an effect.
Rejected(c) ==
  \E n \in {0, 1} : Arrives(c, n, [status |-> "failed", retryAfter |-> NoHeader])

Throttled(c) ==
  \E n \in {0, 1}, ra \in RetryAfters \union {NoHeader} :
    Arrives(c, n, [status |-> "throttled", retryAfter |-> ra])

\* Every call has returned.
AllDone == (\A c \in Calls : pc[c] = "done") /\ UNCHANGED vars

Next ==
  \/ \E c \in Calls :
       \/ Invoke(c) \/ Step(c)
       \/ Cancel(c) \/ Handled(c) \/ Rejected(c) \/ Throttled(c)
  \/ AllDone

\* Timers fire and hc.Do returns, by an answer or by its timeout.
Spec == Init /\ [][Next]_vars /\ \A c \in Calls : WF_vars(Step(c))

-----------------------------------------------------------------------------
(* Properties. *)

\* The requests that must not be applied twice.
NotRepeatable(r) ==
  \/ r.method \in {"PATCH", "DELETE"}
  \/ r.method = "POST" /\ r.suffix \in {"/machines", "/actions/increment"}

\* A create, an increment, a change or a delete is applied at most once,
\* however it is throttled: "retrying POST /machines risks a second activation
\* burning a second seat" (retryablePOSTSuffixes).
CreatesAtMostOnce ==
  \A c \in Calls : NotRepeatable(req[c]) => effects[c] <= 1

\* No attempt reaches the server with a body an earlier attempt consumed
\* (the buffering at the top of doWith).
EveryAttemptIsWhole == \A c \in Calls : ~truncated[c]

\* The longest a call can take: every attempt times out just before its 429,
\* and every wait is capped (DefaultTimeout, DefaultMaxRetries, retryDelay).
LongestCall == (MaxRetries + 1) * Timeout + MaxRetries * MaxDelay

TimeBounded == \A c \in Calls : elapsed[c] <= LongestCall

\* What the caller can tell of a call, and how often it may be applied.
Status(c) ==
  IF pc[c] = "idle" THEN "idle"
  ELSE IF pc[c] # "done" THEN "pending"
  ELSE IF result[c] = "ok" THEN "ok" ELSE "failed"

Budget(c) ==
  IF pc[c] = "idle" THEN 0 ELSE IF isRetryable(req[c]) THEN MaxRetries + 1 ELSE 1

\* doWith implements a remote call (theorem Implements): applied within its
\* budget and told the truth about.
Remote == INSTANCE RemoteCall WITH
  Budgets <- {1, MaxRetries + 1},
  status  <- [c \in Calls |-> Status(c)],
  budget  <- [c \in Calls |-> Budget(c)]

-----------------------------------------------------------------------------
(* The inductive invariant (proved in Requests_proofs). *)

Attempted(c) == attempt[c] + (IF pc[c] \in {"idle", "send"} THEN 0 ELSE 1)

\* Each attempt is applied at most once, and repeated only when repeatable.
AppliedOncePerAttempt(c) ==
  /\ effects[c] + (IF wire[c] = "absent" THEN 0 ELSE 1) <= Attempted(c)
  /\ ~isRetryable(req[c]) => attempt[c] = 0
  /\ pc[c] = "wait" => isRetryable(req[c]) /\ attempt[c] < MaxRetries
  /\ pc[c] = "idle" => attempt[c] = 0
  /\ pc[c] \in {"idle", "send", "wait"} => wire[c] = "absent"
  /\ answer[c] # NoAnswer => wire[c] = "absent"
  /\ answer[c].status = "ok" => effects[c] > 0
  /\ answer[c].status = "absent" => answer[c] = NoAnswer
  /\ result[c] = "ok" => pc[c] = "done" /\ effects[c] > 0

\* A spent body is replaced before it can be sent.
BodyRestored(c) ==
  /\ pc[c] = "send" /\ body[c] = "spent" => attempt[c] > 0
  /\ wire[c] # "spent" /\ ~truncated[c]

\* Seconds spent before attempt n.
SpentBefore(n) == n * (Timeout + MaxDelay)

TimeByAttempts(c) ==
  /\ pc[c] \in {"idle", "send", "flight"} => elapsed[c] <= SpentBefore(attempt[c])
  /\ pc[c] = "wait" => elapsed[c] <= SpentBefore(attempt[c]) + Timeout
  /\ pc[c] = "done" => elapsed[c] <= LongestCall

CallInv(c) == AppliedOncePerAttempt(c) /\ BodyRestored(c) /\ TimeByAttempts(c)

Inv == TypeOK /\ \A c \in Calls : CallInv(c)
=============================================================================
