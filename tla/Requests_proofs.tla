---------------------------- MODULE Requests_proofs ----------------------------
(***************************************************************************)
(* Theorems about RequestRetry and about ResponseDecoding, for any set of  *)
(* calls and requests, any retry budget and any timeout.  The second adds  *)
(* no step to the first, so what is proved of the first holds of both.     *)
(***************************************************************************)
EXTENDS ResponseDecoding, TLAPS

-----------------------------------------------------------------------------
(* RequestRetry. *)

LEMMA InitInv == Init => Inv
  <1> SUFFICES ASSUME Init PROVE Inv
    OBVIOUS
  <1>1. NoAnswer \in Answers
    BY DEF NoAnswer, Answers
  <1>2. TypeOK
    <2>1. 0 \in 0..MaxRetries /\ 0 \in 0..MaxDelay
      BY ConfigOK DEF MaxDelay
    <2>2. answer \in [Calls -> Answers]
      BY <1>1 DEF Init
    <2>3. pc \in [Calls -> PCs] /\ body \in [Calls -> Bodies] /\ result \in [Calls -> Results]
            /\ wire \in [Calls -> Bodies \union {"absent"}]
      BY DEF Init, PCs, Bodies, Results
    <2>4. /\ req \in [Calls -> Requests] /\ attempt \in [Calls -> 0..MaxRetries]
          /\ delay \in [Calls -> 0..MaxDelay]
      BY <2>1 DEF Init
    <2>5. /\ ctxDone \in [Calls -> BOOLEAN] /\ truncated \in [Calls -> BOOLEAN]
          /\ effects \in [Calls -> Nat] /\ elapsed \in [Calls -> Nat]
      BY DEF Init
    <2>6. QED
      BY <2>2, <2>3, <2>4, <2>5 DEF TypeOK
  <1>3. ASSUME NEW c \in Calls
        PROVE  CallInv(c)
    <2>1. /\ pc[c] = "idle" /\ wire[c] = "absent" /\ effects[c] = 0
          /\ attempt[c] = 0 /\ result[c] = "none" /\ elapsed[c] = 0
          /\ body[c] = "none" /\ answer[c] = NoAnswer /\ answer[c].status = "absent"
      BY DEF Init, NoAnswer
    <2>2. ~truncated[c]
      BY DEF Init
    <2>3. AppliedOncePerAttempt(c)
      BY <2>1 DEF AppliedOncePerAttempt, Attempted
    <2>4. TimeByAttempts(c)
      BY <2>1, ConfigOK DEF TimeByAttempts, SpentBefore, MaxDelay
    <2>5. QED
      BY <2>1, <2>2, <2>3, <2>4 DEF CallInv, BodyRestored
  <1>4. QED
    BY <1>2, <1>3 DEF Inv

(* What each kind of step does to the types. *)

LEMMA SpendType ==
  ASSUME TypeOK, NEW c \in Calls, NEW t \in Nat, Spend(c, t)
  PROVE  /\ elapsed' \in [Calls -> Nat] /\ elapsed'[c] = elapsed[c] + t
         /\ \A x \in Calls \ {c} : elapsed'[x] = elapsed[x]
  BY DEF Spend, TypeOK

LEMMA FinishType ==
  ASSUME TypeOK, NEW c \in Calls, NEW r \in Results, Finish(c, r)
  PROVE  /\ pc' \in [Calls -> PCs] /\ req' \in [Calls -> Requests]
         /\ attempt' \in [Calls -> 0..MaxRetries] /\ body' \in [Calls -> Bodies]
         /\ delay' \in [Calls -> 0..MaxDelay] /\ result' \in [Calls -> Results]
         /\ pc'[c] = "done" /\ result'[c] = r
  BY DEF Finish, TypeOK, PCs

LEMMA DelaysAreCapped ==
  ASSUME NEW n \in Nat, NEW ra \in RetryAfters \union {NoHeader},
         NEW d \in RetryDelays(n, ra)
  PROVE  d \in 0..MaxDelay
  <1>1. CASE ra = NoHeader
    <2>1. n > 5 \/ n \in 0..5
      OBVIOUS
    <2>2. Backoff(n) \in {1, 2, 4, 8, 16, 32}
      BY <2>1 DEF Backoff
    <2>3. QED
      BY <1>1, <2>2 DEF RetryDelays, MaxDelay
  <1>2. CASE ra # NoHeader
    BY <1>2, ConfigOK DEF RetryDelays, MaxDelay
  <1>3. QED
    BY <1>1, <1>2

LEMMA ArrivesType ==
  ASSUME TypeOK, NEW c \in Calls, NEW n \in {0, 1}, NEW a \in Answers, Arrives(c, n, a)
  PROVE  TypeOK'
  <1>1. NoAnswer \in Answers
    BY DEF NoAnswer, Answers
  <1>2. wire' \in [Calls -> Bodies \union {"absent"}] /\ effects' \in [Calls -> Nat]
    BY DEF Arrives, TypeOK
  <1>3. answer' \in [Calls -> Answers]
    BY <1>1 DEF Arrives, TypeOK
  <1>4. truncated' \in [Calls -> BOOLEAN]
    BY DEF Arrives, TypeOK
  <1>5. QED
    BY <1>2, <1>3, <1>4 DEF Arrives, local, TypeOK

LEMMA StepKeepsTypes ==
  ASSUME Inv, [Next]_vars
  PROVE  TypeOK'
  <1> USE DEF Inv, CallInv
  <1>1. ASSUME NEW c \in Calls, Invoke(c)
        PROVE  TypeOK'
    <2>1. pc' \in [Calls -> PCs] /\ body' \in [Calls -> Bodies]
      BY <1>1 DEF Invoke, TypeOK, PCs, Bodies
    <2>2. QED
      BY <1>1, <2>1 DEF Invoke, network, TypeOK
  <1>2. ASSUME NEW c \in Calls, Send(c)
        PROVE  TypeOK'
    <2>1. pc' \in [Calls -> PCs]
      BY <1>2 DEF Send, TypeOK, PCs
    <2>2. body' \in [Calls -> Bodies] /\ wire' \in [Calls -> Bodies \union {"absent"}]
      BY <1>2 DEF Send, BodyOf, TypeOK, Bodies
    <2>3. answer' \in [Calls -> Answers]
      BY <1>2 DEF Send, TypeOK, NoAnswer, Answers
    <2>4. QED
      BY <1>2, <2>1, <2>2, <2>3 DEF Send, TypeOK
  <1>3. ASSUME NEW c \in Calls, SendRefused(c)
        PROVE  TypeOK'
    BY <1>3, FinishType DEF SendRefused, network, TypeOK, Results
  <1>4. ASSUME NEW c \in Calls, Answered(c)
        PROVE  TypeOK'
    <2>1. elapsed' \in [Calls -> Nat]
      BY <1>4, SpendType, ConfigOK DEF Answered
    <2>2. answer[c] \in Answers
      BY DEF TypeOK
    <2>3. CASE Finish(c, answer[c].status)
      <3>1. answer[c].status # "absent"
        BY <1>4 DEF Answered, AppliedOncePerAttempt
      <3>2. answer[c].status \in Results
        BY <2>2, <3>1 DEF Answers, Results
      <3>3. QED
        BY <1>4, <2>1, <2>3, <3>2, FinishType DEF Answered, network, TypeOK
    <2>4. CASE ~ReturnsAnswer(c)
      <3>1. PICK d \in RetryDelays(attempt[c], answer[c].retryAfter) :
              delay' = [delay EXCEPT ![c] = d]
        BY <1>4, <2>4 DEF Answered
      <3>2. d \in 0..MaxDelay
        BY <2>2, DelaysAreCapped DEF Answers, TypeOK
      <3>3. delay' \in [Calls -> 0..MaxDelay] /\ pc' \in [Calls -> PCs]
        BY <1>4, <2>4, <3>1, <3>2 DEF Answered, TypeOK, PCs
      <3>4. QED
        BY <1>4, <2>1, <2>4, <3>3 DEF Answered, network, TypeOK
    <2>5. QED
      BY <1>4, <2>3, <2>4 DEF Answered
  <1>5. ASSUME NEW c \in Calls, NetFails(c)
        PROVE  TypeOK'
    <2>1. elapsed' \in [Calls -> Nat]
      BY <1>5, SpendType, ConfigOK DEF NetFails
    <2>2. (IF ctxDone[c] THEN "ctxErr" ELSE "netErr") \in Results
      BY DEF Results
    <2>3. QED
      BY <1>5, <2>1, <2>2, FinishType DEF NetFails, network, TypeOK
  <1>6. ASSUME NEW c \in Calls, Retry(c)
        PROVE  TypeOK'
    <2>1. elapsed' \in [Calls -> Nat]
      BY <1>6, SpendType DEF Retry, TypeOK, MaxDelay
    <2>2. attempt' \in [Calls -> 0..MaxRetries]
      BY <1>6, ConfigOK DEF Retry, AppliedOncePerAttempt, TypeOK
    <2>3. pc' \in [Calls -> PCs]
      BY <1>6 DEF Retry, TypeOK, PCs
    <2>4. QED
      BY <1>6, <2>1, <2>2, <2>3 DEF Retry, network, TypeOK
  <1>7. ASSUME NEW c \in Calls, WaitCancelled(c)
        PROVE  TypeOK'
    <2>1. elapsed' \in [Calls -> Nat]
      BY <1>7, SpendType DEF WaitCancelled, TypeOK, MaxDelay
    <2>2. "ctxErr" \in Results
      BY DEF Results
    <2>3. QED
      BY <1>7, <2>1, <2>2, FinishType DEF WaitCancelled, network, TypeOK
  <1>8. ASSUME NEW c \in Calls, Cancel(c)
        PROVE  TypeOK'
    BY <1>8 DEF Cancel, local, network, TypeOK
  <1>9. ASSUME NEW c \in Calls, Handled(c) \/ Rejected(c) \/ Throttled(c)
        PROVE  TypeOK'
    BY <1>9, ArrivesType DEF Handled, Rejected, Throttled, Answers
  <1>10. CASE UNCHANGED vars
    BY <1>10 DEF vars, local, network, TypeOK
  <1>11. QED
    BY <1>1, <1>2, <1>3, <1>4, <1>5, <1>6, <1>7, <1>8, <1>9, <1>10
    DEF Next, Step, AllDone

-----------------------------------------------------------------------------
(* The inductive invariant, call by call.                                  *)

Untouched(x) ==
  /\ pc'[x] = pc[x] /\ req'[x] = req[x] /\ attempt'[x] = attempt[x]
  /\ body'[x] = body[x] /\ result'[x] = result[x] /\ wire'[x] = wire[x]
  /\ answer'[x] = answer[x] /\ effects'[x] = effects[x]
  /\ elapsed'[x] = elapsed[x] /\ truncated'[x] = truncated[x]

LEMMA UntouchedKeepsInv ==
  ASSUME NEW x \in Calls, CallInv(x), Untouched(x)
  PROVE  CallInv(x)'
  BY DEF CallInv, AppliedOncePerAttempt, Attempted, BodyRestored, TimeByAttempts,
         SpentBefore, LongestCall, isRetryable, Untouched

\* A step of one call leaves the others alone.
LEMMA OthersUntouched ==
  ASSUME TypeOK, NEW c \in Calls, NEW x \in Calls, x # c,
         \/ Invoke(c) \/ Step(c) \/ Cancel(c)
         \/ Handled(c) \/ Rejected(c) \/ Throttled(c)
  PROVE  Untouched(x)
  <1>1. CASE Invoke(c) \/ Cancel(c)
    BY <1>1 DEF Invoke, Cancel, local, network, TypeOK, Untouched
  <1>2. CASE Send(c) \/ SendRefused(c) \/ NetFails(c) \/ Retry(c) \/ WaitCancelled(c)
    BY <1>2 DEF Send, SendRefused, NetFails, Retry, WaitCancelled, Finish, Spend,
                network, TypeOK, Untouched
  <1>3. CASE Answered(c)
    BY <1>3 DEF Answered, Finish, Spend, network, TypeOK, Untouched
  <1>4. CASE Handled(c) \/ Rejected(c) \/ Throttled(c)
    BY <1>4 DEF Handled, Rejected, Throttled, Arrives, local, TypeOK, Untouched
  <1>5. QED
    BY <1>1, <1>2, <1>3, <1>4 DEF Step

\* n attempts and waits fit into the longest call.
LEMMA TimeArithmetic ==
  ASSUME NEW n \in 0..MaxRetries
  PROVE  /\ SpentBefore(n) \in Nat /\ LongestCall \in Nat
         /\ SpentBefore(n + 1) = SpentBefore(n) + Timeout + MaxDelay
         /\ SpentBefore(n) + Timeout <= LongestCall
         /\ n < MaxRetries => SpentBefore(n) + Timeout + MaxDelay <= LongestCall
  <1> DEFINE S == Timeout + MaxDelay
  <1>1. S \in Nat /\ Timeout \in Nat /\ MaxDelay \in Nat /\ MaxRetries \in Nat /\ n \in Nat
    BY ConfigOK DEF MaxDelay
  <1>2. LongestCall = MaxRetries * S + Timeout
    BY <1>1 DEF LongestCall
  <1>3. SpentBefore(n) = n * S
    BY DEF SpentBefore
  <1>4. SpentBefore(n + 1) = n * S + S
    BY <1>1 DEF SpentBefore
  <1>5. PICK k \in Nat : MaxRetries = n + k
    <2>1. MaxRetries - n \in Nat /\ MaxRetries = n + (MaxRetries - n)
      BY <1>1
    <2>2. QED
      BY <2>1
  <1>6. MaxRetries * S = n * S + k * S
    BY <1>1, <1>5
  <1>7. n * S \in Nat /\ k * S \in Nat
    BY <1>1, <1>5
  <1>8. n < MaxRetries => k * S >= S
    <2>1. SUFFICES ASSUME n < MaxRetries PROVE k * S >= S
      OBVIOUS
    <2>2. k - 1 \in Nat /\ k * S = (k - 1) * S + S
      BY <1>1, <1>5, <2>1
    <2>3. (k - 1) * S \in Nat
      BY <1>1, <2>2
    <2>4. QED
      BY <1>1, <2>2, <2>3
  <1> HIDE DEF S
  <1>9. LongestCall \in Nat /\ SpentBefore(n) \in Nat
    BY <1>1, <1>2, <1>3, <1>6, <1>7
  <1>10. SpentBefore(n) + Timeout <= LongestCall
    BY <1>1, <1>2, <1>3, <1>6, <1>7
  <1>11. n < MaxRetries => SpentBefore(n) + S <= LongestCall
    BY <1>1, <1>2, <1>3, <1>6, <1>7, <1>8
  <1>12. SpentBefore(n + 1) = SpentBefore(n) + Timeout + MaxDelay
           /\ SpentBefore(n) + S = SpentBefore(n) + Timeout + MaxDelay
    BY <1>1, <1>3, <1>4, <1>7 DEF S
  <1>13. QED
    BY <1>9, <1>10, <1>11, <1>12

LEMMA StepKeepsApplied ==
  ASSUME TypeOK, NEW c \in Calls, AppliedOncePerAttempt(c),
         \/ Invoke(c) \/ Step(c) \/ Cancel(c)
         \/ Handled(c) \/ Rejected(c) \/ Throttled(c)
  PROVE  AppliedOncePerAttempt(c)'
  <1>1. attempt[c] \in 0..MaxRetries /\ effects[c] \in Nat /\ MaxRetries \in Nat
    BY ConfigOK DEF TypeOK
  <1>2. CASE Invoke(c)
    BY <1>1, <1>2 DEF Invoke, network, TypeOK, AppliedOncePerAttempt, Attempted, isRetryable
  <1>3. CASE Send(c)
    <2>1. BodyOf(c) # "absent"
      BY DEF BodyOf, TypeOK, Bodies
    <2>2. /\ pc[c] = "send" /\ pc'[c] = "flight" /\ wire'[c] # "absent"
          /\ answer'[c] = NoAnswer /\ attempt'[c] = attempt[c] /\ effects'[c] = effects[c]
          /\ req'[c] = req[c] /\ result'[c] = result[c]
      BY <1>3, <2>1 DEF Send, TypeOK
    <2>3. NoAnswer.status = "absent"
      BY DEF NoAnswer
    <2>4. effects[c] <= attempt[c]
      BY <1>1, <2>2 DEF AppliedOncePerAttempt, Attempted
    <2>5. effects'[c] + (IF wire'[c] = "absent" THEN 0 ELSE 1) <= Attempted(c)'
      BY <1>1, <2>2, <2>4 DEF Attempted
    <2>6. answer'[c] # NoAnswer => wire'[c] = "absent"
      BY <2>2
    <2>7. answer'[c].status # "ok" /\ result'[c] # "ok"
      BY <2>2, <2>3 DEF AppliedOncePerAttempt
    <2>8. ~isRetryable(req'[c]) => attempt'[c] = 0
      BY <2>2 DEF AppliedOncePerAttempt
    <2>9. QED
      BY <2>2, <2>5, <2>6, <2>7, <2>8 DEF AppliedOncePerAttempt, isRetryable
  <1>4. CASE SendRefused(c) \/ WaitCancelled(c)
    BY <1>1, <1>4
    DEF SendRefused, WaitCancelled, Finish, network, TypeOK, AppliedOncePerAttempt, Attempted,
        isRetryable
  <1>5. CASE Answered(c)
    <2>1. /\ pc[c] = "flight" /\ wire'[c] = wire[c] /\ answer'[c] = answer[c]
          /\ effects'[c] = effects[c] /\ attempt'[c] = attempt[c] /\ req'[c] = req[c]
          /\ answer[c] # NoAnswer
      BY <1>5 DEF Answered, Finish, network
    <2>2. CASE pc'[c] = "done" /\ result'[c] = answer[c].status
      BY <1>1, <2>1, <2>2 DEF AppliedOncePerAttempt, Attempted, isRetryable
    <2>3. CASE pc'[c] = "wait" /\ result'[c] = result[c] /\ ~ReturnsAnswer(c)
      BY <1>1, <2>1, <2>3 DEF AppliedOncePerAttempt, Attempted, isRetryable, ReturnsAnswer
    <2>4. QED
      BY <1>5, <2>2, <2>3 DEF Answered, Finish, TypeOK
  <1>6. CASE NetFails(c)
    BY <1>1, <1>6
    DEF NetFails, Finish, network, TypeOK, AppliedOncePerAttempt, Attempted, isRetryable
  <1>7. CASE Retry(c)
    BY <1>1, <1>7
    DEF Retry, network, TypeOK, AppliedOncePerAttempt, Attempted, isRetryable
  <1>8. CASE Cancel(c)
    BY <1>1, <1>8
    DEF Cancel, local, network, AppliedOncePerAttempt, Attempted, isRetryable
  <1>9. ASSUME NEW n \in {0, 1}, NEW a \in Answers, Arrives(c, n, a),
               a.status = "ok" => n = 1, a.status # "absent"
        PROVE  AppliedOncePerAttempt(c)'
    <2>1. /\ wire[c] # "absent" /\ wire'[c] = "absent" /\ effects'[c] = effects[c] + n
          /\ answer'[c] \in {a, NoAnswer} /\ pc'[c] = pc[c] /\ attempt'[c] = attempt[c]
          /\ req'[c] = req[c] /\ result'[c] = result[c]
      BY <1>9 DEF Arrives, local, TypeOK
    <2>2. effects'[c] >= effects[c] /\ effects'[c] <= effects[c] + 1
      BY <1>1, <2>1
    <2>3. effects'[c] + (IF wire'[c] = "absent" THEN 0 ELSE 1) <= Attempted(c)'
      BY <1>1, <2>1, <2>2 DEF AppliedOncePerAttempt, Attempted
    <2>4. answer'[c].status = "ok" => effects'[c] > 0
      BY <1>1, <1>9, <2>1 DEF NoAnswer
    <2>5. answer'[c].status = "absent" => answer'[c] = NoAnswer
      BY <1>9, <2>1
    <2>6. result'[c] = "ok" => pc'[c] = "done" /\ effects'[c] > 0
      BY <1>1, <2>1, <2>2 DEF AppliedOncePerAttempt
    <2>7. QED
      BY <2>1, <2>3, <2>4, <2>5, <2>6 DEF AppliedOncePerAttempt, isRetryable
  <1>10. CASE Handled(c) \/ Rejected(c) \/ Throttled(c)
    <2>1. CASE Handled(c)
      <3>1. PICK a \in Answers : a.status = "ok" /\ Arrives(c, 1, a)
        BY <2>1 DEF Handled, Answers
      <3>2. QED
        BY <1>9, <3>1
    <2>2. CASE Rejected(c)
      <3>1. PICK n \in {0, 1}, a \in Answers : a.status = "failed" /\ Arrives(c, n, a)
        BY <2>2 DEF Rejected, Answers
      <3>2. QED
        BY <1>9, <3>1
    <2>3. CASE Throttled(c)
      <3>1. PICK n \in {0, 1}, a \in Answers : a.status = "throttled" /\ Arrives(c, n, a)
        BY <2>3 DEF Throttled, Answers
      <3>2. QED
        BY <1>9, <3>1
    <2>4. QED
      BY <1>10, <2>1, <2>2, <2>3
  <1>11. QED
    BY <1>2, <1>3, <1>4, <1>5, <1>6, <1>7, <1>8, <1>10 DEF Step

LEMMA StepKeepsBody ==
  ASSUME TypeOK, NEW c \in Calls, BodyRestored(c), AppliedOncePerAttempt(c),
         \/ Invoke(c) \/ Step(c) \/ Cancel(c)
         \/ Handled(c) \/ Rejected(c) \/ Throttled(c)
  PROVE  BodyRestored(c)'
  <1>1. attempt[c] \in 0..MaxRetries /\ MaxRetries \in Nat
    BY ConfigOK DEF TypeOK
  <1>2. CASE Invoke(c)
    BY <1>2 DEF Invoke, network, TypeOK, BodyRestored
  <1>3. CASE Send(c)
    <2>1. BodyOf(c) # "spent"
      BY <1>1, <1>3 DEF Send, BodyOf, BodyRestored
    <2>2. QED
      BY <1>3, <2>1 DEF Send, TypeOK, BodyRestored
  <1>4. CASE SendRefused(c) \/ WaitCancelled(c) \/ NetFails(c)
    BY <1>4 DEF SendRefused, WaitCancelled, NetFails, Finish, network, TypeOK, BodyRestored
  <1>5. CASE Answered(c)
    <2>1. pc'[c] \in {"done", "wait"} /\ wire'[c] = wire[c] /\ truncated'[c] = truncated[c]
      BY <1>5 DEF Answered, Finish, network, TypeOK
    <2>2. QED
      BY <2>1 DEF BodyRestored
  <1>6. CASE Retry(c)
    <2>1. attempt'[c] = attempt[c] + 1
      BY <1>6 DEF Retry, TypeOK
    <2>2. QED
      BY <1>1, <1>6, <2>1 DEF Retry, network, BodyRestored
  <1>7. CASE Cancel(c)
    BY <1>7 DEF Cancel, local, network, BodyRestored
  <1>8. CASE Handled(c) \/ Rejected(c) \/ Throttled(c)
    BY <1>8 DEF Handled, Rejected, Throttled, Arrives, local, TypeOK, BodyRestored
  <1>9. QED
    BY <1>2, <1>3, <1>4, <1>5, <1>6, <1>7, <1>8 DEF Step

LEMMA StepKeepsTime ==
  ASSUME TypeOK, NEW c \in Calls, TimeByAttempts(c), AppliedOncePerAttempt(c),
         \/ Invoke(c) \/ Step(c) \/ Cancel(c)
         \/ Handled(c) \/ Rejected(c) \/ Throttled(c)
  PROVE  TimeByAttempts(c)'
  <1> DEFINE n == attempt[c]
             e == elapsed[c]
  <1>1. n \in 0..MaxRetries /\ e \in Nat /\ MaxRetries \in Nat /\ Timeout \in Nat
          /\ MaxDelay \in Nat /\ delay[c] \in 0..MaxDelay
    BY ConfigOK DEF TypeOK, MaxDelay
  <1>2. /\ SpentBefore(n) \in Nat /\ LongestCall \in Nat
        /\ SpentBefore(n + 1) = SpentBefore(n) + Timeout + MaxDelay
        /\ SpentBefore(n) + Timeout <= LongestCall
        /\ n < MaxRetries => SpentBefore(n) + Timeout + MaxDelay <= LongestCall
    BY <1>1, TimeArithmetic
  <1>3. CASE pc'[c] \in {"send", "flight"} /\ attempt'[c] = n /\ elapsed'[c] = e
               /\ pc[c] \in {"idle", "send", "flight"}
    BY <1>3 DEF TimeByAttempts, SpentBefore
  <1>4. CASE pc'[c] = pc[c] /\ attempt'[c] = n /\ elapsed'[c] = e
    BY <1>4 DEF TimeByAttempts, SpentBefore, LongestCall
  <1>5. CASE pc[c] = "send" /\ pc'[c] = "done" /\ elapsed'[c] = e
    <2>1. e <= LongestCall
      BY <1>1, <1>2, <1>5 DEF TimeByAttempts
    <2>2. QED
      BY <1>5, <2>1 DEF TimeByAttempts, LongestCall
  <1>6. CASE pc[c] = "flight" /\ attempt'[c] = n /\ pc'[c] \in {"done", "wait"}
               /\ elapsed'[c] \in {e, e + Timeout}
    <2>1. elapsed'[c] <= SpentBefore(n) + Timeout
      BY <1>1, <1>2, <1>6 DEF TimeByAttempts
    <2>2. elapsed'[c] <= LongestCall
      BY <1>1, <1>2, <1>6, <2>1
    <2>3. QED
      BY <1>6, <2>1, <2>2 DEF TimeByAttempts, SpentBefore, LongestCall
  <1>7. CASE pc[c] = "wait" /\ attempt'[c] = n + 1 /\ pc'[c] = "send"
               /\ elapsed'[c] = e + delay[c]
    <2>1. elapsed'[c] <= SpentBefore(n + 1)
      BY <1>1, <1>2, <1>7 DEF TimeByAttempts
    <2>2. QED
      BY <1>7, <2>1 DEF TimeByAttempts, SpentBefore, LongestCall
  <1>8. CASE pc[c] = "wait" /\ n < MaxRetries /\ pc'[c] = "done"
               /\ elapsed'[c] \in {e, e + delay[c]}
    <2>1. elapsed'[c] <= LongestCall
      BY <1>1, <1>2, <1>8 DEF TimeByAttempts
    <2>2. QED
      BY <1>8, <2>1 DEF TimeByAttempts, LongestCall
  <1>9. CASE Invoke(c) \/ Send(c)
    BY <1>3, <1>9 DEF Invoke, Send, TypeOK
  <1>10. CASE SendRefused(c)
    BY <1>5, <1>10 DEF SendRefused, Finish, TypeOK
  <1>11. CASE Answered(c) \/ NetFails(c)
    <2>1. ASSUME NEW t \in {0, Timeout}, Spend(c, t)
          PROVE  elapsed'[c] \in {e, e + Timeout}
      BY <1>1, <2>1 DEF Spend, TypeOK
    <2>2. elapsed'[c] \in {e, e + Timeout}
      BY <1>11, <2>1 DEF Answered, NetFails
    <2>3. pc[c] = "flight" /\ attempt'[c] = n /\ pc'[c] \in {"done", "wait"}
      BY <1>11 DEF Answered, NetFails, Finish, TypeOK
    <2>4. QED
      BY <1>6, <2>2, <2>3
  <1>12. CASE Retry(c)
    BY <1>7, <1>12 DEF Retry, Spend, TypeOK
  <1>13. CASE WaitCancelled(c)
    <2>1. ASSUME NEW t \in {0, delay[c]}, Spend(c, t)
          PROVE  elapsed'[c] \in {e, e + delay[c]}
      BY <1>1, <2>1 DEF Spend, TypeOK
    <2>2. pc[c] = "wait" /\ n < MaxRetries /\ pc'[c] = "done"
      BY <1>13 DEF WaitCancelled, Finish, TypeOK, AppliedOncePerAttempt
    <2>3. QED
      BY <1>8, <1>13, <2>1, <2>2 DEF WaitCancelled
  <1>14. CASE Cancel(c) \/ Handled(c) \/ Rejected(c) \/ Throttled(c)
    BY <1>4, <1>14 DEF Cancel, Handled, Rejected, Throttled, Arrives, local
  <1>15. QED
    BY <1>9, <1>10, <1>11, <1>12, <1>13, <1>14 DEF Step

LEMMA NextInv ==
  ASSUME Inv, [Next]_vars
  PROVE  Inv'
  <1>1. ASSUME NEW x \in Calls  PROVE CallInv(x)'
    <2>1. TypeOK /\ CallInv(x)
      BY <1>1 DEF Inv
    <2>2. ASSUME NEW c \in Calls,
                 \/ Invoke(c) \/ Step(c) \/ Cancel(c)
                 \/ Handled(c) \/ Rejected(c) \/ Throttled(c)
          PROVE  CallInv(x)'
      <3>1. CASE x = c
        BY <2>1, <2>2, <3>1, StepKeepsApplied, StepKeepsBody, StepKeepsTime DEF CallInv
      <3>2. CASE x # c
        BY <2>1, <2>2, <3>2, OthersUntouched, UntouchedKeepsInv
      <3>3. QED
        BY <3>1, <3>2
    <2>3. CASE UNCHANGED vars
      <3>1. Untouched(x)
        BY <2>3 DEF vars, local, network, Untouched
      <3>2. QED
        BY <2>1, <3>1, UntouchedKeepsInv
    <2>4. QED
      BY <1>1, <2>2, <2>3 DEF Next, AllDone
  <1>2. QED
    BY <1>1, StepKeepsTypes DEF Inv

LEMMA InvHolds == Spec => []Inv
  <1>1. Inv /\ [Next]_vars => Inv'
    BY NextInv
  <1>2. QED
    BY InitInv, <1>1, PTL DEF Spec

\* Every variable of a call keeps its type; the attempt stays in its budget.
THEOREM TypeCorrect == Spec => []TypeOK
  <1>1. Inv => TypeOK
    BY DEF Inv
  <1>2. QED
    BY <1>1, InvHolds, PTL

\* No create, increment, change or delete is ever applied twice, with any
\* retry budget and whatever the network and a throttling gateway do.
THEOREM AtMostOnce == Spec => []CreatesAtMostOnce
  <1>1. ASSUME Inv, NEW c \in Calls, NotRepeatable(req[c])
        PROVE  effects[c] <= 1
    <2>1. ~isRetryable(req[c])
      BY <1>1 DEF NotRepeatable, isRetryable, retryablePOSTSuffixes
    <2>2. attempt[c] = 0 /\ effects[c] + (IF wire[c] = "absent" THEN 0 ELSE 1) <= Attempted(c)
      BY <1>1, <2>1 DEF Inv, CallInv, AppliedOncePerAttempt
    <2>3. effects[c] \in Nat
      BY <1>1 DEF Inv, TypeOK
    <2>4. QED
      BY <2>2, <2>3 DEF Attempted
  <1>2. Inv => CreatesAtMostOnce
    BY <1>1 DEF CreatesAtMostOnce
  <1>3. QED
    BY <1>2, InvHolds, PTL

\* Every attempt that reaches the server carries the whole body.
THEOREM WholeBodies == Spec => []EveryAttemptIsWhole
  <1>1. Inv => EveryAttemptIsWhole
    BY DEF Inv, CallInv, BodyRestored, EveryAttemptIsWhole
  <1>2. QED
    BY <1>1, InvHolds, PTL

\* No call takes longer than its attempts' timeouts and its capped waits.
THEOREM LongestCallHolds == Spec => []TimeBounded
  <1>1. ASSUME Inv, NEW c \in Calls
        PROVE  elapsed[c] <= LongestCall
    <2>1. /\ attempt[c] \in 0..MaxRetries /\ elapsed[c] \in Nat /\ pc[c] \in PCs
          /\ Timeout \in Nat /\ MaxDelay \in Nat /\ TimeByAttempts(c)
      BY <1>1, ConfigOK DEF Inv, CallInv, TypeOK, MaxDelay
    <2>2. /\ SpentBefore(attempt[c]) \in Nat /\ LongestCall \in Nat
          /\ SpentBefore(attempt[c]) + Timeout <= LongestCall
      BY <2>1, TimeArithmetic
    <2>3. QED
      BY <2>1, <2>2 DEF TimeByAttempts, PCs
  <1>2. Inv => TimeBounded
    BY <1>1 DEF TimeBounded
  <1>3. QED
    BY <1>2, InvHolds, PTL

(* Refinement: the safety part of RemoteCall. *)

\* A request on its way is one the budget still allows the server to apply.
LEMMA ArrivalInBudget ==
  ASSUME TypeOK, NEW c \in Calls, CallInv(c), wire[c] # "absent"
  PROVE  pc[c] # "idle" /\ effects[c] < Budget(c)
  <1>1. pc[c] # "idle" /\ effects[c] + 1 <= Attempted(c)
    BY DEF CallInv, AppliedOncePerAttempt
  <1>2. attempt[c] \in 0..MaxRetries /\ effects[c] \in Nat /\ MaxRetries \in Nat
    BY ConfigOK DEF TypeOK
  <1>3. ~isRetryable(req[c]) => attempt[c] = 0
    BY DEF CallInv, AppliedOncePerAttempt
  <1>4. QED
    BY <1>1, <1>2, <1>3 DEF Attempted, Budget

\* A step of a call is a step of the remote call, or none that it can see.
LEMMA CallRefines ==
  ASSUME Inv, TypeOK', NEW c \in Calls,
         \/ Invoke(c) \/ Step(c) \/ Cancel(c)
         \/ Handled(c) \/ Rejected(c) \/ Throttled(c)
  PROVE  [Remote!Next]_(Remote!vars)
  <1> DEFINE st == [x \in Calls |-> Status(x)]
             bu == [x \in Calls |-> Budget(x)]
  <1>1. TypeOK /\ CallInv(c)
    BY DEF Inv
  <1>2. \A x \in Calls \ {c} : Untouched(x)
    BY <1>1, OthersUntouched
  <1>3. \A x \in Calls \ {c} : st'[x] = st[x] /\ bu'[x] = bu[x]
    BY <1>2 DEF Untouched, Status, Budget, isRetryable
  <1>4. ASSUME Status(c)' = Status(c), Budget(c)' = Budget(c), effects' = effects
        PROVE  UNCHANGED Remote!vars
    <2>1. st' = st /\ bu' = bu
      BY <1>3, <1>4
    <2>2. QED
      BY <1>4, <2>1 DEF Remote!vars
  <1>5. ASSUME pc[c] = "idle", Status(c)' = "pending", Budget(c)' \in {1, MaxRetries + 1},
               effects' = effects
        PROVE  Remote!Next
    <2>1. st[c] = "idle"
      BY <1>5 DEF Status
    <2>2. st' = [st EXCEPT ![c] = "pending"] /\ bu' = [bu EXCEPT ![c] = Budget(c)']
      BY <1>3, <1>5
    <2>3. Remote!Invoke(c, Budget(c)')
      BY <1>5, <2>1, <2>2 DEF Remote!Invoke
    <2>4. QED
      BY <1>5, <2>3 DEF Remote!Next
  <1>6. ASSUME pc[c] # "idle", pc[c] # "done", Status(c)' \in {"ok", "failed"},
               Budget(c)' = Budget(c), effects' = effects,
               Status(c)' = "ok" => effects[c] > 0
        PROVE  Remote!Next
    <2>1. st[c] = "pending"
      BY <1>6 DEF Status
    <2>2. st' = [st EXCEPT ![c] = Status(c)'] /\ bu' = bu
      BY <1>3, <1>6
    <2>3. Remote!Return(c, Status(c)')
      BY <1>6, <2>1, <2>2 DEF Remote!Return
    <2>4. QED
      BY <1>6, <2>3 DEF Remote!Next
  <1>7. ASSUME pc[c] # "idle", Status(c)' = Status(c), Budget(c)' = Budget(c),
               effects' = [effects EXCEPT ![c] = @ + 1], effects[c] < Budget(c)
        PROVE  Remote!Next
    <2>1. st[c] # "idle" /\ effects[c] < bu[c]
      BY <1>7 DEF Status
    <2>2. st' = st /\ bu' = bu
      BY <1>3, <1>7
    <2>3. Remote!Apply(c)
      BY <1>7, <2>1, <2>2 DEF Remote!Apply
    <2>4. QED
      BY <2>3 DEF Remote!Next
  <1>8. CASE Invoke(c)
    <2>1. pc[c] = "idle" /\ pc'[c] = "send" /\ req' = req /\ effects' = effects
      BY <1>1, <1>8 DEF Invoke, network, TypeOK
    <2>2. QED
      BY <1>5, <2>1 DEF Status, Budget
  <1>9. CASE Send(c) \/ Retry(c) \/ Cancel(c)
    <2>1. /\ pc[c] \notin {"done"} /\ pc'[c] \notin {"done"} /\ req' = req
          /\ pc[c] # "idle" /\ pc'[c] # "idle" /\ effects' = effects
      BY <1>1, <1>9 DEF Send, Retry, Cancel, local, network, TypeOK
    <2>2. QED
      BY <1>4, <2>1 DEF Status, Budget, isRetryable
  <1>10. CASE SendRefused(c) \/ NetFails(c) \/ WaitCancelled(c)
    <2>1. /\ pc[c] \notin {"idle", "done"} /\ pc'[c] = "done" /\ req' = req
          /\ effects' = effects /\ result'[c] # "ok"
      BY <1>1, <1>10 DEF SendRefused, NetFails, WaitCancelled, Finish, network, TypeOK
    <2>2. QED
      BY <1>6, <2>1 DEF Status, Budget, isRetryable
  <1>11. CASE Answered(c)
    <2>1. pc[c] = "flight" /\ req' = req /\ effects' = effects
      BY <1>11 DEF Answered, Finish, network
    <2>2. CASE pc'[c] = "done" /\ result'[c] = answer[c].status
      BY <1>1, <1>6, <2>1, <2>2
      DEF Status, Budget, isRetryable, CallInv, AppliedOncePerAttempt
    <2>3. CASE pc'[c] = "wait"
      BY <1>4, <2>1, <2>3 DEF Status, Budget, isRetryable
    <2>4. QED
      BY <1>1, <1>11, <2>2, <2>3 DEF Answered, Finish, TypeOK
  <1>12. ASSUME NEW n \in {0, 1}, NEW a, Arrives(c, n, a)
         PROVE  [Remote!Next]_(Remote!vars)
    <2>1. /\ pc' = pc /\ req' = req /\ result' = result /\ wire[c] # "absent"
          /\ effects' = [effects EXCEPT ![c] = @ + n]
      BY <1>12 DEF Arrives, local
    <2>2. Status(c)' = Status(c) /\ Budget(c)' = Budget(c)
      BY <2>1 DEF Status, Budget, isRetryable
    <2>3. CASE n = 0
      <3>1. effects' = effects
        BY <1>1, <2>1, <2>3 DEF TypeOK
      <3>2. QED
        BY <1>4, <2>2, <3>1
    <2>4. CASE n = 1
      BY <1>1, <1>7, <2>1, <2>2, <2>4, ArrivalInBudget
    <2>5. QED
      BY <2>3, <2>4
  <1>13. CASE Handled(c) \/ Rejected(c) \/ Throttled(c)
    BY <1>12, <1>13 DEF Handled, Rejected, Throttled
  <1>14. QED
    BY <1>8, <1>9, <1>10, <1>11, <1>13 DEF Step

\* doWith implements the remote call, up to its liveness: it starts as one, and
\* every step is a step of it or a stutter.
THEOREM Implements == Spec => Remote!Init /\ [][Remote!Next]_(Remote!vars)
  <1>1. Init => Remote!Init
    BY DEF Init, Remote!Init, Status, Budget
  <1>2. ASSUME Inv, Inv', [Next]_vars
        PROVE  [Remote!Next]_(Remote!vars)
    <2>1. CASE UNCHANGED vars
      BY <2>1 DEF vars, local, network, Remote!vars, Status, Budget, isRetryable
    <2>2. QED
      BY <1>2, <2>1, CallRefines DEF Inv, Next, AllDone
  <1>3. QED
    BY <1>1, <1>2, InvHolds, PTL DEF Spec

-----------------------------------------------------------------------------
(* ResponseDecoding. *)

LEMMA NextIsRetryStep ==
  ASSUME [DecodedNext]_dvars
  PROVE  [Next]_vars
  <1>1. ASSUME NEW c \in Calls,
               RefusedLocally(c) \/ HelperStep(c)
        PROVE  UNCHANGED vars
    BY <1>1 DEF RefusedLocally, HelperStep, TransportError, MapError, Decode, FetchFails,
                FetchAnswered, Outcome
  <1>2. ASSUME NEW c \in Calls,
               \/ DecodedInvoke(c) \/ DecodedAnswered(c) \/ DecodedNet(c)
               \/ Redirected(c) \/ World(c)
        PROVE  Next
    BY <1>2 DEF DecodedInvoke, DecodedAnswered, DecodedNet, Redirected, World, Next, Step
  <1>3. CASE UNCHANGED dvars
    BY <1>3 DEF dvars
  <1>4. QED
    BY <1>1, <1>2, <1>3 DEF DecodedNext, DecodedStep, AllSettled

LEMMA InitDecoding == DecodedInit => DecodingInv
  <1>1. DecodedInit => Inv
    BY InitInv DEF DecodedInit
  <1>2. DecodedInit => DecodingTypes
    BY DEF DecodedInit, DecodingTypes, Outcomes
  <1>3. DecodedInit => BodiesClosedOnce
    <2>1. SUFFICES ASSUME DecodedInit, NEW c \in Calls
                   PROVE  received[c] = closed[c] + Unclosed(c)
      BY DEF BodiesClosedOnce
    <2>2. received[c] = 0 /\ closed[c] = 0
      BY <2>1 DEF DecodedInit
    <2>3. pc[c] = "idle" /\ outcome[c] = "none"
      BY <2>1 DEF DecodedInit, Init
    <2>4. Unclosed(c) = 0
      BY <2>3 DEF Unclosed
    <2>5. QED
      BY <2>2, <2>4
  <1>4. DecodedInit => \A c \in Calls : OutcomeAfterReturn(c)
    BY DEF DecodedInit, OutcomeAfterReturn
  <1>5. QED
    BY <1>1, <1>2, <1>3, <1>4 DEF DecodingInv

LEMMA NextTypes ==
  ASSUME DecodingTypes, [DecodedNext]_dvars
  PROVE  DecodingTypes'
  <1>1. ASSUME NEW c \in Calls, RefusedLocally(c) \/ DecodedInvoke(c) \/ DecodedNet(c) \/ World(c)
        PROVE  DecodingTypes'
    BY <1>1 DEF RefusedLocally, DecodedInvoke, DecodedNet, World, decoding, DecodingTypes, Outcomes
  <1>2. ASSUME NEW c \in Calls, DecodedAnswered(c) \/ Redirected(c)
        PROVE  DecodingTypes'
    <2>1. CASE DecodedAnswered(c)
      <3>1. CASE ReturnsAnswer(c)
        BY <2>1, <3>1 DEF DecodedAnswered, DecodingTypes
      <3>2. CASE ~ReturnsAnswer(c)
        BY <2>1, <3>2 DEF DecodedAnswered, DecodingTypes
      <3>3. QED
        BY <3>1, <3>2
    <2>2. CASE Redirected(c)
      <3>1. redirected' = [redirected EXCEPT ![c] = TRUE]
        BY <2>2 DEF Redirected
      <3>2. redirected' \in [Calls -> BOOLEAN]
        BY <3>1 DEF DecodingTypes
      <3>3. QED
        BY <2>2, <3>1, <3>2 DEF Redirected, DecodingTypes
    <2>3. QED
      BY <1>2, <2>1, <2>2
  <1>3. ASSUME NEW c \in Calls, TransportError(c)
        PROVE  DecodingTypes'
    <2>1. result[c] \in Outcomes
      BY <1>3 DEF TransportError, Outcomes
    <2>2. QED
      BY <1>3, <2>1 DEF TransportError, Outcome, DecodingTypes
  <1>4. ASSUME NEW c \in Calls, MapError(c)
        PROVE  DecodingTypes'
    BY <1>4 DEF MapError, Outcome, Close, ErrorCloses, DecodingTypes, Outcomes
  <1>5. ASSUME NEW c \in Calls, Decode(c)
        PROVE  DecodingTypes'
    <2>1. PICK r \in OutcomesOf(c) :
            Outcome(c, IF r = "url" /\ decoder[c] = "DownloadArtifact" THEN "fetch" ELSE r)
      BY <1>5 DEF Decode
    <2>2. r \in Outcomes /\ "fetch" \in Outcomes
      BY DEF OutcomesOf, Outcomes
    <2>3. QED
      BY <1>5, <2>1, <2>2 DEF Decode, Outcome, Close, DecodingTypes
  <1>6. ASSUME NEW c \in Calls, FetchFails(c) \/ FetchAnswered(c)
        PROVE  DecodingTypes'
    BY <1>6 DEF FetchFails, FetchAnswered, Outcome, Close, DecodingTypes, Outcomes
  <1>7. CASE UNCHANGED dvars
    BY <1>7 DEF dvars, decoding, DecodingTypes
  <1>8. QED
    BY <1>1, <1>2, <1>3, <1>4, <1>5, <1>6, <1>7
       DEF DecodedNext, DecodedStep, HelperStep, AllSettled

\* A call not concerned keeps its balance of bodies.
LEMMA OtherBodies ==
  ASSUME NEW x \in Calls, received[x] = closed[x] + Unclosed(x), OutcomeAfterReturn(x),
         received'[x] = received[x], closed'[x] = closed[x], outcome'[x] = outcome[x],
         pc'[x] = pc[x], result'[x] = result[x]
  PROVE  received'[x] = closed'[x] + Unclosed(x)' /\ OutcomeAfterReturn(x)'
  BY DEF Unclosed, OutcomeAfterReturn

LEMMA StepBodies ==
  ASSUME DecodingInv, NEW c \in Calls,
         \/ RefusedLocally(c) \/ DecodedInvoke(c) \/ DecodedStep(c)
         \/ Redirected(c) \/ World(c)
  PROVE  received'[c] = closed'[c] + Unclosed(c)' /\ OutcomeAfterReturn(c)'
  <1>1. /\ TypeOK /\ CallInv(c) /\ DecodingTypes /\ OutcomeAfterReturn(c)
        /\ received[c] = closed[c] + Unclosed(c)
        /\ received[c] \in Nat /\ closed[c] \in Nat
    BY DEF DecodingInv, Inv, BodiesClosedOnce, DecodingTypes
  <1>2. CASE RefusedLocally(c)
    BY <1>1, <1>2 DEF RefusedLocally, vars, local, Unclosed, OutcomeAfterReturn, DecodingTypes
  <1>3. CASE DecodedInvoke(c)
    BY <1>1, <1>3 DEF DecodedInvoke, Invoke, decoding, Unclosed, OutcomeAfterReturn, TypeOK
  <1>4. CASE DecodedAnswered(c)
    <2>1. /\ pc[c] = "flight" /\ outcome[c] = "none" /\ outcome'[c] = "none"
          /\ received'[c] = received[c] + 1 /\ Unclosed(c) = 0
      BY <1>1, <1>4
      DEF DecodedAnswered, Answered, OutcomeAfterReturn, Unclosed, DecodingTypes
    <2>2. answer[c].status \in {"ok", "failed", "throttled"}
      BY <1>1, <1>4 DEF DecodedAnswered, Answered, TypeOK, Answers, CallInv, AppliedOncePerAttempt
    <2>3. CASE ReturnsAnswer(c)
      <3>1. pc'[c] = "done" /\ result'[c] = answer[c].status /\ closed'[c] = closed[c]
        BY <1>1, <1>4, <2>3 DEF DecodedAnswered, Answered, Finish, TypeOK, DecodingTypes
      <3>2. QED
        BY <1>1, <2>1, <2>2, <3>1 DEF Unclosed, OutcomeAfterReturn
    <2>4. CASE ~ReturnsAnswer(c)
      <3>1. pc'[c] = "wait" /\ closed'[c] = closed[c] + 1
        BY <1>1, <1>4, <2>4 DEF DecodedAnswered, Answered, TypeOK, DecodingTypes
      <3>2. QED
        BY <1>1, <2>1, <3>1 DEF Unclosed, OutcomeAfterReturn
    <2>5. QED
      BY <2>3, <2>4
  <1>5. CASE DecodedNet(c)
    <2>1. /\ pc[c] \in {"send", "flight", "wait"}
          /\ \/ pc'[c] \in {"send", "flight"}
             \/ pc'[c] = "done" /\ result'[c] \in {"netErr", "ctxErr"}
      BY <1>1, <1>5
      DEF DecodedNet, Send, SendRefused, NetFails, Retry, WaitCancelled, Finish, TypeOK
    <2>2. received' = received /\ closed' = closed /\ outcome' = outcome
      BY <1>5 DEF DecodedNet, decoding
    <2>3. outcome[c] = "none"
      BY <1>1, <2>1 DEF OutcomeAfterReturn
    <2>4. QED
      BY <1>1, <2>1, <2>2, <2>3 DEF Unclosed, OutcomeAfterReturn
  <1>6. CASE HelperStep(c)
    <2>1. pc' = pc /\ result' = result /\ pc[c] = "done"
      BY <1>1, <1>6
      DEF HelperStep, TransportError, MapError, Decode, FetchFails, FetchAnswered, Outcome,
          Returned, OutcomeAfterReturn, vars, local
    <2>2. CASE TransportError(c)
      BY <1>1, <2>1, <2>2
      DEF TransportError, Returned, Outcome, Unclosed, OutcomeAfterReturn, DecodingTypes
    <2>3. CASE MapError(c)
      BY <1>1, <2>1, <2>3
      DEF MapError, Returned, Outcome, Close, ErrorCloses, Unclosed, OutcomeAfterReturn,
          DecodingTypes
    <2>4. CASE Decode(c)
      <3>1. outcome'[c] \notin {"none", "stream"}
        <4>1. PICK r \in OutcomesOf(c) :
                Outcome(c, IF r = "url" /\ decoder[c] = "DownloadArtifact" THEN "fetch" ELSE r)
          BY <2>4 DEF Decode
        <4>2. r \notin {"none", "stream"}
          BY DEF OutcomesOf
        <4>3. QED
          BY <1>1, <4>1, <4>2 DEF Outcome, DecodingTypes
      <3>2. /\ received'[c] = received[c] /\ closed'[c] = closed[c] + 1 /\ Unclosed(c) = 1
            /\ result[c] = "ok"
        BY <1>1, <2>4 DEF Decode, Returned, Close, Unclosed, DecodingTypes
      <3>3. QED
        BY <1>1, <2>1, <3>1, <3>2 DEF Unclosed, OutcomeAfterReturn
    <2>5. CASE FetchFails(c)
      BY <1>1, <2>1, <2>5 DEF FetchFails, Outcome, Unclosed, OutcomeAfterReturn, DecodingTypes
    <2>6. CASE FetchAnswered(c)
      BY <1>1, <2>1, <2>6
      DEF FetchAnswered, Outcome, Close, Unclosed, OutcomeAfterReturn, DecodingTypes
    <2>7. QED
      BY <1>6, <2>2, <2>3, <2>4, <2>5, <2>6 DEF HelperStep
  <1>7. CASE Redirected(c) \/ World(c)
    <2>1. pc' = pc /\ result' = result /\ received' = received /\ closed' = closed
          /\ outcome' = outcome
      BY <1>7 DEF Redirected, World, Cancel, Handled, Rejected, Throttled, Arrives, local, decoding
    <2>2. QED
      BY <1>1, <2>1, OtherBodies
  <1>8. QED
    BY <1>2, <1>3, <1>4, <1>5, <1>6, <1>7 DEF DecodedStep

LEMMA NextDecoding ==
  ASSUME DecodingInv, [DecodedNext]_dvars
  PROVE  DecodingInv'
  <1>1. Inv' /\ DecodingTypes'
    BY NextIsRetryStep, NextInv, NextTypes DEF DecodingInv
  <1>2. ASSUME NEW x \in Calls
        PROVE  received'[x] = closed'[x] + Unclosed(x)' /\ OutcomeAfterReturn(x)'
    <2>1. received[x] = closed[x] + Unclosed(x) /\ OutcomeAfterReturn(x)
      BY DEF DecodingInv, BodiesClosedOnce
    <2>2. ASSUME NEW c \in Calls, c # x,
                 \/ RefusedLocally(c) \/ DecodedInvoke(c) \/ DecodedStep(c)
                 \/ Redirected(c) \/ World(c)
          PROVE  received'[x] = closed'[x] + Unclosed(x)' /\ OutcomeAfterReturn(x)'
      <3>1. received'[x] = received[x] /\ closed'[x] = closed[x] /\ outcome'[x] = outcome[x]
        BY <2>2
        DEF DecodingInv, DecodingTypes, RefusedLocally, DecodedInvoke, DecodedStep,
            DecodedAnswered, DecodedNet, HelperStep, TransportError, MapError, Decode,
            FetchFails, FetchAnswered, Redirected, World, Outcome, Close, decoding
      <3>2. pc'[x] = pc[x] /\ result'[x] = result[x]
        BY <2>2
        DEF DecodingInv, Inv, TypeOK, RefusedLocally, DecodedInvoke, Invoke, DecodedStep,
            DecodedAnswered, Answered, DecodedNet, Send, SendRefused, NetFails, Retry,
            WaitCancelled, Finish, HelperStep, TransportError, MapError, Decode,
            FetchFails, FetchAnswered, Redirected, World, Cancel, Handled, Rejected,
            Throttled, Arrives, Outcome, vars, local
      <3>3. QED
        BY <2>1, <3>1, <3>2, OtherBodies
    <2>3. CASE UNCHANGED dvars
      BY <2>1, <2>3, OtherBodies DEF dvars, decoding, vars, local
    <2>4. QED
      BY <2>2, <2>3, StepBodies DEF DecodedNext, AllSettled
  <1>3. QED
    BY <1>1, <1>2 DEF DecodingInv, BodiesClosedOnce

LEMMA DecodingHolds == DecodedSpec => []DecodingInv
  <1>1. DecodingInv /\ [DecodedNext]_dvars => DecodingInv'
    BY NextDecoding
  <1>2. QED
    BY <1>1, InitDecoding, PTL DEF DecodedSpec

\* The helpers add no behaviour to doWith's: every theorem of RequestRetry about
\* its steps holds of a call made through them.
THEOREM ImplementsRetry == DecodedSpec => Init /\ [][Next]_vars
  <1>1. DecodedInit => Init
    BY DEF DecodedInit
  <1>2. [DecodedNext]_dvars => [Next]_vars
    BY NextIsRetryStep
  <1>3. QED
    BY <1>1, <1>2, PTL DEF DecodedSpec

\* Every response body is closed exactly once, whatever the server answers and
\* however often the call is repeated.
THEOREM BodiesClosed == DecodedSpec => []BodiesClosedOnce
  <1>1. DecodingInv => BodiesClosedOnce
    BY DEF DecodingInv
  <1>2. QED
    BY <1>1, DecodingHolds, PTL

(* Refinement: the safety part of RemoteCall, for a call made through a helper. *)

\* What the caller of x can tell is as it was.
HelperUntouched(x) == HelperStatus(x)' = HelperStatus(x) /\ Budget(x)' = Budget(x)

\* A step of one call is none of another's helper.
LEMMA HelpersUntouched ==
  ASSUME DecodingInv, NEW c \in Calls, NEW x \in Calls, x # c,
         \/ RefusedLocally(c) \/ DecodedInvoke(c) \/ DecodedStep(c)
         \/ Redirected(c) \/ World(c)
  PROVE  HelperUntouched(x)
  <1>1. outcome'[x] = outcome[x]
    BY DEF DecodingInv, DecodingTypes, RefusedLocally, DecodedInvoke, DecodedStep,
           DecodedAnswered, DecodedNet, HelperStep, TransportError, MapError, Decode,
           FetchFails, FetchAnswered, Redirected, World, Outcome, decoding
  <1>2. pc'[x] = pc[x] /\ req'[x] = req[x]
    <2>1. CASE RefusedLocally(c) \/ HelperStep(c)
      BY <2>1 DEF RefusedLocally, HelperStep, TransportError, MapError, Decode, FetchFails,
                  FetchAnswered, Outcome, vars, local
    <2>2. CASE ~(RefusedLocally(c) \/ HelperStep(c))
      <3>1. \/ Invoke(c) \/ Step(c) \/ Cancel(c)
            \/ Handled(c) \/ Rejected(c) \/ Throttled(c)
        BY <2>2 DEF DecodedInvoke, DecodedStep, DecodedAnswered, DecodedNet, Redirected,
                    World, Step
      <3>2. QED
        BY <3>1, OthersUntouched DEF DecodingInv, Inv, Untouched
    <2>3. QED
      BY <2>1, <2>2
  <1>3. QED
    BY <1>1, <1>2 DEF HelperUntouched, HelperStatus, Settled, Budget, isRetryable

\* How a helper ends: with a failure, or with what the server gave it.
LEMMA HelperReturns ==
  ASSUME DecodingInv, NEW c \in Calls, HelperStep(c)
  PROVE  /\ pc[c] = "done" /\ ~Settled(c) /\ UNCHANGED vars
         /\ \/ outcome'[c] = "fetch"
            \/ Settled(c)' /\ outcome'[c] \in {"value", "notOffered", "url", "stream"}
                 /\ result[c] = "ok"
            \/ Settled(c)' /\ outcome'[c] \notin {"value", "notOffered", "url", "stream"}
  <1>1. DecodingTypes /\ OutcomeAfterReturn(c)
    BY DEF DecodingInv
  <1>2. CASE TransportError(c) \/ MapError(c)
    BY <1>1, <1>2
    DEF TransportError, MapError, Outcome, Returned, Settled, DecodingTypes
  <1>3. CASE Decode(c)
    <2>1. PICK r \in OutcomesOf(c) :
            Outcome(c, IF r = "url" /\ decoder[c] = "DownloadArtifact" THEN "fetch" ELSE r)
      BY <1>3 DEF Decode
    <2>2. r \notin {"none", "fetch"}
      BY DEF OutcomesOf
    <2>3. outcome'[c] \in {r, "fetch"}
      BY <1>1, <2>1 DEF Outcome, DecodingTypes
    <2>4. result[c] = "ok" /\ pc[c] = "done" /\ ~Settled(c) /\ UNCHANGED vars
      BY <1>3 DEF Decode, Outcome, Returned, Settled
    <2>5. QED
      BY <2>2, <2>3, <2>4 DEF Settled
  <1>4. CASE FetchFails(c) \/ FetchAnswered(c)
    BY <1>1, <1>4
    DEF FetchFails, FetchAnswered, Outcome, OutcomeAfterReturn, Settled, DecodingTypes
  <1>5. QED
    BY <1>2, <1>3, <1>4 DEF HelperStep

\* A step of a call is a step of the remote call its helper makes, or none that
\* the helper's caller can see.
LEMMA HelperRefines ==
  ASSUME DecodingInv, DecodingInv', NEW c \in Calls,
         \/ RefusedLocally(c) \/ DecodedInvoke(c) \/ DecodedStep(c)
         \/ Redirected(c) \/ World(c)
  PROVE  [Helper!Next]_(Helper!vars)
  <1> DEFINE st == [x \in Calls |-> HelperStatus(x)]
             bu == [x \in Calls |-> Budget(x)]
  <1>1. /\ TypeOK /\ CallInv(c) /\ DecodingTypes /\ OutcomeAfterReturn(c)
        /\ TypeOK' /\ OutcomeAfterReturn(c)'
    BY DEF DecodingInv, Inv
  <1>2. \A x \in Calls \ {c} : st'[x] = st[x] /\ bu'[x] = bu[x]
    BY HelpersUntouched DEF HelperUntouched
  <1>3. ASSUME HelperStatus(c)' = HelperStatus(c), Budget(c)' = Budget(c), effects' = effects
        PROVE  UNCHANGED Helper!vars
    <2>1. st' = st /\ bu' = bu
      BY <1>2, <1>3
    <2>2. QED
      BY <1>3, <2>1 DEF Helper!vars
  <1>4. ASSUME HelperStatus(c) = "pending", HelperStatus(c)' \in {"ok", "failed"},
               Budget(c)' = Budget(c), effects' = effects,
               HelperStatus(c)' = "ok" => effects[c] > 0
        PROVE  Helper!Next
    <2>1. st' = [st EXCEPT ![c] = HelperStatus(c)'] /\ bu' = bu
      BY <1>2, <1>4
    <2>2. Helper!Return(c, HelperStatus(c)')
      BY <1>4, <2>1 DEF Helper!Return
    <2>3. QED
      BY <1>4, <2>2 DEF Helper!Next
  <1>5. CASE DecodedInvoke(c)
    <2>1. /\ pc[c] = "idle" /\ pc'[c] = "send" /\ req' = req /\ effects' = effects
          /\ outcome'[c] = "none"
      BY <1>1, <1>5 DEF DecodedInvoke, Invoke, decoding, network, TypeOK
    <2>2. st[c] = "idle" /\ HelperStatus(c)' = "pending" /\ Budget(c)' \in {1, MaxRetries + 1}
      BY <2>1 DEF HelperStatus, Settled, Budget
    <2>3. st' = [st EXCEPT ![c] = "pending"] /\ bu' = [bu EXCEPT ![c] = Budget(c)']
      BY <1>2, <2>2
    <2>4. Helper!Invoke(c, Budget(c)')
      BY <2>1, <2>2, <2>3 DEF Helper!Invoke
    <2>5. QED
      BY <2>2, <2>4 DEF Helper!Next
  <1>6. CASE RefusedLocally(c)
    BY <1>3, <1>6 DEF RefusedLocally, vars, local, network, HelperStatus, Budget, isRetryable
  <1>7. CASE DecodedAnswered(c) \/ DecodedNet(c) \/ (World(c) /\ Cancel(c))
    <2>1. pc[c] \notin {"idle", "done"}
      BY <1>1, <1>7
      DEF DecodedAnswered, Answered, DecodedNet, Send, SendRefused, NetFails, Retry,
          WaitCancelled, Cancel
    <2>2. pc'[c] # "idle" /\ req' = req /\ effects' = effects
      BY <1>1, <1>7
      DEF DecodedAnswered, Answered, DecodedNet, Send, SendRefused, NetFails, Retry,
          WaitCancelled, Cancel, Finish, local, network, TypeOK
    <2>3. outcome[c] = "none" /\ outcome'[c] = "none"
      BY <1>1, <1>7, <2>1 DEF OutcomeAfterReturn, DecodedAnswered, DecodedNet, World, decoding
    <2>4. QED
      BY <1>3, <2>1, <2>2, <2>3 DEF HelperStatus, Settled, Budget, isRetryable
  <1>8. CASE HelperStep(c)
    <2>1. pc[c] = "done" /\ ~Settled(c) /\ UNCHANGED vars
      BY <1>8, HelperReturns
    <2>2. HelperStatus(c) = "pending" /\ Budget(c)' = Budget(c) /\ effects' = effects /\ pc' = pc
      BY <2>1 DEF HelperStatus, Budget, isRetryable, vars, local, network
    <2>3. CASE outcome'[c] = "fetch"
      BY <1>3, <2>1, <2>2, <2>3 DEF HelperStatus, Settled
    <2>4. CASE /\ Settled(c)' /\ outcome'[c] \in {"value", "notOffered", "url", "stream"}
               /\ result[c] = "ok"
      BY <1>1, <1>4, <2>1, <2>2, <2>4
      DEF HelperStatus, CallInv, AppliedOncePerAttempt
    <2>5. CASE Settled(c)' /\ outcome'[c] \notin {"value", "notOffered", "url", "stream"}
      BY <1>4, <2>1, <2>2, <2>5 DEF HelperStatus
    <2>6. QED
      BY <1>8, <2>3, <2>4, <2>5, HelperReturns
  <1>9. ASSUME NEW n \in {0, 1}, NEW a, Arrives(c, n, a), outcome' = outcome
        PROVE  [Helper!Next]_(Helper!vars)
    <2>1. /\ pc' = pc /\ req' = req /\ wire[c] # "absent"
          /\ effects' = [effects EXCEPT ![c] = @ + n]
      BY <1>9 DEF Arrives, local
    <2>2. HelperStatus(c)' = HelperStatus(c) /\ Budget(c)' = Budget(c)
      BY <1>9, <2>1 DEF HelperStatus, Settled, Budget, isRetryable
    <2>3. CASE n = 0
      <3>1. effects' = effects
        BY <1>1, <2>1, <2>3 DEF TypeOK
      <3>2. QED
        BY <1>3, <2>2, <3>1
    <2>4. CASE n = 1
      <3>1. pc[c] # "idle" /\ effects[c] < Budget(c)
        BY <1>1, <2>1, ArrivalInBudget
      <3>2. st[c] # "idle" /\ effects[c] < bu[c]
        BY <3>1 DEF HelperStatus
      <3>3. st' = st /\ bu' = bu
        BY <1>2, <2>2
      <3>4. Helper!Apply(c)
        BY <2>1, <2>4, <3>2, <3>3 DEF Helper!Apply
      <3>5. QED
        BY <3>4 DEF Helper!Next
    <2>5. QED
      BY <2>3, <2>4
  <1>10. CASE Redirected(c) \/ (World(c) /\ ~Cancel(c))
    BY <1>9, <1>10 DEF Redirected, World, Handled, Rejected, Throttled, decoding
  <1>11. QED
    BY <1>5, <1>6, <1>7, <1>8, <1>10 DEF DecodedStep

\* Every helper implements the remote call, up to its liveness: what it returns,
\* a download's second request included, its caller may rely on, and the server
\* applies the request at most as often as its budget.
THEOREM HelperImplements == DecodedSpec => Helper!Init /\ [][Helper!Next]_(Helper!vars)
  <1>1. DecodedInit => Helper!Init
    BY DEF DecodedInit, Init, Helper!Init, HelperStatus, Budget
  <1>2. ASSUME DecodingInv, DecodingInv', [DecodedNext]_dvars
        PROVE  [Helper!Next]_(Helper!vars)
    <2>1. CASE UNCHANGED dvars
      BY <2>1
      DEF dvars, decoding, vars, local, network, Helper!vars, HelperStatus, Settled, Budget,
          isRetryable
    <2>2. QED
      BY <1>2, <2>1, HelperRefines DEF DecodedNext, AllSettled
  <1>3. QED
    BY <1>1, <1>2, DecodingHolds, PTL DEF DecodedSpec
=============================================================================
