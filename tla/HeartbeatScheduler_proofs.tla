---------------------- MODULE HeartbeatScheduler_proofs ----------------------
(***************************************************************************)
(* Theorems about HeartbeatScheduler, for every window, fallback and       *)
(* interval, and pings that take any time.                                 *)
(***************************************************************************)
EXTENDS HeartbeatScheduler, TLAPS

-----------------------------------------------------------------------------
(* Types. *)

\* A window in use is a positive number of seconds.
LEMMA WindowPositive ==
  ASSUME NEW d \in Durations
  PROVE  EffectiveHeartbeatWindow(d) \in Nat \ {0}
  BY ConfigOK DEF EffectiveHeartbeatWindow, Second

\* No scheduler ticks more than once a second.
LEMMA AtLeastASecond ==
  ASSUME NEW d \in Durations, NEW i \in Asked \union {HeartbeatInterval(d)}
  PROVE  SchedulerInterval(i) \in Nat /\ SchedulerInterval(i) >= Second
  <1>1. i \in Int
    BY WindowPositive, ConfigOK DEF HeartbeatInterval, minHeartbeatInterval, Second
  <1>2. QED
    BY <1>1, ConfigOK DEF SchedulerInterval, minHeartbeatInterval, Second

\* The integer quotient by a divisor that is not fixed.
LEMMA DivBounds ==
  ASSUME NEW a \in Nat, NEW b \in Nat \ {0}
  PROVE  /\ a \div b \in Nat
         /\ (a \div b) * b <= a
         /\ a < (a \div b) * b + b
  OBVIOUS

LEMMA DivAntitone ==
  ASSUME NEW a \in Nat, NEW b \in Nat, b >= Second
  PROVE  a \div b <= a \div Second
  <1> DEFINE q == a \div b
  <1>1. /\ q \in Nat /\ a \div 3 \in Nat
        /\ q * b <= a /\ a < (a \div 3) * 3 + 3
    BY DivBounds DEF Second
  <1>2. q * 3 <= q * b
    <2> HIDE DEF q
    <2>1. QED
      BY <1>1 DEF Second
  <1>3. QED
    BY <1>1, <1>2 DEF Second

\* A call ends within one interval more than it makes the loop miss, and makes
\* it miss no more than the bound on ticks holds.
LEMMA OversleptBounds ==
  ASSUME TypeOK
  PROVE  /\ Overslept(spent) \in Nat
         /\ spent <= interval + Overslept(spent) * interval
         /\ Overslept(spent) <= MaxMissed
  <1>1. CASE spent = 0
    BY <1>1, ConfigOK DEF Overslept, TypeOK
  <1>2. CASE spent # 0
    <2>1. /\ spent - 1 \in Nat /\ interval \in Nat \ {0} /\ interval >= Second
          /\ spent - 1 < PingTime /\ PingTime \in Nat
      BY <1>2, ConfigOK DEF TypeOK, Second
    <2>2. /\ Overslept(spent) = (spent - 1) \div interval
          /\ (spent - 1) \div interval \in Nat
          /\ spent - 1 < ((spent - 1) \div interval) * interval + interval
      BY <1>2, <2>1, DivBounds DEF Overslept
    <2>3. (spent - 1) \div interval <= (spent - 1) \div Second
      BY <2>1, DivAntitone
    <2>4. (spent - 1) \div Second <= PingTime \div Second
      BY <2>1 DEF Second
    <2>5. (spent - 1) \div interval <= MaxMissed
      BY <2>1, <2>2, <2>3, <2>4, ConfigOK DEF Second
    <2> DEFINE q == (spent - 1) \div interval
               Q == q * interval
    <2>6. Q \in Int /\ spent \in Nat
      BY <2>1, <2>2 DEF TypeOK
    <2>7. spent <= interval + Q
      <3> HIDE DEF Q
      <3>1. spent - 1 < Q + interval
        BY <2>2 DEF Q
      <3>2. QED
        BY <2>1, <2>6, <3>1
    <2>8. QED
      BY <2>2, <2>5, <2>7, Zenon
  <1>3. QED
    BY <1>1, <1>2

\* A ping that has landed has cleared the count of unserved ticks.
Landed == pc = "ping" /\ ~wire /\ row /\ ~cancelled => missed = 0

LEMMA InitType == Init => TypeOK /\ Landed
  <1> SUFFICES ASSUME Init PROVE TypeOK /\ Landed
    OBVIOUS
  <1>1. PICK i \in Asked \union {HeartbeatInterval(duration)} : interval = SchedulerInterval(i)
    BY DEF Init
  <1>2. interval \in Nat /\ interval >= Second /\ next \in 1..interval
    BY <1>1, AtLeastASecond DEF Init, Second
  <1>3. 0 \in 0..PingTime /\ 0 \in 0..MaxMissed /\ 0 \in Nat
    BY ConfigOK
  <1>4. QED
    BY <1>2, <1>3, Zenon DEF Init, TypeOK, Landed

LEMMA NextType ==
  ASSUME TypeOK, Landed, [Next]_vars
  PROVE  TypeOK'
  <1>0. 0 \in 0..PingTime /\ 0 \in 0..MaxMissed /\ 0 \in 0..MaxAge
    BY ConfigOK
  <1>1. CASE TakeTick
    BY <1>0, <1>1, Zenon DEF TakeTick, TypeOK
  <1>2. CASE Stop
    BY <1>2 DEF Stop, TypeOK, server
  <1>a. ASSUME AfterPing  PROVE lateTicks' \in Nat
    BY <1>a DEF AfterPing, TypeOK
  <1>3. CASE PingAnswers
    <2>1. missed' \in 0..MaxMissed
      BY <1>3, OversleptBounds, ConfigOK DEF PingAnswers, TypeOK, Landed
    <2>2. QED
      BY <1>3, <1>a, <2>1, Zenon DEF PingAnswers, AfterPing, TypeOK
  <1>4. CASE PingFails
    <2>1. missed' \in 0..MaxMissed
      BY <1>4, OversleptBounds, ConfigOK DEF PingFails, TypeOK
    <2>2. QED
      BY <1>4, <1>a, <2>1, Zenon DEF PingFails, AfterPing, TypeOK
  <1>5. CASE Cancel
    BY <1>5, Zenon DEF Cancel, TypeOK, loop, server
  <1>6. CASE PingLands
    BY <1>0, <1>6, Zenon DEF PingLands, TypeOK, loop
  <1>7. CASE RowGoes
    BY <1>7, Zenon DEF RowGoes, TypeOK, loop
  <1>8. CASE Tick
    BY <1>8, ConfigOK DEF Tick, Waiting, Older, TypeOK, Second
  <1>9. CASE UNCHANGED vars
    BY <1>9 DEF vars, loop, server, TypeOK
  <1>10. QED
    BY <1>1, <1>2, <1>3, <1>4, <1>5, <1>6, <1>7, <1>8, <1>9 DEF Next, Run

LEMMA NextLanded ==
  ASSUME TypeOK, Landed, [Next]_vars
  PROVE  Landed'
  BY Zenon DEF Landed, TypeOK, Next, Run, TakeTick, Stop, PingAnswers, PingFails, AfterPing,
               Cancel, PingLands, RowGoes, Tick, vars, loop, server

\* Type correctness, for any windows, intervals and losses. In particular the
\* ticker never gets an interval below a second, which time.NewTicker would
\* panic on or the server be flooded by.
THEOREM TypeCorrect == Spec => []TypeOK
  BY InitType, NextType, NextLanded, PTL DEF Spec

-----------------------------------------------------------------------------
(* Cancellation. *)

\* What is left of the ticks that were on their way when the context ended: the
\* ping it interrupted and the tick in the channel.
Pending == (IF pc = "ping" THEN 1 ELSE 0) + (IF tick THEN 1 ELSE 0)

CancelInv ==
  /\ cancelled => lateTicks + Pending <= 2
  /\ ~cancelled => lateTicks = 0

LEMMA CancelStep ==
  ASSUME TypeOK, CancelInv, [Next]_vars
  PROVE  CancelInv'
  <1>1. CASE TakeTick
    BY <1>1 DEF TakeTick, TypeOK, CancelInv, Pending
  <1>2. CASE Stop
    BY <1>2 DEF Stop, TypeOK, CancelInv, Pending, server
  <1>3. CASE PingAnswers
    BY <1>3 DEF PingAnswers, AfterPing, TypeOK, CancelInv, Pending
  <1>4. CASE PingFails
    BY <1>4 DEF PingFails, AfterPing, TypeOK, CancelInv, Pending
  <1>5. CASE Cancel
    BY <1>5 DEF Cancel, TypeOK, CancelInv, Pending, loop
  <1>6. CASE PingLands
    BY <1>6 DEF PingLands, TypeOK, CancelInv, Pending, loop
  <1>7. CASE RowGoes
    BY <1>7 DEF RowGoes, TypeOK, CancelInv, Pending, loop
  <1>8. CASE Tick
    BY <1>8 DEF Tick, Waiting, TypeOK, CancelInv, Pending
  <1>9. CASE UNCHANGED vars
    BY <1>9 DEF vars, loop, server, TypeOK, CancelInv, Pending
  <1>10. QED
    BY <1>1, <1>2, <1>3, <1>4, <1>5, <1>6, <1>7, <1>8, <1>9 DEF Next, Run

\* After its context ended, Run calls onTick at most twice more: for the ping
\* that was under way, and for a tick that select took before ctx.Done().
THEOREM FewTicksHolds == Spec => []FewTicksAfterCancel
  <1>1. Init => CancelInv
    BY DEF Init, CancelInv, Pending
  <1>2. TypeOK /\ CancelInv => FewTicksAfterCancel
    BY DEF TypeOK, CancelInv, Pending, FewTicksAfterCancel
  <1>3. QED
    BY <1>1, <1>2, CancelStep, TypeCorrect, PTL DEF Spec

-----------------------------------------------------------------------------
(* The machine stays alive. *)

\* The last ping is as old as the ticks that went unserved, the one that is
\* served or next, and what the loop has waited since: a tick that waits in the
\* channel was due before the age passed them.
AgeBound ==
  LET due == interval + missed * interval
  IN age # None =>
       /\ pc = "select" /\ tick => age <= due
       /\ pc = "select" /\ ~tick => age + next <= due
       /\ pc = "ping" /\ wire => age <= due + spent
       /\ pc = "ping" /\ ~wire => missed = 0 /\ age <= spent

AliveInv ==
  ~cancelled /\ row =>
    /\ AgeBound
    /\ pc = "ping" /\ ~tick => spent + next <= interval
    /\ pc = "select" => ~wire
    /\ pc # "stopped"

\* Unserved ticks add up, each worth an interval.
LEMMA MissedTimes ==
  ASSUME TypeOK, NEW n \in Nat
  PROVE  /\ missed * interval \in Nat /\ n * interval \in Nat
         /\ (missed + n) * interval = missed * interval + n * interval
         /\ (n + 1) * interval = n * interval + interval
         /\ 0 * interval = 0
  BY ConfigOK DEF TypeOK

\* The loop takes up again after a call: what the call took is paid for by the
\* ticks it made the loop miss, and by its own if it was lost.
LEMMA AliveAfterPing ==
  ASSUME TypeOK, AliveInv, AfterPing, pc = "ping", ~cancelled, row,
         missed' = missed + Overslept(spent) + (IF wire THEN 1 ELSE 0)
  PROVE  AliveInv'
  <1> DEFINE o == Overslept(spent)
             n == o + (IF wire THEN 1 ELSE 0)
             M == missed * interval
             O == o * interval
             N == n * interval
             K == missed' * interval
  <1>1. o \in Nat /\ spent <= interval + O
    BY OversleptBounds
  <1>2. n \in Nat /\ missed \in Nat /\ missed' = missed + n
    BY <1>1, ConfigOK DEF TypeOK
  <1>3. M \in Nat /\ K = M + N
    BY <1>2, MissedTimes
  <1>4. N = O + (IF wire THEN interval ELSE 0) /\ O \in Nat
    BY <1>1, <1>2, MissedTimes
  <1>5. missed = 0 => M = 0
    BY <1>1, MissedTimes
  <1>6. /\ pc' = "select" /\ ~wire'
        /\ UNCHANGED <<interval, next, tick, spent, cancelled, row, age>>
    BY DEF AfterPing
  <1>7. K = missed' * interval'
    BY <1>6
  <1>8. /\ age # None => /\ wire => age <= interval + M + spent
                         /\ ~wire => missed = 0 /\ age <= spent
        /\ ~tick => spent + next <= interval
    BY DEF AliveInv, AgeBound
  <1>9. age # None => /\ tick => age <= interval + K
                      /\ ~tick => age + next <= interval + K
    <2> HIDE DEF n, M, O, N, K, o
    <2> SUFFICES ASSUME age # None
                 PROVE  /\ tick => age <= interval + K
                        /\ ~tick => age + next <= interval + K
      OBVIOUS
    <2>1. age \in Nat /\ next \in Nat /\ interval \in Nat /\ spent \in Nat /\ wire \in BOOLEAN
      BY ConfigOK DEF TypeOK
    <2>2. QED
      BY <1>1, <1>3, <1>4, <1>5, <1>8, <2>1
  <1>10. QED
    <2> HIDE DEF K
    <2>1. QED
      BY <1>6, <1>7, <1>9 DEF AliveInv, AgeBound

LEMMA AliveStep ==
  ASSUME TypeOK, AliveInv, [Next]_vars
  PROVE  AliveInv'
  <1> DEFINE M == missed * interval
  <1>0. M \in Nat /\ 0 * interval = 0
    BY MissedTimes
  <1>1. CASE TakeTick
    <2>1. SUFFICES ASSUME ~cancelled, row  PROVE AliveInv'
      BY <1>1 DEF TakeTick, AliveInv
    <2>2. /\ pc' = "ping" /\ ~tick' /\ wire' /\ spent' = 0
          /\ UNCHANGED <<interval, missed, age, next, cancelled, row>>
      BY <1>1, <2>1 DEF TakeTick
    <2>3. missed' * interval' = M /\ (age # None => age <= interval + M)
      BY <1>1, <2>1, <2>2 DEF TakeTick, AliveInv, AgeBound
    <2>4. age \in Nat \union {None} /\ interval \in Nat /\ next \in 1..interval
      BY ConfigOK DEF TypeOK
    <2> HIDE DEF M
    <2>5. age' # None => age' <= interval' + M + spent'
      BY <1>0, <2>2, <2>3, <2>4, ConfigOK
    <2>6. spent' + next' <= interval'
      BY <2>2, <2>4
    <2>7. QED
      BY <2>2, <2>3, <2>5, <2>6 DEF AliveInv, AgeBound
  <1>2. CASE Stop
    BY <1>2 DEF Stop, server, AliveInv
  <1>3. CASE PingAnswers
    <2>1. SUFFICES ASSUME ~cancelled, row  PROVE AliveInv'
      BY <1>3 DEF PingAnswers, AfterPing, AliveInv
    <2>2. missed' = missed + Overslept(spent) + (IF wire THEN 1 ELSE 0)
      BY <1>3, <2>1, OversleptBounds, ConfigOK DEF PingAnswers, TypeOK
    <2>3. QED
      BY <1>3, <2>1, <2>2, AliveAfterPing DEF PingAnswers
  <1>4. CASE PingFails
    <2>1. SUFFICES ASSUME ~cancelled, row  PROVE AliveInv'
      BY <1>4 DEF PingFails, AfterPing, AliveInv
    <2>2. missed' = missed + Overslept(spent) + (IF wire THEN 1 ELSE 0)
      BY <1>4, <2>1, OversleptBounds, ConfigOK DEF PingFails, TypeOK
    <2>3. QED
      BY <1>4, <2>1, <2>2, AliveAfterPing DEF PingFails
  <1>5. CASE Cancel
    BY <1>5 DEF Cancel, AliveInv
  <1>6. CASE PingLands
    BY <1>6, ConfigOK DEF PingLands, loop, AliveInv, AgeBound, TypeOK
  <1>7. CASE RowGoes
    BY <1>7 DEF RowGoes, AliveInv
  <1>8. CASE Tick
    <2>1. SUFFICES ASSUME ~cancelled, row  PROVE AliveInv'
      BY <1>8 DEF Tick, AliveInv
    <2>2. /\ missed' * interval' = M
          /\ UNCHANGED <<interval, pc, wire, missed, cancelled, row>>
      BY <1>8 DEF Tick
    <2>3. /\ next \in Nat /\ interval \in Nat /\ spent \in Nat /\ next >= 1
          /\ age # None => age \in Nat /\ age' \in Nat /\ age' <= age + 1
          /\ age' # None => age # None
      BY <1>8, ConfigOK DEF Tick, Older, TypeOK
    <2>4. CASE pc = "select"
      <3>1. ~tick
        BY <1>8, <2>4 DEF Tick, Waiting
      <3>2. age # None => /\ tick' => age' <= interval + M
                          /\ ~tick' => age' + next' <= interval + M
        <4>1. age # None => age + next <= interval + M
          BY <2>1, <2>4, <3>1 DEF AliveInv, AgeBound
        <4> HIDE DEF M
        <4>2. CASE next = 1
          <5>1. tick'
            BY <1>8, <4>2 DEF Tick
          <5>2. QED
            BY <1>0, <2>3, <4>1, <4>2, <5>1
        <4>3. CASE next # 1
          <5>1. ~tick' /\ next' = next - 1
            BY <1>8, <3>1, <4>3 DEF Tick
          <5>2. QED
            BY <1>0, <2>3, <4>1, <5>1
        <4>4. QED
          BY <4>2, <4>3
      <3>3. ~wire
        BY <2>1, <2>4 DEF AliveInv
      <3> HIDE DEF M
      <3>4. QED
        BY <2>2, <2>3, <2>4, <3>2, <3>3 DEF AliveInv, AgeBound
    <2>5. CASE pc = "ping"
      <3>1. spent' = spent + 1
        BY <1>8, <2>5 DEF Tick
      <3>2. ~tick' => spent' + next' <= interval
        <4>1. SUFFICES ASSUME ~tick'  PROVE spent' + next' <= interval
          OBVIOUS
        <4>2. ~tick /\ next' = next - 1
          BY <1>8, <4>1 DEF Tick
        <4>3. spent + next <= interval
          BY <2>1, <2>5, <4>2 DEF AliveInv
        <4>4. QED
          BY <2>3, <3>1, <4>2, <4>3
      <3>3. age # None => /\ wire => age' <= interval + M + spent'
                          /\ ~wire => missed = 0 /\ age' <= spent'
        <4>1. age # None => /\ wire => age <= interval + M + spent
                            /\ ~wire => missed = 0 /\ age <= spent
          BY <2>1, <2>5 DEF AliveInv, AgeBound
        <4> HIDE DEF M
        <4>2. QED
          BY <1>0, <2>3, <3>1, <4>1
      <3> HIDE DEF M
      <3>4. QED
        BY <2>2, <2>3, <2>5, <3>2, <3>3 DEF AliveInv, AgeBound
    <2>6. QED
      BY <1>8, <2>4, <2>5 DEF Tick, Waiting
  <1>9. CASE UNCHANGED vars
    BY <1>9 DEF vars, loop, server, AliveInv, AgeBound
  <1>10. QED
    BY <1>1, <1>2, <1>3, <1>4, <1>5, <1>6, <1>7, <1>8, <1>9 DEF Next, Run

\* As many intervals fit in a window as losses are tolerated and one more, and
\* what a ping under way takes over is less than the second that truncating the
\* age grants, or paid for by the ticks it has used up.
LEMMA YoungIsAlive ==
  ASSUME TypeOK, AliveInv
  PROVE  StaysAlive
  <1> SUFFICES ASSUME interval = HeartbeatInterval(duration),
                      duration = None \/ duration > 0,
                      missed + UnderWay <= Tolerated(duration), ~cancelled, row, age # None
               PROVE  ~(age \div Second > ServerWindow(duration))
    BY DEF StaysAlive, Dead
  <1> DEFINE W == ServerWindow(duration)
             u == UnderWay
             M == missed * interval
             T == (missed + u) * interval
  <1>1. W = EffectiveHeartbeatWindow(duration) /\ W \in Nat \ {0}
    BY ConfigOK, WindowPositive DEF ServerWindow, EffectiveHeartbeatWindow, TypeOK
  <1>2. interval = IF W > 3 THEN W ELSE 3
    BY <1>1 DEF HeartbeatInterval, minHeartbeatInterval, Second
  <1>3. missed + u <= IF W >= 3 THEN 2 ELSE W - 1
    BY <1>1 DEF Tolerated
  <1>4. /\ interval \in Nat /\ next \in Nat /\ spent \in Nat /\ missed \in Nat /\ age \in Nat
        /\ pc \in {"select", "ping"}
    BY ConfigOK DEF TypeOK, AliveInv
  <1>5. u \in Nat /\ M \in Nat /\ T \in Nat /\ M <= T
    <2>1. u \in Nat
      BY OversleptBounds DEF UnderWay
    <2>2. M \in Nat /\ u * interval \in Nat /\ T = M + u * interval
      BY <2>1, MissedTimes
    <2>3. QED
      BY <2>1, <2>2
  <1>6. age <= interval + T + 2
    <2>1. CASE pc = "select"
      BY <1>4, <1>5, <2>1 DEF AliveInv, AgeBound
    <2>2. CASE pc = "ping"
      <3>1. age <= interval + M + spent
        BY <1>4, <1>5, <2>2 DEF AliveInv, AgeBound
      <3>2. CASE spent < Second
        BY <1>4, <1>5, <3>1, <3>2 DEF Second
      <3>3. CASE spent >= Second
        <4>1. u = 1 + Overslept(spent) /\ Overslept(spent) \in Nat
              /\ spent <= interval + Overslept(spent) * interval
          BY <2>2, <3>3, OversleptBounds DEF UnderWay
        <4>2. /\ T = M + u * interval
              /\ u * interval = Overslept(spent) * interval + interval
              /\ Overslept(spent) * interval \in Nat
          BY <1>5, <4>1, MissedTimes
        <4>3. QED
          BY <1>4, <1>5, <3>1, <4>1, <4>2
      <3>4. QED
        BY <1>4, <3>2, <3>3 DEF Second
    <2>3. QED
      BY <1>4, <2>1, <2>2
  <1>7. interval + T <= 3 * W
    <2>1. missed + u \in 0..2
      BY <1>1, <1>3, <1>4, <1>5
    <2>2. T = IF missed + u = 0 THEN 0 ELSE IF missed + u = 1 THEN interval
              ELSE interval + interval
      BY <1>4, <2>1
    <2> HIDE DEF T, u, W, M
    <2>3. QED
      BY <1>1, <1>2, <1>3, <1>4, <2>1, <2>2
  <1>8. age \div 3 <= W
    <2> HIDE DEF W, T
    <2>1. QED
      BY <1>1, <1>4, <1>5, <1>6, <1>7
  <1>9. QED
    BY <1>1, <1>4, <1>8 DEF Second

\* A scheduler on the policy's own interval keeps its machine from ever reading
\* DEAD, for every window but zero, while no more ticks in a row went unserved
\* than HeartbeatInterval's table promises to tolerate losses, however long the
\* pings take and however they end.
THEOREM StaysAliveHolds == Spec => []StaysAlive
  <1>1. Init => AliveInv
    BY DEF Init, AliveInv, AgeBound
  <1>2. TypeOK /\ AliveInv /\ [Next]_vars => AliveInv'
    BY AliveStep
  <1>3. TypeOK /\ AliveInv => StaysAlive
    BY YoungIsAlive
  <1>4. QED
    BY <1>1, <1>2, <1>3, TypeCorrect, PTL DEF Spec
=============================================================================
