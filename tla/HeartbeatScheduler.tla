-------------------------- MODULE HeartbeatScheduler --------------------------
(***************************************************************************)
(* HeartbeatScheduler (machine.go): a goroutine that pings one machine on  *)
(* a ticker until its context is cancelled, and the server that reads the  *)
(* machine DEAD when the last ping is older than the policy's window       *)
(* (policy_read.go).                                                       *)
(*                                                                         *)
(* Time is counted in thirds of a second, so that window/3 is a whole      *)
(* number of them; one third is the grain of every delay.                  *)
(***************************************************************************)
EXTENDS Integers

CONSTANTS
  Durations,  \* heartbeat_duration of the policy, in seconds; None is null
  Fallback,   \* machineHeartbeatWindow, in seconds
  Asked,      \* intervals a caller may pass instead of the policy's, in thirds
  PingTime,   \* the longest one PingHeartbeat call may take, in thirds
  MaxMissed,  \* bound: ticks in a row that no ping served
  MaxAge,     \* bound: a last ping older than this is as old as this
  None

Second == 3

ASSUME ConfigOK ==
  /\ Durations \subseteq Int \union {None} /\ None \notin Int
  /\ Fallback \in Nat /\ Fallback >= Second /\ Asked \subseteq Int
  /\ PingTime \in Nat /\ MaxMissed \in Nat /\ MaxMissed >= PingTime \div Second
  /\ MaxAge \in Nat
  /\ \A d \in (Durations \ {None}) \union {Fallback} : MaxAge >= Second * (d + 1)

VARIABLES
  duration,   \* the policy's heartbeat_duration
  interval,   \* the scheduler's interval
  \* Run
  pc,
  next,       \* time until the ticker fires
  tick,       \* the ticker's channel holds a tick; it has room for one
  spent,      \* time the ping has taken
  cancelled,  \* ctx is done
  \* the server
  row,        \* the machine exists
  age,        \* time since last_heartbeat_at; None before the first ping
  wire,       \* the ping under way can still reach the server
  \* history
  missed,     \* ticks since the last ping that reached the server that none served
  lateTicks   \* onTick calls since the cancellation

loop   == <<pc, next, tick, spent>>
server == <<row, age, wire, missed>>
vars   == <<duration, interval, loop, cancelled, server, lateTicks>>

-----------------------------------------------------------------------------
(* Windows and intervals. *)

\* A window that is not positive counts as unset.
EffectiveHeartbeatWindow(d) == IF d = None \/ (d # None /\ d <= 0) THEN Fallback ELSE d

\* The window the server judges by: null alone falls back.
ServerWindow(d) == IF d = None THEN Fallback ELSE d

\* Mutant of HeartbeatInterval: the interval that is safe for the fallback.
DefaultAlways(d) == Fallback

minHeartbeatInterval == Second

\* A third of the window, which has as many thirds as the window seconds, and
\* at least a second.
HeartbeatInterval(d) ==
  LET third == EffectiveHeartbeatWindow(d)
  IN IF third > minHeartbeatInterval THEN third ELSE minHeartbeatInterval

\* Mutant of SchedulerInterval: a short interval is taken as it is.
SchedulerIntervalFlood(i) == IF i <= 0 THEN Fallback ELSE i

\* NewHeartbeatScheduler's two clamps.
SchedulerInterval(i) ==
  IF i <= 0 THEN Fallback ELSE IF i < minHeartbeatInterval THEN minHeartbeatInterval ELSE i

\* The age in whole seconds, truncated, is compared with the window.
Dead == age # None /\ age \div Second > ServerWindow(duration)

\* The losses in a row a window survives (HeartbeatInterval's table).
Tolerated(d) == IF EffectiveHeartbeatWindow(d) >= 3 THEN 2 ELSE EffectiveHeartbeatWindow(d) - 1

TypeOK ==
  /\ duration \in Durations
  /\ interval \in Nat /\ interval >= Second
  /\ pc \in {"select", "ping", "stopped"}
  /\ next \in 1..interval /\ tick \in BOOLEAN /\ spent \in 0..PingTime
  /\ cancelled \in BOOLEAN /\ row \in BOOLEAN /\ wire \in BOOLEAN
  /\ age \in 0..MaxAge \union {None}
  /\ missed \in 0..MaxMissed
  /\ lateTicks \in Nat

\* NewHeartbeatScheduler, then Run: the first tick is one interval away.
Init ==
  /\ duration \in Durations
  /\ interval \in {SchedulerInterval(i) : i \in Asked \union {HeartbeatInterval(duration)}}
  /\ pc = "select" /\ next = interval /\ tick = FALSE /\ spent = 0
  /\ cancelled = FALSE /\ row = TRUE /\ age = None /\ wire = FALSE
  /\ missed = 0 /\ lateTicks = 0

-----------------------------------------------------------------------------
(* Run. *)

\* Mutant of TakeTick: the loop ends at the first ping that did not land.
TakeTickUntilLoss ==
  /\ pc = "select" /\ tick /\ missed = 0
  /\ tick' = FALSE /\ pc' = "ping" /\ spent' = 0
  /\ wire' = ~cancelled
  /\ UNCHANGED <<duration, interval, next, cancelled, row, age, missed, lateTicks>>

\* The tick is taken, and the ping sent unless ctx is done: select takes either
\* of two cases that are ready.
TakeTick ==
  /\ pc = "select" /\ tick
  /\ tick' = FALSE /\ pc' = "ping" /\ spent' = 0
  /\ wire' = ~cancelled
  /\ UNCHANGED <<duration, interval, next, cancelled, row, age, missed, lateTicks>>

\* Mutant of Stop: the context is only looked at once a ping
\* has landed.
StopWhenQuiet ==
  /\ pc = "select" /\ cancelled /\ age # None
  /\ pc' = "stopped"
  /\ UNCHANGED <<duration, interval, next, tick, spent, cancelled, server, lateTicks>>

Stop ==
  /\ pc = "select" /\ cancelled
  /\ pc' = "stopped"
  /\ UNCHANGED <<duration, interval, next, tick, spent, cancelled, server, lateTicks>>

\* Mutant of AfterPing: a ping that ends leaves a tick behind.
AfterPingAgain ==
  /\ pc' = "select" /\ wire' = FALSE /\ tick' = TRUE
  /\ lateTicks' = IF cancelled THEN lateTicks + 1 ELSE lateTicks
  /\ UNCHANGED <<duration, interval, next, spent, cancelled, row, age>>

\* The ticks that a call of t thirds makes the loop miss: it blocks Run, and the
\* ticker's channel keeps one tick.
Overslept(t) == IF t = 0 THEN 0 ELSE (t - 1) \div interval

\* onTick is called whatever came back, and the loop selects again.
AfterPing ==
  /\ pc' = "select" /\ wire' = FALSE
  /\ lateTicks' = IF cancelled THEN lateTicks + 1 ELSE lateTicks
  /\ UNCHANGED <<duration, interval, next, tick, spent, cancelled, row, age>>

\* The response: the ping has reached the server, or there is no row (404).
PingAnswers ==
  /\ pc = "ping" /\ ~(wire /\ row)
  /\ missed' = IF row /\ ~cancelled THEN missed + Overslept(spent) ELSE missed
  /\ AfterPing

\* No response: a timeout of some attempt, or a refused connection. A ping that
\* has not reached the server leaves the tick it was for unserved as well.
PingFails ==
  /\ pc = "ping"
  /\ LET unserved == Overslept(spent) + (IF wire THEN 1 ELSE 0)
     IN missed' = IF row /\ ~cancelled THEN missed + unserved ELSE missed
  /\ missed' <= MaxMissed
  /\ AfterPing

Cancel ==
  /\ ~cancelled /\ cancelled' = TRUE
  /\ UNCHANGED <<duration, interval, loop, server, lateTicks>>

-----------------------------------------------------------------------------
(* The server and the clock. *)

\* The ping reaches the server: last_heartbeat_at is now, DEAD or not.
PingLands ==
  /\ pc = "ping" /\ wire /\ row
  /\ wire' = FALSE /\ age' = 0 /\ missed' = 0
  /\ UNCHANGED <<duration, interval, loop, cancelled, row, lateTicks>>

\* The row is culled, or deleted.
RowGoes ==
  /\ row /\ row' = FALSE
  /\ UNCHANGED <<duration, interval, loop, cancelled, age, wire, missed, lateTicks>>

\* The loop waits for nothing but the ticker and the ping, a cancelled ping for
\* nothing.
Waiting ==
  \/ pc = "select" /\ ~tick /\ ~cancelled
  \/ pc = "ping" /\ spent < PingTime /\ ~cancelled

Older(a) == IF a = None \/ a = MaxAge THEN a ELSE a + 1

Tick ==
  /\ Waiting
  /\ next' = IF next = 1 THEN interval ELSE next - 1
  /\ tick' = (tick \/ next = 1)
  /\ spent' = IF pc = "ping" THEN spent + 1 ELSE spent
  /\ age' = Older(age)
  /\ UNCHANGED <<duration, interval, pc, cancelled, row, wire, missed, lateTicks>>

Run == TakeTick \/ Stop \/ PingAnswers \/ PingFails

Next == Run \/ Cancel \/ PingLands \/ RowGoes \/ Tick

\* The goroutine runs, time passes, and a ping that is not lost arrives.
Fairness == WF_vars(Run \/ PingLands) /\ WF_vars(Tick)
Spec == Init /\ [][Next]_vars /\ Fairness

-----------------------------------------------------------------------------
(* Properties. *)

\* The ticks a ping under way has used up, once it takes longer than the second
\* that truncating the age grants.
UnderWay == IF pc = "ping" /\ spent >= Second THEN 1 + Overslept(spent) ELSE 0

\* A scheduler on the policy's own interval keeps a machine from ever reading
\* DEAD while no more ticks in a row went unserved than HeartbeatInterval's
\* table tolerates losses, for every window but zero. A lost ping that ends
\* within an interval costs one tick, a call that blocks the loop for longer,
\* lost or answered, every tick it makes the loop miss.
StaysAlive ==
  (/\ interval = HeartbeatInterval(duration) /\ (duration = None \/ duration > 0)
   /\ missed + UnderWay <= Tolerated(duration) /\ ~cancelled /\ row)
    => ~Dead

\* After the cancellation onTick is called at most twice more: for the ping it
\* interrupted, and for a tick that select took before it.
FewTicksAfterCancel == lateTicks <= 2

\* A cancelled Run returns, whatever the ticker and the ping do.
RunReturns == cancelled ~> pc = "stopped"

\* A machine that reads DEAD is revived by the pings that go on ("do not stop
\* on ANY status").
DeadIsRevived == Dead /\ row /\ ~cancelled ~> ~Dead \/ ~row \/ cancelled
=============================================================================
