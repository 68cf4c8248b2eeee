----------------------------- MODULE PolicyLimits -----------------------------
(***************************************************************************)
(* How far over a limit of its policy a license may go (policy.go): the    *)
(* raw overage_strategy of a policy, the strategy it means, and the counts *)
(* that strategy permits.  A count stays far below 2^53, where the code's  *)
(* float64 products are exact, so integers stand for them.                 *)
(***************************************************************************)
EXTENDS Integers

OverageStrategies ==
  {"NO_OVERAGE", "ALLOW_1_25X_OVERAGE", "ALLOW_1_5X_OVERAGE", "ALLOW_2X_OVERAGE",
   "ALWAYS_ALLOW_OVERAGE"}

\* What a policy holds: a strategy, or the default that is none of them.
RawStrategies == OverageStrategies \union {"DENY_ACCESS"}

EffectiveOverageStrategy(raw) == IF raw \in OverageStrategies THEN raw ELSE "NO_OVERAGE"

Allows(strategy, count, max) ==
  CASE strategy = "ALLOW_1_25X_OVERAGE"  -> 4 * count <= 5 * max
    [] strategy = "ALLOW_1_5X_OVERAGE"   -> 2 * count <= 3 * max
    [] strategy = "ALLOW_2X_OVERAGE"     -> count <= 2 * max
    [] strategy = "ALWAYS_ALLOW_OVERAGE" -> TRUE
    [] OTHER                             -> count <= max
=============================================================================
