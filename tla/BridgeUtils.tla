---------------------------- MODULE BridgeUtils ----------------------------
(***************************************************************************)
(* The pure functions of go2_nav_bridge: validation of the parameters,     *)
(* sanitisation and clamping of a Twist, the period of the watchdog timer. *)
(*                                                                         *)
(* A double is an integer (a number of small units) or a member of         *)
(* NonFinite (NaN and the infinities).  Times are integers; the unit is    *)
(* the least period the code allows (1 ms in the code, coarser in TLC).    *)
(***************************************************************************)
EXTENDS Integers

CONSTANTS
  NonFinite,     \* the values for which std::isfinite answers false
  kMaxPeriodMs   \* the largest period of the watchdog timer

ASSUME NonFiniteAssumption == NonFinite \cap Int = {}
ASSUME MaxPeriodAssumption == kMaxPeriodMs \in Nat \ {0}

Double == Int \cup NonFinite

IsFinite(v) == v \notin NonFinite

\* std::clamp(v, lo, hi)
ClampTo(v, lo, hi) == IF v < lo THEN lo ELSE IF v > hi THEN hi ELSE v

validate_positive_or_fallback(value, fallback) ==
  IF ~IsFinite(value) \/ value <= 0 THEN fallback ELSE value

sanitize_finite_or_zero(value) == IF IsFinite(value) THEN value ELSE 0

clamp_symmetric(value, limit) ==
  LET abs_limit == IF limit < 0 THEN -limit ELSE limit
  IN  ClampTo(value, -abs_limit, abs_limit)

\* Half the timeout, clamped, and truncated by the cast to whole milliseconds.
watchdog_period_from_timeout(timeout) == ClampTo(timeout \div 2, 1, kMaxPeriodMs)

\* Strictly: a command exactly as old as the timeout is still fresh.
watchdog_timeout_elapsed(elapsed, timeout) == elapsed > timeout

=============================================================================
