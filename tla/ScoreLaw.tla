------------------------------ MODULE ScoreLaw ------------------------------
(***************************************************************************)
(* The pure decision of the reconciler for one class: the score functions  *)
(* of internal/mode and the projections internal/adaptive compares.        *)
(*                                                                         *)
(* A window is what Observer.Stats returns, [full, mean, sd, changes, p90]: *)
(* the mean, the standard deviation and the fan changes per minute in      *)
(* tenths, the 90th percentile of the fan demand in percent.  An envelope  *)
(* is [low, mid, high, safe], in degrees.  Scores are in thousandths, so   *)
(* that every constant of the code is a whole number and ties are exact.   *)
(***************************************************************************)
EXTENDS ControlLaw

Mode == {"max-cool", "balanced", "min-noise", "eco"}

\* What a degree of drift is taken to relieve, per degree of target.
VarianceRelief_Degrees == 30
VarianceRelief == 3                     \* tenths of a degree of deviation
FanRelief      == 5                     \* tenths of a change per minute
DemandRelief   == 5                     \* percent of fan demand

VarianceReset  == 50                    \* a deviation above 5 degrees resets the class

InitialTarget(env, mode) ==
  CASE mode = "max-cool" -> [target |-> env.low, deadband |-> 2]
    [] mode = "balanced" -> [target |-> env.mid, deadband |-> 3]
    [] mode = "min-noise" -> [target |-> env.high, deadband |-> 4]
    [] mode = "eco" -> [target |-> env.high, deadband |-> 5]

-----------------------------------------------------------------------------
\* Degrees (in tenths) below or above a bound, never negative.
Short(mean, bound)  == Larger(0, 10 * bound - mean)
Excess(mean, bound) == Larger(0, mean - 10 * bound)

Saturation(p90) == 1000 * Larger(0, p90 - 90) * Larger(0, p90 - 90)

Score(mode, env, s) ==
  CASE mode = "max-cool" ->
         100 * Excess(s.mean, env.low) + 5 * s.sd * s.sd + Saturation(s.p90)
    [] mode = "balanced" ->
         100 * (Short(s.mean, env.low) + Excess(s.mean, env.high))
           + 3 * s.sd * s.sd + 30 * s.changes + 5 * Saturation(s.p90)
    [] mode \in {"min-noise", "eco"} ->
         100 * Short(s.mean, env.high) + 500 * Excess(s.mean, env.high)
           + 200 * s.changes + 5 * s.sd * s.sd + 10 * Saturation(s.p90)

\* The window as it is expected one degree of target higher; the fan demand is
\* not projected.
Raised_MeanOnly(s) ==
  [s EXCEPT !.mean = @ + 10,
            !.sd = Larger(0, @ - VarianceRelief),
            !.changes = Larger(0, @ - FanRelief)]

Raised(s) ==
  [s EXCEPT !.mean = @ + 10,
            !.sd = Larger(0, @ - VarianceRelief),
            !.changes = Larger(0, @ - FanRelief),
            !.p90 = Larger(0, @ - DemandRelief)]

Lowered(s) ==
  [s EXCEPT !.mean = @ - 10,
            !.sd = @ + VarianceRelief,
            !.changes = @ + FanRelief,
            !.p90 = Smaller(100, @ + DemandRelief)]

\* A fall must beat both the present score and a rise.
BestDelta(mode, env, s) ==
  LET now  == Score(mode, env, s)
      up   == Score(mode, env, Raised(s))
      down == Score(mode, env, Lowered(s))
  IN  CASE down < Smaller(now, up) -> -1
        [] up < now /\ up <= down -> 1
        [] OTHER -> 0

\* The deadband a window asks for: half as much again as its deviation.
Deadband(mode, env, s, cap) ==
  Smaller(Larger((15 * s.sd + 99) \div 100, InitialTarget(env, mode).deadband), cap)
=============================================================================
