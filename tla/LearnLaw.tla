------------------------------ MODULE LearnLaw ------------------------------
(***************************************************************************)
(* The pure decisions of the learner: TargetSeek (internal/learn/learn.go),*)
(* FitComfort (internal/learn/scan.go) and the window statistics they read *)
(* (internal/adaptive/observer.go).                                        *)
(*                                                                         *)
(* The readings the observer stores are whole degrees and its percentiles  *)
(* are members of the window, so TargetSeek works on integers; its one     *)
(* float comparison, standard deviation <= 1.5, and the least-squares fit  *)
(* are comparisons and quotients of integers.                              *)
(***************************************************************************)
EXTENDS ControlLaw, Sequences, FiniteSetsExt

CONSTANT Floor          \* learnComfortFloor: the lowest ramp start learned

ASSUME FloorAssumption == Floor \in Nat \ {0}

-----------------------------------------------------------------------------
\* Window statistics of a nonempty sequence of whole numbers.
Rank(p, n) == RoundedRatio(p * (n - 1), 100)    \* 0-based nearest rank

Percentile(p, s) ==
  CHOOSE v \in {s[i] : i \in DOMAIN s} :
    /\ Cardinality({i \in DOMAIN s : s[i] < v}) <= Rank(p, Len(s))
    /\ Cardinality({i \in DOMAIN s : s[i] <= v}) > Rank(p, Len(s))

SumProducts(f, g) == SumFunction([i \in DOMAIN f |-> f[i] * g[i]])

\* Population standard deviation at most SettleHalves / 2 degrees, squared.
SettleHalves == 3

Settled(s) ==
  LET n   == Len(s)
      sum == SumFunction(s)
      sq  == SumProducts(s, s)
  IN  4 * (n * sq - sum * sum) <= SettleHalves * SettleHalves * n * n

-----------------------------------------------------------------------------
\* The learner's parameters (DefaultParams).
ToleranceHot      == 2
ToleranceCool_Wide == 3
ToleranceCool     == 1
MaxStep           == 1
SaturatedAt       == 99

StepFor(err) == Clamp(err, 1, MaxStep)

\* The ramp start moved without the final clamp.
TargetSeek_Unclamped(p50, p90, settled, ramp, target, cap, minFan) ==
  LET err == p50 - target
  IN  CASE settled /\ err > ToleranceHot /\ p90 < SaturatedAt -> ramp - StepFor(err)
        [] settled /\ err <= -ToleranceCool /\ p90 > minFan   -> ramp + StepFor(-err)
        [] OTHER -> ramp

\* The dead zone around the target lost: anything not too cool is too hot.
TargetSeek_NoDeadZone(p50, p90, settled, ramp, target, cap, minFan) ==
  LET err == p50 - target
  IN  CASE settled /\ err > -ToleranceCool /\ p90 < SaturatedAt ->
             Clamp(ramp - StepFor(err), Floor, cap)
        [] settled /\ err <= -ToleranceCool /\ p90 > minFan ->
             Clamp(ramp + StepFor(-err), Floor, cap)
        [] OTHER -> ramp

\* The next ramp start of a class: lower when it settled too hot and its fan
\* has more to give, higher when it settled too cool and there is fan to give
\* back, unchanged otherwise.
TargetSeek(p50, p90, settled, ramp, target, cap, minFan) ==
  LET err == p50 - target
  IN  CASE settled /\ err > ToleranceHot /\ p90 < SaturatedAt ->
             Clamp(ramp - StepFor(err), Floor, cap)
        [] settled /\ err <= -ToleranceCool /\ p90 > minFan ->
             Clamp(ramp + StepFor(-err), Floor, cap)
        [] OTHER -> ramp

-----------------------------------------------------------------------------
\* The scan's line temp = a + b * fan through points [fan, temp], in integers:
\* b = Slope / Spread, and the fan that holds the target is HoldNum / HoldDen
\* when the line cools (Slope < 0).
FanOf(pts)  == [i \in DOMAIN pts |-> pts[i].fan]
TempOf(pts) == [i \in DOMAIN pts |-> pts[i].temp]

Spread(pts) ==
  Len(pts) * SumProducts(FanOf(pts), FanOf(pts)) - SumFunction(FanOf(pts)) * SumFunction(FanOf(pts))

Slope(pts) ==
  Len(pts) * SumProducts(FanOf(pts), TempOf(pts)) - SumFunction(FanOf(pts)) * SumFunction(TempOf(pts))

HoldDen(pts) == -(Len(pts) * Slope(pts))

HoldNum(pts, target) ==
  -((Len(pts) * target - SumFunction(TempOf(pts))) * Spread(pts)
      + Slope(pts) * SumFunction(FanOf(pts)))

Informative(pts) ==
  /\ \E i \in DOMAIN pts : pts[i].fan # pts[1].fan
  /\ Slope(pts) < 0

\* The share of the fan range needed at the target, ShareNum / ShareDen.
ShareNum_FromZero(pts, target, minFan, maxFan) ==
  Clamp(HoldNum(pts, target), 0, maxFan * HoldDen(pts))

ShareNum(pts, target, minFan, maxFan) ==
  Clamp(HoldNum(pts, target) - minFan * HoldDen(pts), 0, (maxFan - minFan) * HoldDen(pts))

ShareDen(pts, minFan, maxFan) == (maxFan - minFan) * HoldDen(pts)

\* The ramp start whose curve asks for the fitted fan at the target: target -
\* margin when the scan says nothing, the floor when it takes (nearly) all the
\* fan.  (Where the code rounds a negative number, the clamp hides it.)
FitComfort(pts, target, emergency, minFan, maxFan, margin, minSpan) ==
  LET hi       == emergency - Larger(minSpan, 1)
      share    == ShareNum(pts, target, minFan, maxFan)
      of       == ShareDen(pts, minFan, maxFan)
  IN  IF ~Informative(pts) \/ maxFan = minFan
      THEN Clamp(target - margin, Floor, hi)
      ELSE IF 1000 * share >= 999 * of THEN Floor
      ELSE Clamp(RoundedRatio(target * of - share * emergency, of - share), Floor, hi)
=============================================================================
