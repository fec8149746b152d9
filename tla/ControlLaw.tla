----------------------------- MODULE ControlLaw -----------------------------
(***************************************************************************)
(* The pure fan-control law of internal/control/control.go (the v3 curve), *)
(* together with the two helpers of internal/controller/controller.go and  *)
(* internal/envelope/envelope.go it is fed through.                        *)
(*                                                                         *)
(* Fan speeds are whole percents.  A RAW temperature is a whole degree; a  *)
(* SMOOTHED one is a float64 in the code and here an integer number of     *)
(* units of 1/Res of a degree.  Every float expression of the code is a    *)
(* ratio of integers, so the rounding is done exactly, on integers.        *)
(***************************************************************************)
EXTENDS Integers

CONSTANT Res        \* sub-degree units per degree of a smoothed temperature

ASSUME ResAssumption == Res \in Nat \ {0}

-----------------------------------------------------------------------------
Larger(a, b)  == IF b > a THEN b ELSE a
Smaller(a, b) == IF b < a THEN b ELSE a

Clamp(v, lo, hi) == IF v < lo THEN lo ELSE IF v > hi THEN hi ELSE v

\* The integer nearest to n/d, halves rounded up, for n >= 0 and d > 0: there
\* floor(x + 0.5) and math.Round agree.
RoundedRatio(n, d) == (2 * n + d) \div (2 * d)

-----------------------------------------------------------------------------
\* The law's rounding lost: the fan percent is truncated.
CurveF_Truncated(t, comfort, emergency, minFan, maxFan) ==
  LET window == emergency - comfort
      diff   == t - Res * comfort
  IN  CASE t <= 0              -> 0
        [] t > 0 /\ window > 0 /\ diff > 0 ->
             Smaller(maxFan, minFan + (diff * (maxFan - minFan)) \div (window * Res))
        [] OTHER               -> minFan

\* Fan percent one class asks for at smoothed temperature t: nothing when the
\* class is absent, minFan up to comfort, then a straight line that reaches
\* maxFan at the emergency temperature; a window that is not positive
\* degenerates to a step at the emergency temperature.
CurveF(t, comfort, emergency, minFan, maxFan) ==
  LET window == emergency - comfort
      diff   == t - Res * comfort
  IN  CASE t <= 0 -> 0
        [] t > 0 /\ window <= 0 ->
             IF t >= Res * emergency THEN maxFan ELSE minFan
        [] t > 0 /\ window > 0 /\ diff <= 0 -> minFan
        [] OTHER ->
             Smaller(maxFan,
                     minFan + RoundedRatio(diff * (maxFan - minFan), window * Res))

\* The v2 law the curve replaced, still in the code: a ramp over the last
\* `window' degrees below the emergency temperature (whole degrees).
ProximityFloor(temp, emergency, window, minFan, maxFan) ==
  LET diff == temp - (emergency - window)
  IN  IF window <= 0 THEN IF temp >= emergency THEN maxFan ELSE minFan
      ELSE IF diff <= 0 THEN minFan
      ELSE Clamp(minFan + RoundedRatio(diff * (maxFan - minFan), window), minFan, maxFan)

-----------------------------------------------------------------------------
\* Percent the setpoint may fall by over dt seconds: 0.2 %/s, rounded half
\* away from zero, and at least 1 so that a short cycle still makes progress.
MaxDrop_NoFloor(dt) == RoundedRatio(dt, 5)

MaxDrop(dt) == Larger(1, RoundedRatio(dt, 5))

\* Rises pass through, falls are limited to MaxDrop.
SlewDown(prev, want, dt) ==
  IF want < prev /\ prev - want > MaxDrop(dt) THEN prev - MaxDrop(dt) ELSE want

-----------------------------------------------------------------------------
\* The division taken over the whole 0..100 range instead of threshold..100.
ActiveGPUAssist_WholeRange(ownFan, threshold, minFan, maxFan) ==
  IF ownFan < threshold THEN 0
  ELSE Clamp(minFan + RoundedRatio((Smaller(ownFan, 100) - threshold) * (maxFan - minFan), 100),
             minFan, maxFan)

\* Chassis floor asked for by an active GPU whose own fan nears its limit.
ActiveGPUAssist(ownFan, threshold, minFan, maxFan) ==
  CASE ownFan < threshold -> 0
    [] ownFan >= threshold /\ threshold >= 100 ->
         IF ownFan >= 100 THEN maxFan ELSE 0
    [] OTHER ->
         Clamp(minFan + RoundedRatio((Smaller(ownFan, 100) - threshold) * (maxFan - minFan),
                                     100 - threshold),
               minFan, maxFan)

\* The chassis demand: the largest of the class curves and the assist, within
\* the fan limits.
MaxWins(cpu, pg, hdd, ssd, assist, minFan, maxFan) ==
  Clamp(Larger(Larger(Larger(Larger(cpu, pg), hdd), ssd), assist), minFan, maxFan)

-----------------------------------------------------------------------------
\* Highest comfort (ramp start) a class may use: a minimum span below its
\* emergency temperature.
MaxRampStart_OneDegree(span, emergency) == emergency - 1

MaxRampStart(span, emergency) == emergency - span

\* The values smoothTemp can leave behind, s being the smoothed temperature
\* and raw the whole-degree reading.  An absent class (raw <= 0) resets it and
\* the first reading seeds it.  From then on EwmaDt moves it the fraction
\* 1 - exp(-dt/60) of the way to the reading, in floating point: in units of
\* 1/Res degree anything from no move at all to all of the way, and never past
\* the reading.
SmoothTemp(s, raw) ==
  LET r == Res * raw
  IN  CASE raw <= 0          -> {0}
        [] raw > 0 /\ s <= 0 -> {r}
        [] OTHER             -> Smaller(s, r) .. Larger(s, r)
=============================================================================
