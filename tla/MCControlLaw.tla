---------------------------- MODULE MCControlLaw ----------------------------
(***************************************************************************)
(* Bounded enumeration of the inputs of ControlLaw, LearnLaw and ScoreLaw: *)
(* the state is one configuration (fan limits, ramp, own-fan threshold), a *)
(* step raises one of its numbers, and each property quantifies over the   *)
(* readings, scan points or windows.                                       *)
(***************************************************************************)
EXTENDS LearnLaw, ScoreLaw

CONSTANTS MaxTemp,     \* highest whole-degree temperature enumerated
          MinFans, MaxFans, Thresholds,
          MinSpan,     \* the minimum curve span of the class
          ScanFans,    \* the fan percents of the scan's three levels
          Rises,       \* by how much a class may get warmer from level to level
          ScanMargin   \* the margin of the fallback when the fit says nothing

\* Fan limits as config.go's Validate accepts them, and a threshold that is a
\* percent (Validate does not look at it).
ASSUME InputsAssumption ==
  /\ MaxTemp \in Nat /\ MinSpan \in Nat \ {0}
  /\ MinFans \subseteq 1 .. 100 /\ MaxFans \subseteq 1 .. 100
  /\ \A lo \in MinFans, hi \in MaxFans : lo <= hi
  /\ Thresholds \subseteq 0 .. 100
  /\ ScanFans \in [1 .. 3 -> Int] /\ Rises \subseteq Int /\ ScanMargin \in Int

\* scanLevels of scan.go.
BoxScanFans == <<80, 55, 30>>

\* A class gets warmer as the fans slow down, but for a degree of noise.
NoisyRises == -1 .. 3

VARIABLES minFan, maxFan, comfort, emergency, threshold
vars == <<minFan, maxFan, comfort, emergency, threshold>>

Init ==
  /\ minFan \in MinFans /\ maxFan \in MaxFans /\ threshold \in Thresholds
  /\ comfort = 0 /\ emergency = MinSpan

RaiseComfort ==
  /\ comfort < MaxTemp
  /\ comfort' = comfort + 1
  /\ UNCHANGED <<minFan, maxFan, emergency, threshold>>

RaiseEmergency ==
  /\ emergency < MaxTemp
  /\ emergency' = emergency + 1
  /\ UNCHANGED <<minFan, maxFan, comfort, threshold>>

Next == RaiseComfort \/ RaiseEmergency
Spec == Init /\ [][Next]_vars

-----------------------------------------------------------------------------
\* On whole degrees the curve is the v2 proximity floor with the ramp window
\* stretched over comfort..emergency (the claim of control.go's Curve comment):
\* the refactoring changed where the ramp lies and nothing else.
CurveIsStretchedFloor ==
  \A temp \in 1 .. MaxTemp :
    CurveF(Res * temp, comfort, emergency, minFan, maxFan)
      = ProximityFloor(temp, emergency, emergency - comfort, minFan, maxFan)

\* The reason for the minimum span: wherever the learner or a profile put the
\* comfort, the capped curve never moves the fan by more than its share of the
\* span for one degree of sensor noise.
GainIsBounded ==
  LET ramp == Smaller(comfort, MaxRampStart(MinSpan, emergency))
  IN  \A t \in Res .. Res * MaxTemp :
        CurveF(t + Res, ramp, emergency, minFan, maxFan)
          - CurveF(t, ramp, emergency, minFan, maxFan)
          \in 0 .. ((maxFan - minFan) \div MinSpan) + 1

\* The assist wakes at the threshold with minFan, never falls as the card's
\* own fan climbs, and is at maxFan when that fan is at its limit.
AssistSpansTheRange ==
  LET assist == [own \in 0 .. 110 |-> ActiveGPUAssist(own, threshold, minFan, maxFan)]
  IN  /\ \A own \in 0 .. 109 : assist[own] <= assist[own + 1]
      /\ \A own \in 100 .. 110 : assist[own] = maxFan
      /\ threshold < 100 => assist[threshold] = minFan

\* A ramp placed by the scan's fit holds the target on the fitted line: begun
\* one degree earlier its curve asks at the target for at least the fitted
\* fan, begun one degree later for no more (up to the percent's rounding and
\* the fan limits).  This is what lets a scanned box start near its target.
\* (The fit reads neither comfort nor threshold: one value of each suffices.)
FitHoldsTarget ==
  (comfort = 0 /\ threshold = 0) =>
  \A cold \in 1 .. MaxTemp, rise1, rise2 \in Rises, target \in 2 .. emergency - 1 :
    LET pts == << [fan |-> ScanFans[1], temp |-> cold],
                  [fan |-> ScanFans[2], temp |-> cold + rise1],
                  [fan |-> ScanFans[3], temp |-> cold + rise1 + rise2] >>
        ramp == FitComfort(pts, target, emergency, minFan, maxFan, ScanMargin, MinSpan)
        earlier == CurveF(Res * target, ramp - 1, emergency, minFan, maxFan)
        later   == CurveF(Res * target, ramp + 1, emergency, minFan, maxFan)
    IN  Informative(pts) =>
          /\ \/ ramp = Floor \/ earlier = maxFan
             \/ (2 * earlier + 1) * HoldDen(pts) >= 2 * HoldNum(pts, target)
          /\ \/ ramp >= emergency - MinSpan \/ later = minFan
             \/ (2 * later - 1) * HoldDen(pts) <= 2 * HoldNum(pts, target)

\* The processor's envelope, and windows on either side of its band that are
\* not noisy enough for a reset.  (The scores read nothing of the state: they
\* are checked in its first configurations.)
First == comfort = 0 /\ emergency = MinSpan /\ threshold = 0

CpuEnv == [low |-> 55, mid |-> 65, high |-> 75, safe |-> 85]

WindowsWith(p90s, sds) ==
  [full : {TRUE}, mean : {m \in 500 .. 804 : m % 10 \in {0, 4}}, sd : sds,
   changes : {0, 3, 12, 40}, p90 : p90s]

\* "Any sustained fan saturation drives target up regardless of where mean
\* sits in the band" (mode.go, scoreBalanced), and above it too, however
\* restless the window; the quiet modes promise it more strongly still.
SaturationRaises ==
  First =>
    \A mode \in Mode \ {"max-cool"} :
      \A s \in WindowsWith(91 .. 100, {0, 2, 15, 50}) : BestDelta(mode, CpuEnv, s) = 1

\* With fan to spare and a window that is not restless the balanced mode never
\* drives a class away from its preferred band: no rise from its top, no fall
\* from its inside, and a return from below.
BandAttracts ==
  First =>
    \A s \in WindowsWith({10, 60, 85}, {0, 1, 2, 3, 10, 25, 40, 48}) :
      LET delta == BestDelta("balanced", CpuEnv, s)
      IN  /\ s.mean >= 10 * CpuEnv.high => delta <= 0
          /\ s.mean <= 10 * CpuEnv.high => delta >= 0
          /\ s.mean < 10 * CpuEnv.low => delta = 1
=============================================================================
