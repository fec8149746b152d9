------------------------------ MODULE Learner ------------------------------
(***************************************************************************)
(* The target-seeking outer loop: runLearnTick (cmd/fan-controller) moving *)
(* each class's ramp start, the observer whose window it reads, and the    *)
(* box it steers; and, for the classes in Drifting, the loop around that   *)
(* one, the reconciler moving the targets by what the same window shows    *)
(* (what lies between it and the cycle is the subject of Adaptive).        *)
(*                                                                         *)
(* One Dwell stands for the control cycles between two learner ticks, long *)
(* enough for the plant to settle under the inner loop (the design's two   *)
(* timescales).  All samples of a dwell are alike, so the window holds one *)
(* per dwell; Window is OBSERVER_WINDOW_MINUTES over ADAPTIVE_CYCLE_MINUTES. *)
(* Res = 1: the smoothed temperature of a settled class is its reading.    *)
(*                                                                         *)
(* The plant is external: a class sits at the degrees its load dissipates  *)
(* less what the one chassis fan removes, and every class feels the fan    *)
(* the neediest class asked for.                                           *)
(***************************************************************************)
EXTENDS LearnLaw, ScoreLaw

CONSTANTS
  Class,
  Sleeper,          \* classes whose sensors may fall silent (drives, GPUs)
  Target, Emergency, MinCurveSpan,      \* per class, degrees
  Drifting,         \* classes whose target the reconciler drifts
  InMode, Env,      \* HOST_AGENT_MODE, and per class its envelope
  MinFan, MaxFan,
  Window,           \* dwells the observer's window covers
  Sane,             \* per class, the degrees the observer believes
  Profile,          \* per class, the ramp starts profile, scan or file may give
  MaxDisturbances,  \* bound: changes of load and silences per behaviour
  Heats,            \* per class, degrees it would reach without any air
  Cooling           \* per class, degrees a fan at 100% removes

ASSUME LearnerAssumption ==
  /\ Sleeper \subseteq Class
  /\ Target \in [Class -> Int] /\ Emergency \in [Class -> Int]
  /\ MinCurveSpan \in [Class -> Nat \ {0}]
  /\ Drifting \subseteq Class /\ InMode \in Mode
  /\ Env \in [Class -> [low : Nat, mid : Nat, high : Nat, safe : Nat]]
  /\ \A c \in Class : /\ 0 < Env[c].low /\ Env[c].low <= Env[c].mid
                      /\ Env[c].mid <= Env[c].high /\ Env[c].high < Env[c].safe
  /\ MinFan \in Nat /\ MaxFan \in Nat
  /\ 0 < MinFan /\ MinFan <= MaxFan /\ MaxFan <= 100
  /\ Window \in Nat \ {0} /\ MaxDisturbances \in Nat
  /\ Profile \in [Class -> SUBSET Int] /\ Sane \in [Class -> SUBSET Int]
  /\ Heats \in [Class -> SUBSET Nat] /\ Cooling \in [Class -> Nat]

VARIABLES
  fan,              \* the chassis setpoint the inner loop came to rest at
  comfort,          \* cfg.*Comfort per class
  target,           \* cfg.*Target per class
  last,             \* Last*Temp and Last*Demand per class, temp -1 before the first
  window,           \* observer buffer per class
  due,              \* the ticks to follow: "learn", "drift"
  heat,             \* plant: load per class
  awake,            \* plant: the classes whose sensors answer
  disturbed         \* how often the plant changed, against MaxDisturbances

plant == <<heat, awake, disturbed>>
vars == <<fan, comfort, target, last, window, due, heat, awake, disturbed>>

Cap(c) == MaxRampStart(MinCurveSpan[c], Emergency[c])

-----------------------------------------------------------------------------
(* The box, settled under the inner loop. *)

SteadyTemp(c, f) == heat[c] - RoundedRatio(Cooling[c] * f, 100)

CurveAt(c, f) ==
  CurveF(Res * SteadyTemp(c, f), Smaller(comfort[c], Cap(c)), Emergency[c], MinFan, MaxFan)

\* The fan the inner loop comes to rest at: the least one no curve exceeds
\* (more fan cools every class, so no curve exceeds a larger one either).
SteadyFan ==
  CHOOSE f \in MinFan .. MaxFan :
    /\ \A c \in awake : CurveAt(c, f) <= f
    /\ f = MinFan \/ \E c \in awake : CurveAt(c, f - 1) > f - 1

\* Some class is at its emergency temperature even at MaxFan: every cycle of
\* the dwell returns before it records a reading.
Overheated == \E c \in awake : SteadyTemp(c, MaxFan) >= Emergency[c]

Measured == IF Overheated THEN {} ELSE awake

\* A drifting target may have come from an adaptive.json.
Targets(c) == IF c \in Drifting THEN Env[c].low .. Env[c].safe - 1 ELSE {Target[c]}

-----------------------------------------------------------------------------
Init ==
  /\ \E p \in [Class -> UNION {Profile[c] : c \in Class}] :
       /\ \A c \in Class : p[c] \in Profile[c]
       /\ comfort = [c \in Class |-> Smaller(p[c], Cap(c))]
  /\ fan = MaxFan
  /\ last = [c \in Class |-> [temp |-> -1, demand |-> 0]]
  /\ window = [c \in Class |-> <<>>]
  /\ due = {}
  /\ \E t \in [Class -> UNION {Targets(c) : c \in Class}] :
       (\A c \in Class : t[c] \in Targets(c)) /\ target = t
  /\ heat \in [Class -> UNION {Heats[c] : c \in Class}]
  /\ \A c \in Class : heat[c] \in Heats[c]
  /\ awake = Class
  /\ disturbed = 0

\* The demand recorded is that of the chassis and not of the class.
LastOf_Chassis(c, f) ==
  IF c \in Measured THEN [temp |-> SteadyTemp(c, f), demand |-> f] ELSE last[c]

\* What the cycles of a dwell leave in Last*Temp and Last*Demand: a class that
\* returned no reading keeps the old pair.
LastOf(c, f) ==
  IF c \in Measured
  THEN [temp |-> SteadyTemp(c, f), demand |-> CurveAt(c, f)]
  ELSE last[c]

\* Observer.Add: a temperature out of the sane range is dropped and the window
\* stays what it was; any other is appended, the oldest evicted when it is full.
Slide(buf, s, sane) ==
  IF s.temp \notin sane THEN buf
  ELSE Append(IF Len(buf) >= Window THEN Tail(buf) ELSE buf, s)

\* What sampleObserver pushes: Last*Temp and Last*Demand of every class that
\* ever had a reading.  "asked" is history: what the class's own curve asked
\* for, Silent when it returned no reading.
Silent == -1

Sampled(c, f) ==
  LET l == LastOf(c, f)
  IN  IF l.temp < 0 THEN window[c]
      ELSE Slide(window[c],
                 [temp |-> l.temp, demand |-> l.demand,
                  asked |-> IF c \in Measured THEN CurveAt(c, f) ELSE Silent],
                 Sane[c])

Dwell ==
  /\ due = {}
  /\ due' = {"learn"} \cup (IF Drifting = {} THEN {} ELSE {"drift"})
  /\ fan' = SteadyFan
  /\ last' = [c \in Class |-> LastOf(c, fan')]
  /\ window' = [c \in Class |-> Sampled(c, fan')]
  /\ UNCHANGED <<comfort, target, plant>>

Temps(c)   == [i \in DOMAIN window[c] |-> window[c][i].temp]
Demands(c) == [i \in DOMAIN window[c] |-> window[c][i].demand]

Learns(c) == target[c] > 0 /\ Cap(c) >= Floor /\ window[c] # <<>>

\* The learner seeks the configured target, not the live one.
LearnTick_Configured ==
  /\ "learn" \in due
  /\ due' = due \ {"learn"}
  /\ comfort' = [c \in Class |->
       IF ~Learns(c) THEN comfort[c]
       ELSE TargetSeek(Percentile(50, Temps(c)), Percentile(90, Demands(c)),
                       Settled(Temps(c)), comfort[c], Target[c], Cap(c), MinFan)]
  /\ UNCHANGED <<fan, target, last, window, plant>>

\* runLearnTick: every class, each from its own window.
LearnTick ==
  /\ "learn" \in due
  /\ due' = due \ {"learn"}
  /\ comfort' = [c \in Class |->
       IF ~Learns(c) THEN comfort[c]
       ELSE TargetSeek(Percentile(50, Temps(c)), Percentile(90, Demands(c)),
                       Settled(Temps(c)), comfort[c], target[c], Cap(c), MinFan)]
  /\ UNCHANGED <<fan, target, last, window, plant>>

\* The minutes a window covers, at the default ADAPTIVE_CYCLE_MINUTES.
Minutes == 10 * Window

\* The square root, rounded down.
Root[v \in Nat] == CHOOSE d \in 0 .. v : d * d <= v /\ v < (d + 1) * (d + 1)

\* Observer.Stats, as the scores read it: tenths of a degree and of a change.
Stats(c) ==
  LET n     == Len(window[c])
      total == SumFunction(Temps(c))
      sq    == SumProducts(Temps(c), Temps(c))
      moves == {i \in 2 .. n : Demands(c)[i] # Demands(c)[i - 1]}
  IN  [full    |-> n = Window,
       mean    |-> RoundedRatio(10 * total, n),
       sd      |-> Root[(100 * (n * sq - total * total)) \div (n * n)],
       changes |-> RoundedRatio(10 * Cardinality(moves), Minutes),
       p90     |-> Percentile(90, Demands(c))]

\* A step out of the envelope starts over, as a loaded target outside it does.
Reconciled_Reseeded(c) ==
  LET s == Stats(c)
      t == target[c] + BestDelta(InMode, Env[c], s)
  IN  IF s.sd > VarianceReset \/ t \notin Env[c].low .. Env[c].safe - 1
      THEN InitialTarget(Env[c], InMode).target
      ELSE t

\* reconcileClass, of a class whose window is full.
Reconciled(c) ==
  LET s == Stats(c)
  IN  IF s.sd > VarianceReset THEN InitialTarget(Env[c], InMode).target
      ELSE Clamp(target[c] + BestDelta(InMode, Env[c], s), Env[c].low, Env[c].safe - 1)

\* Reconciler.Step: its ticker has the learner's period, and either of the two
\* may come first.
Drift ==
  /\ "drift" \in due
  /\ due' = due \ {"drift"}
  /\ target' = [c \in Class |->
       IF c \in Drifting /\ Len(window[c]) = Window THEN Reconciled(c) ELSE target[c]]
  /\ UNCHANGED <<fan, comfort, last, window, plant>>

Disturb ==
  /\ due = {} /\ disturbed < MaxDisturbances
  /\ disturbed' = disturbed + 1
  /\ UNCHANGED <<fan, comfort, target, last, window, due>>

\* The load of a class changes.
ShiftHeat ==
  /\ Disturb
  /\ \E c \in Class : \E h \in Heats[c] \ {heat[c]} : heat' = [heat EXCEPT ![c] = h]
  /\ UNCHANGED awake

\* Drives go to standby, a card vanishes: the class's maximum reads 0.
FallSilent ==
  /\ Disturb
  /\ \E c \in Sleeper \cap awake : awake' = awake \ {c}
  /\ UNCHANGED heat

Return ==
  /\ Disturb
  /\ \E c \in Class \ awake : awake' = awake \cup {c}
  /\ UNCHANGED heat

Next == Dwell \/ LearnTick \/ Drift \/ ShiftHeat \/ FallSilent \/ Return

\* The main loop keeps running cycles and ticks, the goroutine its own.
Spec == Init /\ [][Next]_vars /\ WF_vars(Dwell \/ LearnTick \/ Drift)

-----------------------------------------------------------------------------
\* The ramp starts stay between the learner's floor (or where the profile put
\* them, if lower) and the cap that keeps every ramp wide enough, and only the
\* cap itself puts them below the floor.
TypeOK ==
  /\ fan \in MinFan .. MaxFan
  /\ \A c \in Class :
       /\ comfort[c] \in Int /\ comfort[c] <= Cap(c)
       /\ comfort[c] >= Smaller(Floor, Cap(c)) \/ comfort[c] \in Profile[c]
       /\ window[c] \in Seq([temp : Int, demand : 0 .. 100, asked : -1 .. 100])
       /\ Len(window[c]) <= Window
       /\ last[c] \in [temp : Int, demand : 0 .. 100]
       /\ heat[c] \in Heats[c]
       /\ target[c] \in Targets(c)
  /\ due \subseteq {"learn", "drift"}
  /\ disturbed \in 0 .. MaxDisturbances
  /\ awake \subseteq Class /\ Class \ awake \subseteq Sleeper

\* A class that did not itself ask for fan above the minimum during the whole
\* window is not made to start cooling later, however loud another class keeps
\* the chassis: the ratchet that epochs 2 and 3 of learned.json were discarded
\* for.  (Dwells in which the class was silent are not held against it here.)
ReclaimsOnlyOwnFan ==
  [][\A c \in Class :
       comfort'[c] > comfort[c] =>
         \E i \in DOMAIN window[c] : window[c][i].asked > MinFan \/ window[c][i].asked = Silent]_vars

\* Once the load of the box stays as it is, the learner comes to rest: it does
\* not hunt around a target, and two classes do not chase each other.  Nor, with
\* the reconciler on, do a ramp and its target ("No oscillation between adjacent
\* targets", docs/adaptive-controller-v2.md:486).
ComesToRest == <>[][UNCHANGED plant]_vars => <>[][UNCHANGED <<comfort, target>>]_vars

\* ... and it rests where it promises: a class whose readings the observer takes
\* is within two degrees above its target, or hot with no more fan or no earlier
\* ramp to be had, or cool with none of the fan its own.
WellPlaced(c) ==
  c \in Measured /\ last[c].temp \in Sane[c] =>
    LET err == last[c].temp - target[c]
    IN  /\ err > 2 => last[c].demand >= SaturatedAt \/ comfort[c] = Floor
        /\ err <= -1 => last[c].demand <= MinFan \/ comfort[c] = Cap(c)

RestsAtTarget ==
  <>[][UNCHANGED plant]_vars => <>[](\A c \in Class : WellPlaced(c))

=============================================================================
