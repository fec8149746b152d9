------------------------------- MODULE Config -------------------------------
(***************************************************************************)
(* How the agent comes to its settings at start-up, life after life:       *)
(* internal/config (Load, ApplyMode, Validate), internal/envelope and the  *)
(* two steps of main that follow, the learned ramp starts of learned.json  *)
(* and the minimum curve span.  Between two lives the operator edits the   *)
(* environment; the file is of an earlier life, under other settings.      *)
(*                                                                         *)
(*   environment > profiles/<model>.env > profiles/default.env             *)
(*     --Load--> --ApplyMode--> --Validate--> refused                      *)
(*                                       +--> --Restored--> --EnforceCurveSpan--> running *)
(*                                                                         *)
(* A value is what its text parses to.  FAN_GAIN is in hundredths and      *)
(* ADAPT_ALPHA in thousandths.                                             *)
(***************************************************************************)
EXTENDS ScoreLaw, FiniteSets

CONSTANTS
  Chassis,          \* the models of /sys/class/dmi this box may be
  Profile,          \* per chassis, its profile
  Default,          \* default.env
  Offers,           \* per knob, the values the operator may give it
  MaxSet,           \* bound: knobs set in the environment at the same time
  Rests             \* where a ramp start may be after learning, before its bounds

Class == {"CPU", "GPU", "HDD", "SSD"}

Knob ==
  (Class \X {"TARGET", "DEADBAND", "EMERGENCY", "COMFORT"})
    \cup ({"all"} \X {"MIN_FAN", "MAX_FAN", "INTERVAL", "FAN_GAIN", "ADAPT_ALPHA"})

\* The text of a knob: not there, there and empty, not a number, or a number.
Absent  == [text |-> "absent", n |-> 0]
Blank   == [text |-> "blank", n |-> 0]
Garbled == [text |-> "garbled", n |-> 0]
Num(i)  == [text |-> "number", n |-> i]

Raw == [text : {"absent", "blank", "garbled", "number"}, n : Int]

ASSUME ConfigAssumption ==
  /\ Profile \in [Chassis -> [Knob -> Raw]]
  /\ Default \in [Knob -> Raw]
  /\ Offers \in [Knob -> SUBSET Raw]
  /\ MaxSet \in Nat
  /\ Rests \subseteq Int

DefaultEnvelopes ==
  [CPU |-> [low |-> 55, mid |-> 65, high |-> 75, safe |-> 85],
   GPU |-> [low |-> 75, mid |-> 80, high |-> 83, safe |-> 86],
   HDD |-> [low |-> 32, mid |-> 38, high |-> 43, safe |-> 45],
   SSD |-> [low |-> 45, mid |-> 50, high |-> 60, safe |-> 70]]

MinCurveSpanC == [CPU |-> 10, GPU |-> 8, HDD |-> 6, SSD |-> 6]

LearnComfortFloor == 20

VARIABLES
  env,              \* the environment: per knob
  setting,          \* HOST_AGENT_MODE: a mode, "unset" or "unknown"
  chassis,          \* the model of this box
  file,             \* learned.json: per class a ramp start, or NoFile
  phase,            \* "down", "refused", "running"
  cfg,              \* *config.Config: per knob
  pins              \* perClassOverrides

vars == <<env, setting, chassis, file, phase, cfg, pins>>

NoFile == [c \in {} |-> 0]
Zero   == [k \in Knob |-> 0]            \* var cfg Config

-----------------------------------------------------------------------------
(* Load *)

\* The first profile that has a line for the knob.
Shipped(m, k) == IF Profile[m][k].text # "absent" THEN Profile[m][k] ELSE Default[k]

\* The environment counts when it is not empty; then the profiles.
Source(k) ==
  CASE env[k].text \in {"garbled", "number"} -> env[k]
    [] env[k].text \in {"absent", "blank"} -> Shipped(chassis, k)

\* A malformed number is logged, and the field stays at its zero value.
Bound(r) == IF r.text = "number" THEN r.n ELSE 0

\* What the files under profiles/ have in common: a fan range, gains and a tick,
\* and for every class an emergency temperature above the profile's target and
\* above the highest target a mode may set.
ASSUME ShippedAssumption ==
  \A m \in Chassis :
    LET n(a, b) == Bound(Shipped(m, <<a, b>>))
    IN  /\ 0 < n("all", "MIN_FAN") /\ n("all", "MIN_FAN") <= n("all", "MAX_FAN")
        /\ n("all", "MAX_FAN") <= 100 /\ n("all", "INTERVAL") > 0
        /\ n("all", "FAN_GAIN") > 0 /\ n("all", "ADAPT_ALPHA") \in 1 .. 999
        /\ \A class \in Class :
             /\ 0 < n(class, "TARGET") /\ 0 <= n(class, "DEADBAND")
             /\ n(class, "TARGET") < n(class, "EMERGENCY")
             /\ DefaultEnvelopes[class].high < n(class, "EMERGENCY")

\* A class without a ramp start begins its ramp at its target.
Load ==
  [k \in Knob |->
     IF k[2] = "COMFORT" /\ Bound(Source(k)) = 0
     THEN Bound(Source(<<k[1], "TARGET">>)) ELSE Bound(Source(k))]

-----------------------------------------------------------------------------
(* ApplyMode *)

\* mode.Parse: an unknown mode is reported, and counts as the default one.
ModeSet  == setting # "unset"
Resolved == IF setting \in Mode THEN setting ELSE "balanced"

\* The operator's target wins, and his deadband gives way to the mode's.
ApplyMode_TargetOnly(c) ==
  [k \in Knob |->
     CASE ModeSet /\ k[2] = "TARGET" /\ env[k] = Absent ->
            InitialTarget(DefaultEnvelopes[k[1]], Resolved).target
       [] ModeSet /\ k[2] = "DEADBAND" -> InitialTarget(DefaultEnvelopes[k[1]], Resolved).deadband
       [] OTHER -> c[k]]

\* The mode's pair replaces the profile's, knob by knob, unless the variable is
\* in the environment, if only empty.
ApplyMode(c) ==
  [k \in Knob |->
     CASE ModeSet /\ k[2] = "TARGET" /\ env[k] = Absent ->
            InitialTarget(DefaultEnvelopes[k[1]], Resolved).target
       [] ModeSet /\ k[2] = "DEADBAND" /\ env[k] = Absent ->
            InitialTarget(DefaultEnvelopes[k[1]], Resolved).deadband
       [] OTHER -> c[k]]

-----------------------------------------------------------------------------
(* Validate *)

FansValid(c) ==
  /\ 0 < c[<<"all", "MIN_FAN">>]
  /\ c[<<"all", "MIN_FAN">>] <= c[<<"all", "MAX_FAN">>]
  /\ c[<<"all", "MAX_FAN">>] <= 100

GainsValid(c) ==
  /\ c[<<"all", "FAN_GAIN">>] > 0
  /\ c[<<"all", "ADAPT_ALPHA">>] \in 1 .. 999

ClassValid(c, class) ==
  /\ 0 < c[<<class, "TARGET">>]
  /\ 0 <= c[<<class, "DEADBAND">>]
  /\ c[<<class, "TARGET">>] < c[<<class, "EMERGENCY">>]

\* Without the check of the interval.
Validate_AnyInterval(c) ==
  FansValid(c) /\ GainsValid(c) /\ \A class \in Class : ClassValid(c, class)

\* The deadband's top is to stay below the emergency temperature as well.
Validate_Deadband(c) ==
  /\ FansValid(c) /\ GainsValid(c) /\ c[<<"all", "INTERVAL">>] > 0
  /\ \A class \in Class :
       /\ ClassValid(c, class)
       /\ c[<<class, "TARGET">>] + c[<<class, "DEADBAND">>] < c[<<class, "EMERGENCY">>]

Validate(c) ==
  /\ FansValid(c) /\ GainsValid(c) /\ c[<<"all", "INTERVAL">>] > 0
  /\ \A class \in Class : ClassValid(c, class)

-----------------------------------------------------------------------------
(* What main does with an accepted configuration *)

\* A variable without a value is no override.
Overrides_NonBlank == {c \in Class : env[<<c, "TARGET">>].text \notin {"absent", "blank"}}

\* The classes the reconciler leaves alone.
Overrides == {c \in Class : env[<<c, "TARGET">>] # Absent}

ComfortCap(c, class) == c[<<class, "EMERGENCY">>] - MinCurveSpanC[class]

WithComfort(c, comfort) == [k \in Knob |-> IF k[2] = "COMFORT" THEN comfort[k[1]] ELSE c[k]]

\* loadBaseline: a learned ramp start below the floor is passed over, one above
\* the cap of today's emergency temperature is clamped to it.
Restored(c) ==
  WithComfort(c, [class \in Class |->
    IF class \in DOMAIN file /\ file[class] >= LearnComfortFloor
    THEN Smaller(file[class], ComfortCap(c, class)) ELSE c[<<class, "COMFORT">>]])

\* Only what was learned is held to the span.
EnforceCurveSpan_Learned(c) == c

\* Whatever its source, every ramp keeps its class's minimum span.
EnforceCurveSpan(c) ==
  WithComfort(c, [class \in Class |-> Smaller(c[<<class, "COMFORT">>], ComfortCap(c, class))])

-----------------------------------------------------------------------------
Init ==
  /\ env = [k \in Knob |-> Absent]
  /\ setting = "unset"
  /\ chassis \in Chassis
  /\ file = NoFile
  /\ phase = "down" /\ cfg = Zero /\ pins = {}

Given == {k \in Knob : env[k] # Absent}

\* The operator edits the environment: the container is recreated.  (One whose
\* agent was refused is restarted until then, as it is.)
Edit(k, r) ==
  /\ phase # "running" /\ r # env[k]
  /\ r = Absent \/ Cardinality(Given \cup {k}) <= MaxSet
  /\ env' = [env EXCEPT ![k] = r]
  /\ phase' = "down"
  /\ UNCHANGED <<setting, chassis, file, cfg, pins>>

SetMode(s) ==
  /\ phase # "running" /\ s # setting
  /\ setting' = s
  /\ phase' = "down"
  /\ UNCHANGED <<env, chassis, file, cfg, pins>>

\* main, up to the control loop.
Start ==
  /\ phase # "running"
  /\ LET c == ApplyMode(Load)
     IN  IF Validate(c)
         THEN /\ phase' = "running"
              /\ cfg' = EnforceCurveSpan(Restored(c))
              /\ pins' = Overrides
         ELSE /\ phase' = "refused"          \* main exits before it meets the BMC
              /\ cfg' = Zero /\ pins' = {}
  /\ UNCHANGED <<env, setting, chassis, file>>

\* The box scan's fit, or the learner over many ticks, places the ramps within
\* its bounds; a class whose bounds leave nothing is passed over.
Learn(rest) ==
  /\ phase = "running"
  /\ cfg' = WithComfort(cfg, [class \in Class |->
       LET cap == ComfortCap(cfg, class)
       IN  IF cap < LearnComfortFloor THEN cfg[<<class, "COMFORT">>]
           ELSE Clamp(rest, LearnComfortFloor, cap)])
  /\ UNCHANGED <<env, setting, chassis, file, phase, pins>>

\* saveBaseline: the ramp starts, and nothing of the settings they are for.
Save ==
  /\ phase = "running"
  /\ file' = [class \in Class |-> cfg[<<class, "COMFORT">>]]
  /\ UNCHANGED <<env, setting, chassis, phase, cfg, pins>>

\* Shutdown or crash.
Stop ==
  /\ phase = "running"
  /\ phase' = "down" /\ cfg' = Zero /\ pins' = {}
  /\ UNCHANGED <<env, setting, chassis, file>>

Next ==
  \/ \E k \in Knob : \E r \in Offers[k] \cup {Absent} : Edit(k, r)
  \/ \E s \in Mode \cup {"unset", "unknown"} : SetMode(s)
  \/ Start
  \/ \E rest \in Rests : Learn(rest)
  \/ Save \/ Stop

Spec == Init /\ [][Next]_vars

-----------------------------------------------------------------------------
(* Properties *)

TypeOK ==
  /\ env \in [Knob -> Raw]
  /\ setting \in Mode \cup {"unset", "unknown"}
  /\ chassis \in Chassis
  /\ file = NoFile \/ file \in [Class -> Int]
  /\ phase \in {"down", "refused", "running"}
  /\ cfg \in [Knob -> Int]
  /\ pins \subseteq Class
  /\ phase = "running" => cfg[<<"all", "INTERVAL">>] \in Nat \ {0}

(***************************************************************************)
(* What the control loop relies on, whatever the environment says, empty   *)
(* and malformed values included, and whatever file an earlier life left   *)
(* under other settings: a fan range, a target under its emergency         *)
(* temperature, and for every class a ramp that ends there and is no       *)
(* narrower than its minimum span.                                         *)
(***************************************************************************)
RunsOnSafeSettings ==
  phase = "running" =>
    /\ FansValid(cfg)
    /\ \A class \in Class :
         /\ ClassValid(cfg, class)
         /\ cfg[<<class, "COMFORT">>] + MinCurveSpanC[class] <= cfg[<<class, "EMERGENCY">>]

(***************************************************************************)
(* A number the operator puts into the environment is the number in use,   *)
(* over profile, mode and learned file ("per-class env-var overrides still *)
(* win", CHANGELOG.md:853).  Ramp starts are the exception: learned ones,  *)
(* and the cap, come after the environment.                                *)
(***************************************************************************)
OperatorsNumbersHold ==
  phase = "running" =>
    \A k \in Knob : k[2] # "COMFORT" /\ env[k].text = "number" => cfg[k] = env[k].n

(***************************************************************************)
(* main and ApplyMode look at the environment separately, and must come to *)
(* the same: with a mode set, the classes left to the reconciler are       *)
(* exactly those whose target is the mode's, which is where it starts to   *)
(* drift from (the start of Adaptive).                                     *)
(***************************************************************************)
PinsFollowTheMode ==
  (phase = "running" /\ ModeSet) =>
    \A class \in Class \ pins :
      cfg[<<class, "TARGET">>] = InitialTarget(DefaultEnvelopes[class], Resolved).target

(***************************************************************************)
(* On every shipped profile the agent starts in every mode, and with a     *)
(* mode it does not know: only the operator's own numbers are refused (an  *)
(* interim release refused eco on the default profile, CHANGELOG.md:525).  *)
(***************************************************************************)
OnlyOverridesAreRefused == phase = "refused" => \E k \in Knob : env[k] # Absent
=============================================================================
