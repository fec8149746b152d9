---------------------------- MODULE ConfigProofs ----------------------------
(***************************************************************************)
(* What holds of Config for every chassis, every profile, every value the  *)
(* operator may give a knob and every ramp start learning may come to.     *)
(***************************************************************************)
EXTENDS Config, TLAPS

\* While the agent runs, everything but its ramp starts is what the start-up
\* made of the environment, which cannot change before it stops.
InForce ==
  phase = "running" =>
    /\ pins = Overrides
    /\ \A k \in Knob : k[2] # "COMFORT" => cfg[k] = ApplyMode(Load)[k]
    /\ Validate(cfg)

Spans ==
  phase = "running" =>
    \A class \in Class : cfg[<<class, "COMFORT">>] <= ComfortCap(cfg, class)

Types ==
  /\ env \in [Knob -> Raw]
  /\ setting \in Mode \cup {"unset", "unknown"}
  /\ chassis \in Chassis
  /\ file = NoFile \/ file \in [Class -> Int]
  /\ phase \in {"down", "refused", "running"}
  /\ cfg \in [Knob -> Int]
  /\ pins \subseteq Class

\* A refused start-up would be refused again: the operator has not been there.
Refusal == phase = "refused" => ~Validate(ApplyMode(Load))

IInv == Types /\ InForce /\ Spans /\ Refusal

-----------------------------------------------------------------------------
\* The knobs of a class, and what tells a ramp start from the others.
LEMMA Knobs ==
  /\ \A class \in Class, field \in {"TARGET", "DEADBAND", "EMERGENCY", "COMFORT"} :
       /\ <<class, field>> \in Knob
       /\ <<class, field>>[1] = class /\ <<class, field>>[2] = field
  /\ \A field \in {"MIN_FAN", "MAX_FAN", "INTERVAL", "FAN_GAIN", "ADAPT_ALPHA"} :
       <<"all", field>> \in Knob /\ <<"all", field>>[2] = field
  /\ \A k \in Knob : k[2] \in {"TARGET", "DEADBAND", "EMERGENCY", "COMFORT"} => k[1] \in Class
BY DEF Knob, Class

LEMMA SpansAreNat == \A class \in Class : MinCurveSpanC[class] \in Nat
BY DEF Class, MinCurveSpanC

\* WithComfort replaces the ramp starts, all of them and nothing else.
LEMMA OnlyComfort ==
  ASSUME NEW c \in [Knob -> Int], NEW f \in [Class -> Int]
  PROVE  /\ WithComfort(c, f) \in [Knob -> Int]
         /\ \A class \in Class : WithComfort(c, f)[<<class, "COMFORT">>] = f[class]
         /\ \A k \in Knob : k[2] # "COMFORT" => WithComfort(c, f)[k] = c[k]
<1>1. ASSUME NEW k \in Knob
      PROVE  (IF k[2] = "COMFORT" THEN f[k[1]] ELSE c[k]) \in Int
  BY Knobs
<1> QED BY <1>1, Knobs DEF WithComfort

\* Validate does not look at the ramp starts.
LEMMA ValidateIgnoresComfort ==
  ASSUME NEW c \in [Knob -> Int], NEW d \in [Knob -> Int],
         \A k \in Knob : k[2] # "COMFORT" => d[k] = c[k]
  PROVE  /\ Validate(c) <=> Validate(d)
         /\ \A class \in Class : ComfortCap(d, class) = ComfortCap(c, class)
<1>1. ASSUME NEW class \in Class, NEW field \in {"TARGET", "DEADBAND", "EMERGENCY"}
      PROVE  d[<<class, field>>] = c[<<class, field>>]
  <2> DEFINE k == <<class, field>>
  <2>1. k \in Knob /\ k[2] = field
    BY Knobs
  <2> HIDE DEF k
  <2>2. d[k] = c[k]
    BY <2>1
  <2> QED BY <2>2 DEF k
<1>2. \A field \in {"MIN_FAN", "MAX_FAN", "INTERVAL", "FAN_GAIN", "ADAPT_ALPHA"} :
        d[<<"all", field>>] = c[<<"all", field>>]
  BY Knobs
<1>3. \A class \in Class : ClassValid(c, class) <=> ClassValid(d, class)
  BY <1>1 DEF ClassValid
<1>4. (FansValid(c) <=> FansValid(d)) /\ (GainsValid(c) <=> GainsValid(d))
  BY <1>2 DEF FansValid, GainsValid
<1> QED BY <1>1, <1>2, <1>3, <1>4 DEF Validate, ComfortCap

\* A class's ramp start and its cap are numbers.
LEMMA CapIsInt ==
  ASSUME NEW c \in [Knob -> Int], NEW class \in Class
  PROVE  ComfortCap(c, class) \in Int /\ c[<<class, "COMFORT">>] \in Int
<1>1. <<class, "EMERGENCY">> \in Knob /\ <<class, "COMFORT">> \in Knob
  BY Knobs
<1>2. c[<<class, "EMERGENCY">>] \in Int /\ c[<<class, "COMFORT">>] \in Int
  BY <1>1
<1> QED BY <1>2, SpansAreNat DEF ComfortCap

-----------------------------------------------------------------------------
\* What the steps of the start-up return.
LEMMA LoadIsInt ==
  ASSUME Types
  PROVE  Load \in [Knob -> Int]
<1>1. ASSUME NEW k \in Knob
      PROVE  Bound(Source(k)) \in Int
  <2>1. env[k] \in Raw /\ Profile[chassis][k] \in Raw /\ Default[k] \in Raw
    BY ConfigAssumption DEF Types
  <2>2. Source(k) \in Raw
    BY <2>1 DEF Source, Shipped, Raw
  <2> QED BY <2>2 DEF Bound, Raw
<1>2. ASSUME NEW k \in Knob
      PROVE  (IF k[2] = "COMFORT" /\ Bound(Source(k)) = 0
              THEN Bound(Source(<<k[1], "TARGET">>)) ELSE Bound(Source(k))) \in Int
  BY <1>1, Knobs
<1> QED BY <1>2 DEF Load

LEMMA ModeIsKnown == Resolved \in Mode
BY DEF Resolved, Mode

LEMMA InitialTargetIsInt ==
  ASSUME NEW class \in Class, NEW m \in Mode
  PROVE  /\ InitialTarget(DefaultEnvelopes[class], m).target \in Int
         /\ InitialTarget(DefaultEnvelopes[class], m).deadband \in Int
<1>1. /\ DefaultEnvelopes[class].low \in Int /\ DefaultEnvelopes[class].mid \in Int
      /\ DefaultEnvelopes[class].high \in Int
  BY DEF Class, DefaultEnvelopes
<1>2. m \in {"max-cool", "balanced", "min-noise", "eco"}
  BY DEF Mode
<1> QED BY <1>1, <1>2 DEF InitialTarget

LEMMA ApplyModeIsInt ==
  ASSUME NEW c \in [Knob -> Int]
  PROVE  ApplyMode(c) \in [Knob -> Int]
<1>1. ASSUME NEW k \in Knob
      PROVE  ApplyMode(c)[k] \in Int
  BY Knobs, ModeIsKnown, InitialTargetIsInt DEF ApplyMode
<1> QED BY <1>1 DEF ApplyMode

LEMMA RestoredIsInt ==
  ASSUME Types, NEW c \in [Knob -> Int]
  PROVE  /\ Restored(c) \in [Knob -> Int]
         /\ \A k \in Knob : k[2] # "COMFORT" => Restored(c)[k] = c[k]
<1> DEFINE f == [class \in Class |->
      IF class \in DOMAIN file /\ file[class] >= LearnComfortFloor
      THEN Smaller(file[class], ComfortCap(c, class)) ELSE c[<<class, "COMFORT">>]]
<1>1. ASSUME NEW class \in Class
      PROVE  f[class] \in Int
  <2>1. class \in DOMAIN file => file[class] \in Int
    BY DEF Types, NoFile
  <2> QED BY <2>1, CapIsInt, Knobs DEF Smaller
<1>2. f \in [Class -> Int]
  BY <1>1
<1> HIDE DEF f
<1>3. Restored(c) = WithComfort(c, f)
  BY DEF Restored, f
<1> QED BY <1>2, <1>3, OnlyComfort

\* After the enforcement no ramp start is above its cap.
LEMMA Enforced ==
  ASSUME NEW c \in [Knob -> Int]
  PROVE  /\ EnforceCurveSpan(c) \in [Knob -> Int]
         /\ \A k \in Knob : k[2] # "COMFORT" => EnforceCurveSpan(c)[k] = c[k]
         /\ \A class \in Class : EnforceCurveSpan(c)[<<class, "COMFORT">>] <= ComfortCap(c, class)
<1> DEFINE f == [class \in Class |-> Smaller(c[<<class, "COMFORT">>], ComfortCap(c, class))]
<1>1. ASSUME NEW class \in Class
      PROVE  f[class] \in Int /\ f[class] <= ComfortCap(c, class)
  BY CapIsInt DEF Smaller
<1>2. f \in [Class -> Int]
  BY <1>1
<1> HIDE DEF f
<1>3. EnforceCurveSpan(c) = WithComfort(c, f)
  BY DEF EnforceCurveSpan, f
<1> QED BY <1>1, <1>2, <1>3, OnlyComfort

-----------------------------------------------------------------------------
\* One lemma per action.

LEMMA Starts ==
  ASSUME Init
  PROVE  IInv
<1>1. Absent \in Raw
  BY DEF Absent, Raw
<1>2. Types
  BY <1>1 DEF Init, Types, Zero
<1>3. phase = "down"
  BY DEF Init
<1> QED BY <1>2, <1>3 DEF IInv, InForce, Spans, Refusal

LEMMA EditKeeps ==
  ASSUME IInv, NEW k \in Knob, NEW r \in Offers[k] \cup {Absent}, Edit(k, r)
  PROVE  IInv'
<1>1. r \in Raw
  BY ConfigAssumption DEF Absent, Raw
<1>2. env' \in [Knob -> Raw]
  BY <1>1 DEF IInv, Types, Edit
<1>3. phase' = "down" /\ UNCHANGED <<setting, chassis, file, cfg, pins>>
  BY DEF Edit
<1> QED BY <1>2, <1>3 DEF IInv, Types, InForce, Spans, Refusal

LEMMA SetModeKeeps ==
  ASSUME IInv, NEW s \in Mode \cup {"unset", "unknown"}, SetMode(s)
  PROVE  IInv'
<1>1. setting' \in Mode \cup {"unset", "unknown"} /\ phase' = "down"
      /\ UNCHANGED <<env, chassis, file, cfg, pins>>
  BY DEF SetMode
<1> QED BY <1>1 DEF IInv, Types, InForce, Spans, Refusal

LEMMA StopKeeps ==
  ASSUME IInv, Stop
  PROVE  IInv'
<1>1. phase' = "down" /\ cfg' = Zero /\ pins' = {} /\ UNCHANGED <<env, setting, chassis, file>>
  BY DEF Stop
<1>2. Zero \in [Knob -> Int]
  BY DEF Zero
<1> QED BY <1>1, <1>2 DEF IInv, Types, InForce, Spans, Refusal

LEMMA StartKeeps ==
  ASSUME IInv, Start
  PROVE  IInv'
<1> DEFINE c == ApplyMode(Load)
<1>1. c \in [Knob -> Int]
  BY LoadIsInt, ApplyModeIsInt DEF IInv
<1>2. UNCHANGED <<env, setting, chassis, file>>
  BY DEF Start
<1>3. UNCHANGED <<ApplyMode(Load), Overrides>>
  BY <1>2 DEF ApplyMode, Load, Source, Shipped, Overrides, ModeSet, Resolved
<1> HIDE DEF c
<1>4. CASE Validate(c)
  <2>1. phase' = "running" /\ cfg' = EnforceCurveSpan(Restored(c)) /\ pins' = Overrides
    BY <1>4 DEF Start, c
  <2>2. /\ Restored(c) \in [Knob -> Int]
        /\ \A k \in Knob : k[2] # "COMFORT" => Restored(c)[k] = c[k]
    BY <1>1, RestoredIsInt DEF IInv
  <2>3. /\ cfg' \in [Knob -> Int]
        /\ \A k \in Knob : k[2] # "COMFORT" => cfg'[k] = Restored(c)[k]
        /\ \A class \in Class : cfg'[<<class, "COMFORT">>] <= ComfortCap(Restored(c), class)
    BY <2>1, <2>2, Enforced
  <2>4. \A k \in Knob : k[2] # "COMFORT" => cfg'[k] = c[k]
    BY <2>2, <2>3
  <2>5. \A class \in Class : ComfortCap(cfg', class) = ComfortCap(Restored(c), class)
    BY <2>2, <2>3, ValidateIgnoresComfort
  <2>6. Validate(cfg')
    BY <1>1, <1>4, <2>3, <2>4, ValidateIgnoresComfort
  <2>7. Types'
    BY <1>2, <2>1, <2>3 DEF IInv, Types, Overrides
  <2>8. InForce'
    BY <1>3, <2>1, <2>4, <2>6 DEF InForce, c
  <2>9. Spans'
    BY <2>3, <2>5 DEF Spans
  <2> QED BY <2>1, <2>7, <2>8, <2>9 DEF IInv, Refusal
<1>5. CASE ~Validate(c)
  <2>1. phase' = "refused" /\ cfg' = Zero /\ pins' = {}
    BY <1>5 DEF Start, c
  <2>2. Zero \in [Knob -> Int]
    BY DEF Zero
  <2>3. Refusal'
    BY <1>3, <1>5 DEF Refusal, c
  <2> QED BY <1>2, <2>1, <2>2, <2>3 DEF IInv, Types, InForce, Spans
<1> QED BY <1>4, <1>5

LEMMA LearnKeeps ==
  ASSUME IInv, NEW rest \in Rests, Learn(rest)
  PROVE  IInv'
<1> DEFINE f == [class \in Class |->
      LET cap == ComfortCap(cfg, class)
      IN  IF cap < LearnComfortFloor THEN cfg[<<class, "COMFORT">>]
          ELSE Clamp(rest, LearnComfortFloor, cap)]
<1>1. phase = "running" /\ cfg' = WithComfort(cfg, f)
      /\ UNCHANGED <<env, setting, chassis, file, phase, pins>>
  BY DEF Learn
<1>2. cfg \in [Knob -> Int] /\ rest \in Int
  BY ConfigAssumption DEF IInv, Types
<1>3. ASSUME NEW class \in Class
      PROVE  f[class] \in Int /\ f[class] <= ComfortCap(cfg, class)
  <2>1. cfg[<<class, "COMFORT">>] \in Int /\ cfg[<<class, "COMFORT">>] <= ComfortCap(cfg, class)
    BY <1>1, <1>2, Knobs DEF IInv, Spans
  <2> QED BY <1>2, <2>1, CapIsInt DEF Clamp, Smaller, Larger, LearnComfortFloor
<1>4. f \in [Class -> Int]
  BY <1>3
<1> HIDE DEF f
<1>5. /\ cfg' \in [Knob -> Int]
      /\ \A class \in Class : cfg'[<<class, "COMFORT">>] = f[class]
      /\ \A k \in Knob : k[2] # "COMFORT" => cfg'[k] = cfg[k]
  BY <1>1, <1>2, <1>4, OnlyComfort
<1>6. Validate(cfg') /\ \A class \in Class : ComfortCap(cfg', class) = ComfortCap(cfg, class)
  BY <1>1, <1>2, <1>5, ValidateIgnoresComfort DEF IInv, InForce
<1>7. UNCHANGED <<ApplyMode(Load), Overrides>>
  BY <1>1 DEF ApplyMode, Load, Source, Shipped, Overrides, ModeSet, Resolved
<1>8. Types'
  BY <1>1, <1>5 DEF IInv, Types
<1>9. InForce'
  BY <1>1, <1>5, <1>6, <1>7 DEF IInv, InForce
<1>10. Spans'
  BY <1>3, <1>5, <1>6 DEF Spans
<1> QED BY <1>1, <1>8, <1>9, <1>10 DEF IInv, Refusal

LEMMA SaveKeeps ==
  ASSUME IInv, Save
  PROVE  IInv'
<1>1. UNCHANGED <<env, setting, chassis, phase, cfg, pins>>
  BY DEF Save
<1>2. file' \in [Class -> Int]
  BY Knobs DEF IInv, Types, Save
<1>3. UNCHANGED <<ApplyMode(Load), Overrides>>
  BY <1>1 DEF ApplyMode, Load, Source, Shipped, Overrides, ModeSet, Resolved
<1>4. Types'
  BY <1>1, <1>2 DEF IInv, Types
<1>5. InForce' /\ Spans'
  BY <1>1, <1>3 DEF IInv, InForce, Spans
<1>6. Refusal'
  BY <1>1 DEF Save, Refusal
<1> QED BY <1>4, <1>5, <1>6 DEF IInv

LEMMA Stays ==
  ASSUME IInv, [Next]_vars
  PROVE  IInv'
<1>1. CASE Next
  BY <1>1, EditKeeps, SetModeKeeps, StartKeeps, LearnKeeps, SaveKeeps, StopKeeps DEF Next
<1>2. CASE UNCHANGED vars
  <2>1. UNCHANGED <<env, setting, chassis, file, phase, cfg, pins>>
    BY <1>2 DEF vars
  <2>2. UNCHANGED <<ApplyMode(Load), Overrides>>
    BY <2>1 DEF ApplyMode, Load, Source, Shipped, Overrides, ModeSet, Resolved
  <2>3. Types'
    BY <2>1 DEF IInv, Types
  <2>4. InForce' /\ Spans'
    BY <2>1, <2>2 DEF IInv, InForce, Spans
  <2>5. Refusal'
    BY <2>1, <2>2 DEF IInv, Refusal
  <2> QED BY <2>3, <2>4, <2>5 DEF IInv
<1> QED BY <1>1, <1>2

-----------------------------------------------------------------------------
\* Every reachable state satisfies the inductive invariant.
THEOREM Invariance == Spec => []IInv
BY Starts, Stays, PTL DEF Spec

\* Every variable keeps its type, and a running agent has a tick to wait for.
THEOREM TypeCorrect == Spec => []TypeOK
<1>1. IInv => TypeOK
  BY Knobs DEF IInv, Types, InForce, Validate, TypeOK
<1> QED BY <1>1, Invariance, PTL

\* Whatever profiles, environment and file say, the loop runs on a fan range
\* and on ramps that end at the emergency temperature and are wide enough.
THEOREM SafeSettings == Spec => []RunsOnSafeSettings
<1>1. IInv => RunsOnSafeSettings
  <2> SUFFICES ASSUME IInv, phase = "running", NEW class \in Class
               PROVE  /\ FansValid(cfg) /\ ClassValid(cfg, class)
                      /\ cfg[<<class, "COMFORT">>] + MinCurveSpanC[class]
                           <= cfg[<<class, "EMERGENCY">>]
    BY DEF RunsOnSafeSettings, Class
  <2>1. Validate(cfg) /\ cfg[<<class, "COMFORT">>] <= ComfortCap(cfg, class)
    BY DEF IInv, InForce, Spans
  <2>2. cfg[<<class, "COMFORT">>] \in Int /\ cfg[<<class, "EMERGENCY">>] \in Int
        /\ MinCurveSpanC[class] \in Nat
    BY Knobs, SpansAreNat DEF IInv, Types
  <2>3. cfg[<<class, "COMFORT">>] + MinCurveSpanC[class] <= cfg[<<class, "EMERGENCY">>]
    BY <2>1, <2>2 DEF ComfortCap
  <2> QED BY <2>1, <2>3 DEF Validate
<1> QED BY <1>1, Invariance, PTL

\* The operator's number is the one in force: ApplyMode leaves what the
\* environment has, and Load prefers it.
THEOREM OperatorsNumbers == Spec => []OperatorsNumbersHold
<1>1. IInv => OperatorsNumbersHold
  <2> SUFFICES ASSUME IInv, phase = "running", NEW k \in Knob, k[2] # "COMFORT",
                      env[k].text = "number"
               PROVE  cfg[k] = env[k].n
    BY DEF OperatorsNumbersHold
  <2>1. env[k] # Absent
    BY DEF Absent
  <2>2. ApplyMode(Load)[k] = Load[k]
    BY <2>1 DEF ApplyMode
  <2>3. Source(k) = env[k]
    BY DEF Source
  <2>4. Load[k] = env[k].n
    BY <2>3 DEF Load, Bound
  <2> QED BY <2>2, <2>4 DEF IInv, InForce
<1> QED BY <1>1, Invariance, PTL

\* The classes the reconciler may move stand at their mode's target.
THEOREM PinsFollow == Spec => []PinsFollowTheMode
<1>1. IInv => PinsFollowTheMode
  <2> SUFFICES ASSUME IInv, phase = "running", ModeSet, NEW class \in Class, class \notin pins
               PROVE  cfg[<<class, "TARGET">>]
                        = InitialTarget(DefaultEnvelopes[class], Resolved).target
    BY DEF PinsFollowTheMode
  <2> DEFINE k == <<class, "TARGET">>
  <2>1. k \in Knob /\ k[1] = class /\ k[2] = "TARGET"
    BY Knobs
  <2>2. env[k] = Absent
    BY DEF IInv, InForce, Overrides
  <2>3. ApplyMode(Load)[k] = InitialTarget(DefaultEnvelopes[class], Resolved).target
    BY <2>1, <2>2 DEF ApplyMode
  <2>4. cfg[k] = ApplyMode(Load)[k]
    BY <2>1 DEF IInv, InForce
  <2> QED BY <2>3, <2>4
<1> QED BY <1>1, Invariance, PTL

-----------------------------------------------------------------------------
\* Without the operator, the settings are the files' and the mode's.
LEMMA ShippedIsValid ==
  ASSUME Types, \A k \in Knob : env[k] = Absent
  PROVE  Validate(ApplyMode(Load))
<1> DEFINE c == ApplyMode(Load)
           n(a, b) == Bound(Shipped(chassis, <<a, b>>))
<1>1. \A k \in Knob : Source(k) = Shipped(chassis, k)
  BY DEF Source, Absent
<1>2. /\ \A field \in {"MIN_FAN", "MAX_FAN", "INTERVAL", "FAN_GAIN", "ADAPT_ALPHA"} :
           Load[<<"all", field>>] = n("all", field)
      /\ \A class \in Class, field \in {"TARGET", "DEADBAND", "EMERGENCY"} :
           Load[<<class, field>>] = n(class, field)
  <2>1. \A k \in Knob : k[2] # "COMFORT" => Load[k] = Bound(Shipped(chassis, k))
    BY <1>1 DEF Load
  <2>2. ASSUME NEW field \in {"MIN_FAN", "MAX_FAN", "INTERVAL", "FAN_GAIN", "ADAPT_ALPHA"}
        PROVE  Load[<<"all", field>>] = n("all", field)
    <3>1. <<"all", field>> \in Knob /\ <<"all", field>>[2] # "COMFORT"
      BY Knobs
    <3> QED BY <2>1, <3>1
  <2>3. ASSUME NEW class \in Class, NEW field \in {"TARGET", "DEADBAND", "EMERGENCY"}
        PROVE  Load[<<class, field>>] = n(class, field)
    <3>1. <<class, field>> \in Knob /\ <<class, field>>[2] # "COMFORT"
      BY Knobs
    <3> QED BY <2>1, <3>1
  <2> QED BY <2>2, <2>3
<1>3. \A field \in {"MIN_FAN", "MAX_FAN", "INTERVAL", "FAN_GAIN", "ADAPT_ALPHA"} :
        c[<<"all", field>>] = n("all", field)
  BY <1>2, Knobs DEF ApplyMode
<1>4. ASSUME NEW class \in Class
      PROVE  /\ c[<<class, "EMERGENCY">>] = n(class, "EMERGENCY")
             /\ c[<<class, "TARGET">>]
                  = IF ModeSet THEN InitialTarget(DefaultEnvelopes[class], Resolved).target
                    ELSE n(class, "TARGET")
             /\ c[<<class, "DEADBAND">>]
                  = IF ModeSet THEN InitialTarget(DefaultEnvelopes[class], Resolved).deadband
                    ELSE n(class, "DEADBAND")
  BY <1>2, Knobs DEF ApplyMode
<1>5. ASSUME NEW class \in Class
      PROVE  LET start == InitialTarget(DefaultEnvelopes[class], Resolved)
             IN  /\ start.target \in Nat \ {0} /\ start.deadband \in Nat
                 /\ start.target <= DefaultEnvelopes[class].high
                 /\ DefaultEnvelopes[class].high \in Nat
  <2>1. /\ DefaultEnvelopes[class].low \in Nat \ {0} /\ DefaultEnvelopes[class].mid \in Nat \ {0}
        /\ DefaultEnvelopes[class].high \in Nat \ {0}
        /\ DefaultEnvelopes[class].low <= DefaultEnvelopes[class].high
        /\ DefaultEnvelopes[class].mid <= DefaultEnvelopes[class].high
    BY DEF Class, DefaultEnvelopes
  <2>2. Resolved \in {"max-cool", "balanced", "min-noise", "eco"}
    BY ModeIsKnown DEF Mode
  <2> QED BY <2>1, <2>2 DEF InitialTarget
<1>6. chassis \in Chassis
  BY DEF Types
<1>7. \A k \in Knob : Bound(Shipped(chassis, k)) \in Int
  <2>1. \A k \in Knob : Profile[chassis][k] \in Raw /\ Default[k] \in Raw
    BY <1>6, ConfigAssumption
  <2> QED BY <2>1 DEF Shipped, Bound, Raw
<1>8. FansValid(c) /\ GainsValid(c) /\ c[<<"all", "INTERVAL">>] > 0
  BY <1>3, <1>6, ShippedAssumption DEF FansValid, GainsValid
<1>9. ASSUME NEW class \in Class
      PROVE  ClassValid(c, class)
  <2>1. n(class, "TARGET") \in Int /\ n(class, "EMERGENCY") \in Int
    BY <1>7, Knobs
  <2>2. /\ 0 < n(class, "TARGET") /\ 0 <= n(class, "DEADBAND")
        /\ n(class, "TARGET") < n(class, "EMERGENCY")
        /\ DefaultEnvelopes[class].high < n(class, "EMERGENCY")
    BY <1>6, ShippedAssumption
  <2> QED BY <1>4, <1>5, <2>1, <2>2 DEF ClassValid
<1> QED BY <1>8, <1>9 DEF Validate

\* A start-up on what the repository ships succeeds in every mode, and with a
\* mode it does not know (config.go Load, ApplyMode, Validate): a refusal needs
\* a variable of the operator's, whatever was learned, saved or edited before.
THEOREM OnlyOverrides == Spec => []OnlyOverridesAreRefused
<1>1. IInv => OnlyOverridesAreRefused
  BY ShippedIsValid DEF IInv, Refusal, OnlyOverridesAreRefused
<1> QED BY <1>1, Invariance, PTL
=============================================================================
