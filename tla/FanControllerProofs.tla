------------------------ MODULE FanControllerProofs ------------------------
(***************************************************************************)
(* Theorems of FanController for every value of its constants: the type    *)
(* invariant, that a cycle delivers its setpoint, that no decision         *)
(* undercuts a demand, and that the cycle implements module Chassis.       *)
(***************************************************************************)
EXTENDS FanController, ControlLawProofs

-----------------------------------------------------------------------------
\* The fan-set commands of one SetFan form a non-empty sequence of sets of fans.
LEMMA TargetsSeq ==
  /\ Len(Targets) \in Nat \ {0}
  /\ DOMAIN Targets = 1 .. Len(Targets)
  /\ \A i \in 1 .. Len(Targets) : Targets[i] \subseteq Fan
<1>1. CASE FanIndices = <<>>
  BY <1>1 DEF Targets
<1>2. CASE FanIndices # <<>>
  <2>1. FanIndices \in Seq(Fan) /\ Len(FanIndices) \in Nat \ {0}
    BY <1>2, ConfigAssumption
  <2>2. \A i \in 1 .. Len(FanIndices) : {FanIndices[i]} \subseteq Fan
    BY <2>1
  <2>3. Targets = [i \in 1 .. Len(FanIndices) |-> {FanIndices[i]}]
    BY <1>2 DEF Targets
  <2>4. Targets \in Seq(SUBSET Fan) /\ Len(Targets) = Len(FanIndices)
    BY <2>1, <2>2, <2>3
  <2> QED BY <2>1, <2>2, <2>3, <2>4
<1> QED BY <1>1, <1>2

\* What a curve is given besides the temperature.
LEMMA RampInt ==
  ASSUME NEW cf \in Ramps, NEW c \in Class
  PROVE  /\ Smaller(cf[c], MaxRampStart(MinCurveSpan[c], Emergency[c])) \in Int
         /\ Emergency[c] \in Int
         /\ MinFan \in Nat /\ MaxFan \in Nat /\ MinFan <= MaxFan
<1>1. cf[c] \in Int
  <2>1. cf[c] \in Comforts[c] /\ Comforts[c] \in SUBSET Int
    BY ConfigAssumption DEF Ramps
  <2> QED BY <2>1
<1>2. Emergency[c] \in Int /\ MinCurveSpan[c] \in Int
  <2>1. c \in Sensor
    BY DEF Class, Sensor
  <2> QED BY <2>1, ConfigAssumption
<1> QED BY <1>1, <1>2, ConfigAssumption DEF Smaller, MaxRampStart

\* What one class asks for lies between nothing and the top of the fan range.
LEMMA CurveDemandRange ==
  ASSUME NEW sm \in [Class -> Nat], NEW cf \in Ramps, NEW c \in Class
  PROVE  CurveDemand(c, sm, cf) \in 0 .. MaxFan
<1>1. sm[c] \in Int
  <2>1. sm[c] \in Nat
    OBVIOUS
  <2> QED BY <2>1
<1> QED BY <1>1, RampInt, CurveFRange DEF CurveDemand

\* So does what the active-GPU assist asks for.
LEMMA AssistDemandRange ==
  ASSUME NEW r \in Readings
  PROVE  Assist(r) \in 0 .. MaxFan
<1>1. /\ r \in Reading /\ OwnFanThreshold \in Int
      /\ MinFan \in Nat /\ MaxFan \in Nat /\ MinFan <= MaxFan
  BY ConfigAssumption
<1>2. r.agFan \in Int
  BY <1>1 DEF Reading
<1>3. ActiveGPUAssist(r.agFan, OwnFanThreshold, MinFan, MaxFan) \in 0 .. MaxFan
  BY <1>1, <1>2, AssistRange
<1> QED BY <1>1, <1>3 DEF Assist

\* The chassis demand is within the fan limits, and covers every class and the
\* assist.
LEMMA DemandSound ==
  ASSUME NEW sm \in [Class -> Nat], NEW cf \in Ramps, NEW r \in Readings
  PROVE  /\ Demand(sm, cf, r) \in MinFan .. MaxFan
         /\ \A c \in Class : CurveDemand(c, sm, cf) <= Demand(sm, cf, r)
         /\ Assist(r) <= Demand(sm, cf, r)
<1>1. \A c \in Class : CurveDemand(c, sm, cf) \in 0 .. MaxFan
  BY CurveDemandRange
<1>2. Assist(r) \in 0 .. MaxFan
  BY AssistDemandRange
<1>3. MinFan \in Int /\ MaxFan \in Int /\ MinFan <= MaxFan
  BY ConfigAssumption
<1> DEFINE cpu == CurveDemand("cpu", sm, cf)
           pg  == CurveDemand("pg", sm, cf)
           hdd == CurveDemand("hdd", sm, cf)
           ssd == CurveDemand("ssd", sm, cf)
           as  == Assist(r)
<1>4. /\ cpu \in Int /\ pg \in Int /\ hdd \in Int /\ ssd \in Int /\ as \in Int
      /\ cpu <= MaxFan /\ pg <= MaxFan /\ hdd <= MaxFan /\ ssd <= MaxFan /\ as <= MaxFan
  BY <1>1, <1>2, <1>3 DEF Class
<1>5. Demand(sm, cf, r) = MaxWins(cpu, pg, hdd, ssd, as, MinFan, MaxFan)
  BY DEF Demand
<1> HIDE DEF cpu, pg, hdd, ssd, as
<1>6. /\ Demand(sm, cf, r) \in MinFan .. MaxFan
      /\ \A x \in {cpu, pg, hdd, ssd, as} : x <= Demand(sm, cf, r)
  <2>1. /\ MaxWins(cpu, pg, hdd, ssd, as, MinFan, MaxFan) \in MinFan .. MaxFan
        /\ \A x \in {cpu, pg, hdd, ssd, as} :
             x <= MaxFan => x <= MaxWins(cpu, pg, hdd, ssd, as, MinFan, MaxFan)
    BY <1>3, <1>4, MaxWinsSound
  <2> QED BY <1>4, <1>5, <2>1
<1> QED BY <1>6 DEF cpu, pg, hdd, ssd, as, Class

\* The slewed setpoint is within the fan limits, covers the demand, and falls
\* by no more than the limit unless it lands on the top of the range.
LEMMA SlewedSpeedSound ==
  ASSUME NEW demand \in MinFan .. MaxFan, NEW dt \in Dts, currentSpeed \in Speeds
  PROVE  /\ SlewedSpeed(demand, dt) \in MinFan .. MaxFan
         /\ demand <= SlewedSpeed(demand, dt)
         /\ \/ currentSpeed - SlewedSpeed(demand, dt) <= MaxDrop(dt)
            \/ SlewedSpeed(demand, dt) = MaxFan
<1>1. /\ MinFan \in Int /\ MaxFan \in Int /\ MinFan <= MaxFan
      /\ currentSpeed \in Int /\ demand \in Int /\ dt \in Nat
  BY ConfigAssumption DEF Speeds, FullSpeed
<1> DEFINE s == SlewDown(currentSpeed, demand, dt)
<1>2. /\ s \in Int /\ demand <= s
      /\ currentSpeed - s <= MaxDrop(dt)
  BY <1>1, SlewDownSound
<1>3. SlewedSpeed(demand, dt) = Clamp(s, MinFan, MaxFan)
  BY DEF SlewedSpeed
<1>4. MaxDrop(dt) \in Int
  BY <1>1, RoundedRatioNat DEF MaxDrop, Larger
<1> HIDE DEF s
<1> QED BY <1>1, <1>2, <1>3, <1>4 DEF Clamp

\* Smoothing keeps every class's smoothed temperature a natural number.
LEMMA SmoothedRange ==
  ASSUME smooth \in [Class -> Nat], NEW r \in Readings
  PROVE  Smoothed(r) \subseteq [Class -> Nat]
<1>1. \A c \in Class : \A n \in SmoothTemp(smooth[c], r.temp[c]) : n \in Nat
  <2>1. \A c \in Class : r.temp[c] \in Nat
    BY ConfigAssumption DEF Reading, Sensor
  <2> QED BY <2>1, SmoothTempRange
<1> QED BY <1>1 DEF Smoothed, Class

-----------------------------------------------------------------------------
(***************************************************************************)
(* Type correctness.                                                       *)
(***************************************************************************)

\* The integers and sets the arithmetic below needs of the constants.
LEMMA Limits ==
  /\ MinFan \in Nat /\ MaxFan \in Nat /\ 0 < MinFan /\ MinFan <= MaxFan
  /\ MinFan .. MaxFan \subseteq Speeds
  /\ FullSpeed \in Speeds
  /\ \A s \in Speeds : s \in Nat /\ WirePct(s) = s
  BY ConfigAssumption DEF Speeds, FullSpeed, WirePct

\* A BMC command leaves each fan at Unset or at a permitted setpoint, when the
\* percent sent is one.
LEMMA SetSelectorType ==
  ASSUME TypeOK, NEW S, NEW o \in Outcome, SetSelector(S, currentSpeed, o)
  PROVE  /\ duty' \in [Fan -> {Unset} \cup Speeds]
         /\ bmcMode' \in {"auto", "manual"}
<1>1. WirePct(currentSpeed) \in Speeds
  BY Limits DEF TypeOK
<1>2. duty \in [Fan -> {Unset} \cup Speeds] /\ bmcMode \in {"auto", "manual"}
  BY DEF TypeOK
<1>3. [f \in Fan |-> IF f \in S THEN WirePct(currentSpeed) ELSE duty[f]]
        \in [Fan -> {Unset} \cup Speeds]
  BY <1>1, <1>2
<1> QED BY <1>2, <1>3 DEF SetSelector

\* What StartWrite leaves: a program point and a branch of the cycle.
LEMMA StartWriteType ==
  ASSUME TypeOK, NEW b \in {"readFailed", "trip", "curve"}, StartWrite(b)
  PROVE  /\ pc' \in {"idle", "read", "write", "finish"}
         /\ wr' \in 1 .. Len(Targets)
         /\ branch' \in {"none", "readFailed", "trip", "hold", "curve"}
  BY TargetsSeq DEF StartWrite, AfterWrite

LEMMA TypeInit == Init => TypeOK
<1> SUFFICES ASSUME Init PROVE TypeOK
  OBVIOUS
<1>1. currentSpeed \in Speeds
  BY Limits DEF Init
<1>2. bmcMode \in {"auto", "manual"} /\ duty \in [Fan -> {Unset} \cup Speeds]
  BY <1>1 DEF Init, NoSetpoint
<1>3. wr \in 1 .. Len(Targets)
  BY TargetsSeq DEF Init
<1>4. lastDemand \in [Class -> 0 .. MaxFan]
  BY Limits DEF Init
<1> QED BY <1>1, <1>2, <1>3, <1>4 DEF Init, TypeOK

LEMMA TypeStep == TypeOK /\ [Next]_vars => TypeOK'
<1> SUFFICES ASSUME TypeOK, [Next]_vars PROVE TypeOK'
  OBVIOUS
<1> USE DEF TypeOK
<1>1. CASE BeginCycle
  <2>1. bmcMode' \in {"auto", "manual"} /\ duty' = duty
    BY <1>1 DEF BeginCycle, EngageManual, bmcVars
  <2> QED BY <1>1, <2>1 DEF BeginCycle, memVars, lastVars
<1>2. CASE ReadFails
  <2>1. StartWrite("readFailed")
    BY <1>2 DEF ReadFails
  <2>2. /\ pc' \in {"idle", "read", "write", "finish"}
        /\ wr' \in 1 .. Len(Targets)
        /\ branch' \in {"none", "readFailed", "trip", "hold", "curve"}
    BY <2>1, StartWriteType
  <2>3. currentSpeed' \in Speeds
    BY <1>2, Limits DEF ReadFails
  <2> QED BY <1>2, <2>2, <2>3 DEF ReadFails, bmcVars, lastVars
<1>3. ASSUME NEW r \in Readings, TakeReading(r)
      PROVE  /\ reading' \in Readings /\ smooth' \in [Class -> Nat]
             /\ duty' \in [Fan -> {Unset} \cup Speeds] /\ bmcMode' \in {"auto", "manual"}
             /\ fanControl' \in BOOLEAN /\ held' \in BOOLEAN
             /\ lastTemp' \in [Class -> Nat \cup {-1}]
             /\ lastDemand' \in [Class -> 0 .. MaxFan]
             /\ comfort' \in Ramps /\ stateFile' \in {0} \cup Speeds
             /\ failed' \in SUBSET (1 .. Len(Targets))
  BY <1>3, SmoothedRange DEF TakeReading, bmcVars, lastVars
<1>4. ASSUME NEW r \in Readings, EmergencyTrip(r)
      PROVE  TypeOK'
  <2>1. TakeReading(r) /\ StartWrite("trip")
    BY <1>4 DEF EmergencyTrip
  <2>2. /\ pc' \in {"idle", "read", "write", "finish"}
        /\ wr' \in 1 .. Len(Targets)
        /\ branch' \in {"none", "readFailed", "trip", "hold", "curve"}
    BY <2>1, StartWriteType
  <2>3. currentSpeed' \in Speeds /\ inEmergency' \in BOOLEAN
    BY <1>4, Limits DEF EmergencyTrip
  <2> QED BY <1>3, <2>1, <2>2, <2>3
<1>5. ASSUME NEW r \in Readings, EmergencyHold(r)
      PROVE  TypeOK'
  <2>1. /\ TakeReading(r) /\ inEmergency' \in BOOLEAN
        /\ pc' = "idle" /\ branch' = "hold" /\ wr' = wr /\ currentSpeed' = currentSpeed
    BY <1>5 DEF EmergencyHold
  <2> QED BY <1>3, <2>1
<1>6. ASSUME NEW r \in Readings, NEW dt \in Dts, CurveControl(r, dt)
      PROVE  TypeOK'
  <2>1. TakeReading(r) /\ StartWrite("curve") /\ inEmergency' \in BOOLEAN
    BY <1>6 DEF CurveControl
  <2>2. /\ pc' \in {"idle", "read", "write", "finish"}
        /\ wr' \in 1 .. Len(Targets)
        /\ branch' \in {"none", "readFailed", "trip", "hold", "curve"}
    BY <2>1, StartWriteType
  <2>3. currentSpeed' \in Speeds
    <3>1. Demand(smooth', comfort, r) \in MinFan .. MaxFan
      BY <1>3, <2>1, DemandSound
    <3>2. SlewedSpeed(Demand(smooth', comfort, r), dt) \in MinFan .. MaxFan
      BY <3>1, SlewedSpeedSound
    <3> QED BY <1>6, <3>2, Limits DEF CurveControl
  <2> QED BY <1>3, <2>1, <2>2, <2>3
<1>7. ASSUME NEW o \in Outcome, WriteFan(o)
      PROVE  TypeOK'
  <2>1. /\ duty' \in [Fan -> {Unset} \cup Speeds]
        /\ bmcMode' \in {"auto", "manual"}
    BY <1>7, SetSelectorType DEF WriteFan
  <2>2. failed' \in SUBSET (1 .. Len(Targets))
    BY <1>7 DEF WriteFan
  <2>3. /\ pc' \in {"idle", "read", "write", "finish"}
        /\ wr' \in 1 .. Len(Targets)
    BY <1>7, TargetsSeq DEF WriteFan, AfterWrite
  <2> QED BY <1>7, <2>1, <2>2, <2>3 DEF WriteFan, memVars, lastVars
<1>8. ASSUME NEW saved \in BOOLEAN, FinishCycle(saved)
      PROVE  TypeOK'
  <2>1. lastTemp' \in [Class -> Nat \cup {-1}]
    <3>1. \A c \in Class : reading.temp[c] \in Nat
      BY ConfigAssumption DEF Reading, Sensor
    <3> QED BY <1>8, <3>1 DEF FinishCycle
  <2>2. lastDemand' \in [Class -> 0 .. MaxFan]
    BY <1>8, CurveDemandRange DEF FinishCycle
  <2>3. stateFile' \in {0} \cup Speeds
    BY <1>8 DEF FinishCycle
  <2> QED BY <1>8, <2>1, <2>2, <2>3 DEF FinishCycle, bmcVars, memVars
<1>9. ASSUME NEW c \in Class, NEW v \in Comforts[c], Retune(c, v)
      PROVE  TypeOK'
  <2>1. comfort' \in Ramps
    BY <1>9 DEF Retune, Ramps
  <2> QED BY <1>9, <2>1 DEF Retune, bmcVars, memVars, lastVars
<1>10. CASE BmcRevertsToAuto
  BY <1>10 DEF BmcRevertsToAuto, BmcReverts, NoSetpoint, memVars, lastVars
<1>11. CASE UNCHANGED vars
  BY <1>11 DEF vars
<1> QED
  BY <1>1, <1>2, <1>4, <1>5, <1>6, <1>7, <1>8, <1>9, <1>10, <1>11 DEF Next, CycleStep

\* Every reachable state is well typed: in particular the setpoint and every
\* percent a fan was told lie within the fan limits or are exactly full speed.
THEOREM TypeCorrect == Spec => []TypeOK
  BY TypeInit, TypeStep, PTL DEF Spec

-----------------------------------------------------------------------------
(***************************************************************************)
(* Delivery of the setpoint.                                               *)
(***************************************************************************)

\* A fan-set command obeyed in manual mode makes its own fans hold the setpoint
\* and takes it from no fan that already did.
LEMMA SelectorDelivers ==
  ASSUME TypeOK, bmcMode = "manual", NEW j \in DOMAIN Targets,
         SetSelector(Targets[j], currentSpeed, "ok"), currentSpeed' = currentSpeed
  PROVE  \A i \in DOMAIN Targets : (i = j \/ Holds(i)) => Holds(i)'
<1>1. WirePct(currentSpeed) = currentSpeed
  BY Limits DEF TypeOK
<1>2. duty' = [f \in Fan |-> IF f \in Targets[j] THEN currentSpeed ELSE duty[f]]
  BY <1>1 DEF SetSelector, Obeyed
<1>3. \A i \in DOMAIN Targets : Targets[i] \subseteq Fan
  BY TargetsSeq
<1> QED BY <1>2, <1>3 DEF Holds

LEMMA DeliveryInit == Init => Delivery
  BY DEF Init, Delivery, SetpointDelivered, WroteSetpoint

\* A step that starts the writes: none of the cycle's promises is due yet.
LEMMA StartWriteDelivery ==
  ASSUME Delivery, pc = "read", NEW b \in {"readFailed", "trip", "curve"}, StartWrite(b),
         UNCHANGED <<bmcMode, held, failed, fanControl>>
  PROVE  Delivery'
  BY DEF Delivery, SetpointDelivered, WroteSetpoint, StartWrite, AfterWrite

LEMMA DeliveryStep == TypeOK /\ Delivery /\ [Next]_vars => Delivery'
<1> SUFFICES ASSUME TypeOK, Delivery, [Next]_vars PROVE Delivery'
  OBVIOUS
<1>1. CASE BeginCycle
  BY <1>1 DEF BeginCycle, Delivery, SetpointDelivered, WroteSetpoint
<1>2. CASE ReadFails
  <2>1. /\ pc = "read" /\ StartWrite("readFailed")
        /\ UNCHANGED <<bmcMode, held, failed, fanControl>>
    BY <1>2 DEF ReadFails, bmcVars
  <2> QED BY <2>1, StartWriteDelivery
<1>3. ASSUME NEW r \in Readings, EmergencyTrip(r)
      PROVE  Delivery'
  <2>1. /\ pc = "read" /\ StartWrite("trip")
        /\ UNCHANGED <<bmcMode, held, failed, fanControl>>
    BY <1>3 DEF EmergencyTrip, TakeReading, bmcVars
  <2> QED BY <2>1, StartWriteDelivery
<1>4. ASSUME NEW r \in Readings, EmergencyHold(r)
      PROVE  Delivery'
  BY <1>4 DEF EmergencyHold, TakeReading, bmcVars, Delivery, SetpointDelivered, WroteSetpoint
<1>5. ASSUME NEW r \in Readings, NEW dt \in Dts, CurveControl(r, dt)
      PROVE  Delivery'
  <2>1. /\ pc = "read" /\ StartWrite("curve")
        /\ UNCHANGED <<bmcMode, held, failed, fanControl>>
    BY <1>5 DEF CurveControl, TakeReading, bmcVars
  <2> QED BY <2>1, StartWriteDelivery
<1>6. ASSUME NEW o \in Outcome, WriteFan(o)
      PROVE  Delivery'
  <2>1. /\ pc = "write" /\ failed = {}
        /\ held => \A i \in 1 .. wr - 1 : Holds(i)
        /\ held => bmcMode = "manual"
        /\ wr \in DOMAIN Targets
    BY <1>6, TargetsSeq DEF WriteFan, Delivery, TypeOK
  <2>2. /\ currentSpeed' = currentSpeed /\ held' = held /\ bmcMode' = bmcMode
        /\ branch' = branch /\ fanControl' = fanControl
    BY <1>6 DEF WriteFan, SetSelector, memVars
  <2>3. CASE o # "ok"
    <3>1. failed' # {} /\ pc' = AfterWrite(branch)
      BY <1>6, <2>1, <2>3 DEF WriteFan
    <3> QED
      BY <2>1, <2>2, <3>1 DEF AfterWrite, Delivery, SetpointDelivered, WroteSetpoint
  <2>4. CASE o = "ok"
    <3>1. failed' = {}
      BY <1>6, <2>1, <2>4 DEF WriteFan
    <3>2. held => \A i \in 1 .. wr : Holds(i)'
      <4>1. ASSUME held
            PROVE  \A i \in DOMAIN Targets : (i = wr \/ Holds(i)) => Holds(i)'
        <5>1. bmcMode = "manual" /\ SetSelector(Targets[wr], currentSpeed, "ok")
          BY <1>6, <2>1, <2>4, <4>1 DEF WriteFan
        <5> QED BY <2>1, <2>2, <5>1, SelectorDelivers
      <4> QED BY <2>1, <4>1, TargetsSeq DEF TypeOK
    <3>3. CASE wr < Len(Targets)
      <4>1. wr' = wr + 1 /\ pc' = "write"
        BY <1>6, <2>1, <2>4, <3>3 DEF WriteFan
      <4>2. 1 .. wr' - 1 = 1 .. wr
        BY <4>1 DEF TypeOK
      <4> QED
        BY <2>1, <2>2, <3>1, <3>2, <4>1, <4>2
        DEF Delivery, SetpointDelivered, WroteSetpoint
    <3>4. CASE wr = Len(Targets)
      <4>1. pc' = AfterWrite(branch) /\ 1 .. wr = DOMAIN Targets
        BY <1>6, <2>4, <3>4, TargetsSeq DEF WriteFan
      <4> QED
        BY <2>1, <2>2, <3>1, <3>2, <4>1
        DEF AfterWrite, Delivery, SetpointDelivered, WroteSetpoint
    <3> QED BY <3>3, <3>4, TargetsSeq DEF TypeOK
  <2> QED BY <2>3, <2>4
<1>7. ASSUME NEW saved \in BOOLEAN, FinishCycle(saved)
      PROVE  Delivery'
  <2>1. /\ pc = "finish" /\ pc' = "idle"
        /\ UNCHANGED <<bmcMode, duty, currentSpeed, branch, fanControl, held, failed>>
    BY <1>7 DEF FinishCycle, bmcVars, memVars
  <2> QED BY <2>1 DEF Delivery, SetpointDelivered, WroteSetpoint, Holds
<1>8. ASSUME NEW c \in Class, NEW v \in Comforts[c], Retune(c, v)
      PROVE  Delivery'
  BY <1>8 DEF Retune, bmcVars, memVars, Delivery, SetpointDelivered, WroteSetpoint, Holds
<1>9. CASE BmcRevertsToAuto
  BY <1>9 DEF BmcRevertsToAuto, memVars, Delivery, SetpointDelivered, WroteSetpoint
<1>10. CASE UNCHANGED vars
  BY <1>10 DEF vars, Delivery, SetpointDelivered, WroteSetpoint, Holds
<1> QED
  BY <1>1, <1>2, <1>3, <1>4, <1>5, <1>6, <1>7, <1>8, <1>9, <1>10 DEF Next, CycleStep

\* Whatever happened in earlier cycles, a cycle that writes its setpoint with
\* no failed command and no revert leaves it on every addressed fan.
THEOREM SetpointIsDelivered == Spec => []SetpointDelivered
<1>1. TypeOK /\ Delivery => SetpointDelivered
  BY DEF Delivery
<1>2. Init => Delivery
  BY DeliveryInit
<1>3. TypeOK /\ Delivery /\ [Next]_vars => Delivery'
  BY DeliveryStep
<1> QED BY <1>1, <1>2, <1>3, TypeCorrect, PTL DEF Spec

-----------------------------------------------------------------------------
(***************************************************************************)
(* The decision and the demand.                                            *)
(***************************************************************************)

\* No reading, ramp, smoothed history or gap between cycles makes a control
\* decision undercut what a class or the active-GPU assist asks for.
THEOREM DemandIsMet == Spec => NeverBelowDemand
<1> DEFINE A == (pc = "read" /\ pc' # "read" /\ branch' = "curve") =>
                  /\ \A c \in Class : CurveDemand(c, smooth', comfort) <= currentSpeed'
                  /\ Assist(reading') <= currentSpeed'
<1>1. ASSUME TypeOK, Next, pc = "read", pc' # "read", branch' = "curve"
      PROVE  /\ \A c \in Class : CurveDemand(c, smooth', comfort) <= currentSpeed'
             /\ Assist(reading') <= currentSpeed'
  <2>1. PICK r \in Readings, dt \in Dts : CurveControl(r, dt)
    BY <1>1 DEF Next, CycleStep, BeginCycle, ReadFails, EmergencyTrip, EmergencyHold,
                WriteFan, FinishCycle, Retune, BmcRevertsToAuto, StartWrite
  <2>2. /\ smooth' \in [Class -> Nat] /\ comfort \in Ramps /\ reading' = r
    BY <1>1, <2>1, SmoothedRange DEF CurveControl, TakeReading, TypeOK
  <2> DEFINE d == Demand(smooth', comfort, r)
  <2>3. /\ d \in MinFan .. MaxFan
        /\ \A c \in Class : CurveDemand(c, smooth', comfort) <= d
        /\ Assist(r) <= d
    BY <2>2, DemandSound
  <2>4. currentSpeed' = SlewedSpeed(d, dt)
    BY <2>1 DEF CurveControl
  <2> HIDE DEF d
  <2>5. currentSpeed' \in Int /\ d <= currentSpeed' /\ d \in Int
    BY <1>1, <2>3, <2>4, SlewedSpeedSound, Limits DEF TypeOK
  <2>6. \A c \in Class : CurveDemand(c, smooth', comfort) \in Int
    BY <2>2, CurveDemandRange
  <2>7. Assist(r) \in Int
    BY AssistDemandRange
  <2> QED BY <2>2, <2>3, <2>5, <2>6, <2>7
<1>2. TypeOK /\ [Next]_vars => [A]_vars
  BY <1>1
<1> QED BY <1>2, TypeCorrect, PTL DEF Spec, NeverBelowDemand

-----------------------------------------------------------------------------
(***************************************************************************)
(* The decision and the heat.                                              *)
(***************************************************************************)

\* Smoothing delays, it does not invent: a class that stays present is never
\* taken for cooler than both its last smoothed value and its reading.
LEMMA SmoothTempLag ==
  ASSUME NEW s \in Nat, NEW raw \in Nat, raw > 0, NEW n \in SmoothTemp(s, raw),
         NEW t \in Int, t <= Res * raw, s > 0 => t <= s
  PROVE  n \in Nat /\ t <= n
<1> DEFINE r == Res * raw
<1>1. r \in Nat
  BY ResAssumption, ProductNat
<1>2. /\ n \in Nat
      /\ s = 0 => n = r
      /\ s > 0 => n \in Smaller(s, r) .. Larger(s, r)
  BY SmoothTempRange
<1> HIDE DEF r
<1>3. t <= r
  BY DEF r
<1> QED BY <1>1, <1>2, <1>3 DEF Smaller, Larger

\* The curve of a class at temperature t, its ramp capped at the point of use.
AsksFor(c, t) ==
  CurveF(t, Smaller(comfort[c], MaxRampStart(MinCurveSpan[c], Emergency[c])),
         Emergency[c], MinFan, MaxFan)

\* A decision of the ordinary cycle gives every class that is present the fan
\* its curve asks for at each temperature that neither the reading nor, when
\* there is one, the smoothed history lies below.
HeatMet ==
  [][(pc = "read" /\ pc' # "read" /\ branch' = "curve") =>
       \A c \in Class :
         reading'.temp[c] > 0 =>
           \A t \in Int :
             t <= Res * reading'.temp[c] /\ (smooth[c] > 0 => t <= smooth[c])
               => AsksFor(c, t) <= currentSpeed']_vars

\* From sensor to setpoint: neither smoothing, nor another class, nor the slew
\* limit gives a class less than its curve asks for at the lower of what it reads
\* and what it was taken for (controller.go Cycle).
THEOREM HeatIsMet == Spec => HeatMet
<1> DEFINE Decides == pc = "read" /\ pc' # "read" /\ branch' = "curve"
           Met == \A c \in Class :
                    reading'.temp[c] > 0 =>
                      \A t \in Int :
                        t <= Res * reading'.temp[c] /\ (smooth[c] > 0 => t <= smooth[c])
                          => AsksFor(c, t) <= currentSpeed'
           Above == \A c \in Class : CurveDemand(c, smooth', comfort) <= currentSpeed'
<1>1. ASSUME TypeOK, Next, Decides, Above
      PROVE  Met
  <2>1. PICK r \in Readings, dt \in Dts : CurveControl(r, dt)
    BY <1>1 DEF Next, CycleStep, BeginCycle, ReadFails, EmergencyTrip, EmergencyHold,
                WriteFan, FinishCycle, Retune, BmcRevertsToAuto, StartWrite
  <2> SUFFICES ASSUME NEW c \in Class, reading'.temp[c] > 0,
                      NEW t \in Int, t <= Res * reading'.temp[c],
                      smooth[c] > 0 => t <= smooth[c]
               PROVE  AsksFor(c, t) <= currentSpeed'
    OBVIOUS
  <2>2. /\ reading' = r /\ smooth' \in Smoothed(r)
        /\ smooth \in [Class -> Nat] /\ comfort \in Ramps
    BY <1>1, <2>1 DEF CurveControl, TakeReading, TypeOK
  <2>3. smooth'[c] \in SmoothTemp(smooth[c], r.temp[c])
    BY <2>2 DEF Smoothed, Class
  <2>4. smooth[c] \in Nat /\ r.temp[c] \in Nat
    BY <2>2, ConfigAssumption DEF Reading, Class, Sensor
  <2>5. smooth'[c] \in Nat /\ t <= smooth'[c]
    BY <2>2, <2>3, <2>4, SmoothTempLag
  <2>6. /\ Smaller(comfort[c], MaxRampStart(MinCurveSpan[c], Emergency[c])) \in Int
        /\ Emergency[c] \in Int /\ MinFan \in Nat /\ MaxFan \in Nat /\ MinFan <= MaxFan
    BY <2>2, RampInt
  <2> DEFINE from == Smaller(comfort[c], MaxRampStart(MinCurveSpan[c], Emergency[c]))
             trip == Emergency[c]
             taken == smooth'[c]
  <2>7. /\ AsksFor(c, t) = CurveF(t, from, trip, MinFan, MaxFan)
        /\ CurveDemand(c, smooth', comfort) = CurveF(taken, from, trip, MinFan, MaxFan)
    BY DEF AsksFor, CurveDemand
  <2>8. AsksFor(c, t) <= CurveDemand(c, smooth', comfort)
        /\ AsksFor(c, t) \in Int /\ CurveDemand(c, smooth', comfort) \in Int
    <3>1. /\ from \in Int /\ trip \in Int /\ taken \in Int /\ t <= taken
          /\ MinFan \in Nat /\ MaxFan \in Nat /\ MinFan <= MaxFan
      BY <2>5, <2>6
    <3> HIDE DEF from, trip, taken
    <3>2. CurveF(t, from, trip, MinFan, MaxFan) <= CurveF(taken, from, trip, MinFan, MaxFan)
      BY <3>1, CurveMonotone
    <3>3. /\ CurveF(t, from, trip, MinFan, MaxFan) \in Int
          /\ CurveF(taken, from, trip, MinFan, MaxFan) \in Int
      BY <3>1, CurveFRange
    <3> QED BY <2>7, <3>2, <3>3
  <2>9. currentSpeed' \in Int
    BY <1>1, TypeStep, Limits DEF TypeOK
  <2> QED BY <1>1, <2>8, <2>9
<1>2. TypeOK /\ [Next]_vars /\ [Decides => Above]_vars => [Decides => Met]_vars
  BY <1>1
<1> QED BY <1>2, TypeCorrect, DemandIsMet, PTL DEF Spec, NeverBelowDemand, HeatMet

-----------------------------------------------------------------------------
(***************************************************************************)
(* The refinement of Chassis.                                              *)
(***************************************************************************)

\* A setpoint chosen from the permitted speeds, no lower than the old one or
\* within one fall of it, is a choice of the abstract chassis.
LEMMA ChoiceIsPromised ==
  ASSUME currentSpeed' \in Speeds,
         \/ currentSpeed' >= currentSpeed
         \/ \E dt \in Dts : currentSpeed - currentSpeed' <= MaxDrop(dt)
         \/ currentSpeed' = MaxFan,
         UNCHANGED bmcVars
  PROVE  Promise!ChooseSetpoint
  BY DEF Promise!ChooseSetpoint, bmcVars

LEMMA PromiseInit == Init => Promise!Init
<1> SUFFICES ASSUME Init PROVE Promise!Init
  OBVIOUS
<1>1. currentSpeed \in Speeds /\ bmcMode \in {"auto", "manual"}
  BY Limits DEF Init
<1>2. duty \in [Fan -> {-1, currentSpeed}]
  BY DEF Init, NoSetpoint, Unset
<1> QED BY <1>1, <1>2 DEF Promise!Init, Promise!Undriven

LEMMA PromiseStep == TypeOK /\ [Next]_vars => [Promise!Next]_(Promise!vars)
<1> SUFFICES ASSUME TypeOK, [Next]_vars PROVE [Promise!Next]_(Promise!vars)
  OBVIOUS
<1> DEFINE Stutters == UNCHANGED <<bmcMode, duty, currentSpeed>>
<1>1. Stutters => UNCHANGED Promise!vars
  BY DEF Promise!vars
<1>2. CASE BeginCycle
  <2>1. /\ UNCHANGED <<duty, currentSpeed>>
        /\ bmcMode' = "manual" \/ bmcMode' = bmcMode
    BY <1>2 DEF BeginCycle, EngageManual, bmcVars, memVars
  <2> QED BY <1>1, <2>1 DEF Promise!Next, Promise!TakeOver
<1>3. ASSUME UNCHANGED bmcVars, currentSpeed' = FullSpeed
      PROVE  Promise!Next
  <2>1. currentSpeed' \in Speeds /\ currentSpeed' >= currentSpeed
    BY <1>3, ConfigAssumption DEF TypeOK, Speeds, FullSpeed
  <2> QED BY <1>3, <2>1, ChoiceIsPromised DEF Promise!Next
<1>4. CASE ReadFails
  BY <1>3, <1>4 DEF ReadFails
<1>5. ASSUME NEW r \in Readings, EmergencyTrip(r)
      PROVE  Promise!Next
  BY <1>3, <1>5 DEF EmergencyTrip, TakeReading
<1>6. ASSUME NEW r \in Readings, EmergencyHold(r)
      PROVE  Stutters
  BY <1>6 DEF EmergencyHold, TakeReading, bmcVars
<1>7. ASSUME NEW r \in Readings, NEW dt \in Dts, CurveControl(r, dt)
      PROVE  Promise!Next
  <2>1. smooth' \in [Class -> Nat] /\ comfort \in Ramps /\ UNCHANGED bmcVars
    BY <1>7, SmoothedRange DEF CurveControl, TakeReading, TypeOK
  <2> DEFINE d == Demand(smooth', comfort, r)
  <2>2. d \in MinFan .. MaxFan
    BY <2>1, DemandSound
  <2>3. currentSpeed' = SlewedSpeed(d, dt)
    BY <1>7 DEF CurveControl
  <2> HIDE DEF d
  <2>4. /\ currentSpeed' \in Speeds
        /\ \/ currentSpeed - currentSpeed' <= MaxDrop(dt)
           \/ currentSpeed' = MaxFan
    BY <2>2, <2>3, SlewedSpeedSound, Limits DEF TypeOK
  <2> QED BY <2>1, <2>4, ChoiceIsPromised DEF Promise!Next
<1>8. ASSUME NEW o \in Outcome, WriteFan(o)
      PROVE  [Promise!Next]_(Promise!vars)
  <2>1. /\ SetSelector(Targets[wr], currentSpeed, o) /\ currentSpeed' = currentSpeed
        /\ WirePct(currentSpeed) = currentSpeed
        /\ Targets[wr] \in SUBSET Fan
    BY <1>8, TargetsSeq, Limits DEF WriteFan, memVars, TypeOK
  <2>2. CASE Obeyed(o) /\ bmcMode = "manual"
    <3>1. Promise!Drive(Targets[wr])
      BY <2>1, <2>2 DEF Promise!Drive, SetSelector
    <3> QED BY <2>1, <3>1 DEF Promise!Next
  <2>3. CASE ~(Obeyed(o) /\ bmcMode = "manual")
    BY <1>1, <2>1, <2>3 DEF SetSelector
  <2> QED BY <2>2, <2>3
<1>9. ASSUME NEW saved \in BOOLEAN, FinishCycle(saved)
      PROVE  Stutters
  BY <1>9 DEF FinishCycle, bmcVars, memVars
<1>10. ASSUME NEW c \in Class, NEW v \in Comforts[c], Retune(c, v)
       PROVE  Stutters
  BY <1>10 DEF Retune, bmcVars, memVars
<1>11. CASE BmcRevertsToAuto
  <2>1. bmcMode' = "auto" /\ duty' = [f \in Fan |-> -1] /\ currentSpeed' = currentSpeed
    BY <1>11 DEF BmcRevertsToAuto, BmcReverts, NoSetpoint, Unset, memVars
  <2> QED BY <2>1 DEF Promise!Next, Promise!TakeBack, Promise!Undriven
<1>12. CASE UNCHANGED vars
  BY <1>1, <1>12 DEF vars
<1> QED
  BY <1>1, <1>2, <1>4, <1>5, <1>6, <1>7, <1>8, <1>9, <1>10, <1>11, <1>12
  DEF Next, CycleStep

\* The control cycle, command failures, reverts and all, implements Chassis: it
\* never drives a fan to anything but its setpoint of that moment, and the
\* setpoint moves only as Chassis permits.
THEOREM ImplementsChassis == Spec => KeepsPromise
  BY PromiseInit, PromiseStep, TypeCorrect, PTL DEF Spec, KeepsPromise, Promise!Spec
=============================================================================
