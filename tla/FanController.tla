--------------------------- MODULE FanController ---------------------------
(***************************************************************************)
(* The control cycle of internal/controller/controller.go, driving a BMC   *)
(* through internal/ipmi/ipmi.go.                                          *)
(*                                                                         *)
(* One Cycle call is a sequence of steps, one per ipmitool command, because *)
(* the BMC may leave manual mode between any two of them:                  *)
(*                                                                         *)
(*   idle --engage--> read --+--> write --> ... --> write --> idle | finish *)
(*                           +--> idle   (emergency hold: nothing written) *)
(*                                                                         *)
(* The decision itself (smoothing, emergency check, curves, slew) touches  *)
(* only the controller's memory and is one step.  Time enters as the gap   *)
(* dt since the previous reading, chosen from Dts.                         *)
(***************************************************************************)
EXTENDS Bmc, ControlLaw, Sequences

CONSTANTS
  FanIndices,     \* ipmi.Client.FanIndices: <<>> is the 0xff broadcast dialect
  MinFan, MaxFan, \* percent limits of the profile
  Emergency,      \* per sensor, degrees
  MinCurveSpan,   \* per curve class, degrees
  OwnFanThreshold,\* active-GPU own-fan percent at which the assist starts
  Readings,       \* the readings the sensors can return
  Dts,            \* seconds that may separate two readings
  Comforts        \* per class, the ramp starts profile, scan or learner may install

Class   == {"cpu", "pg", "hdd", "ssd"}          \* classes with a fan curve
Sensor  == Class \cup {"ag"}
Guarded == {"hdd", "ssd"}                       \* absent (0) never trips

FullSpeed == 100
Speeds == MinFan .. MaxFan \cup {FullSpeed}     \* the setpoints a cycle may choose

\* One selector per fan-set command, as the set of fans it covers.
Targets == IF FanIndices = <<>>
           THEN <<Fan>>
           ELSE [i \in 1 .. Len(FanIndices) |-> {FanIndices[i]}]

Reading == [temp : [Sensor -> Nat], agFan : Nat]

\* What config.Validate and cpu.Read guarantee.  Emergency["ag"] is not
\* validated and may be anything.
ASSUME ConfigAssumption ==
  /\ FanIndices \in Seq(Fan)
  /\ MinFan \in Nat /\ MaxFan \in Nat /\ OwnFanThreshold \in Int
  /\ 0 < MinFan /\ MinFan <= MaxFan /\ MaxFan <= FullSpeed
  /\ Emergency \in [Sensor -> Int]
  /\ MinCurveSpan \in [Class -> Nat \ {0}]
  /\ Comforts \in [Class -> SUBSET Int]
  /\ Dts \subseteq Nat
  /\ Readings \subseteq {r \in Reading : r.temp["cpu"] > 0}

VARIABLES
  pc,             \* "idle", "read", "write" or "finish"
  wr,             \* index in Targets of the fan-set command to issue next
  fanControl,     \* FALSE: monitor-only
  currentSpeed,   \* CurrentSpeed, the chassis setpoint
  smooth,         \* Smooth*Temp per class, 0 when unseeded
  inEmergency,
  branch,         \* the way the last decision went
  reading,        \* the last successful reading
  lastTemp, lastDemand,       \* Last*Temp (-1: never) and Last*Demand per class
  comfort,        \* cfg.*Comfort per class
  stateFile,      \* last_speed in the persisted state file, 0 when absent
  held,           \* history: in manual mode since this cycle's engage
  failed          \* history: the fan-set commands of this cycle that failed

bmcVars == <<bmcMode, duty>>
memVars == <<currentSpeed, smooth, inEmergency, branch, reading>>
lastVars == <<lastTemp, lastDemand>>
vars == <<bmcMode, duty, pc, wr, fanControl, currentSpeed, smooth, inEmergency,
          branch, reading, lastTemp, lastDemand, comfort, stateFile, held, failed>>

-----------------------------------------------------------------------------
Ramps == {cf \in [Class -> UNION {Comforts[c] : c \in Class}] :
            \A c \in Class : cf[c] \in Comforts[c]}

\* The curve of one class, its ramp start capped at the point of use.
CurveDemand(c, sm, cf) ==
  CurveF(sm[c], Smaller(cf[c], MaxRampStart(MinCurveSpan[c], Emergency[c])),
         Emergency[c], MinFan, MaxFan)

Assist(r) ==
  IF r.temp["ag"] > 0
  THEN ActiveGPUAssist(r.agFan, OwnFanThreshold, MinFan, MaxFan)
  ELSE 0

Demand(sm, cf, r) ==
  MaxWins(CurveDemand("cpu", sm, cf), CurveDemand("pg", sm, cf),
          CurveDemand("hdd", sm, cf), CurveDemand("ssd", sm, cf),
          Assist(r), MinFan, MaxFan)

\* The emergency check, on the raw reading.
AnyEmergency(r) ==
  \E s \in Sensor :
    /\ s \in Guarded => r.temp[s] > 0
    /\ r.temp[s] >= Emergency[s]

SlewedSpeed_BothWays(demand, dt) ==
  IF demand > currentSpeed + MaxDrop(dt)
  THEN Clamp(currentSpeed + MaxDrop(dt), MinFan, MaxFan)
  ELSE Clamp(SlewDown(currentSpeed, demand, dt), MinFan, MaxFan)

SlewedSpeed_None(demand, dt) == demand

SlewedSpeed_Unclamped(demand, dt) == SlewDown(currentSpeed, demand, dt)

SlewedSpeed(demand, dt) ==
  Clamp(SlewDown(currentSpeed, demand, dt), MinFan, MaxFan)

-----------------------------------------------------------------------------
\* The startup sequence has resolved the fan addressing and seeded the speed: it
\* left the BMC in manual mode at that speed, or the BMC drives the fans.
Init ==
  /\ pc = "idle" /\ wr = 1
  /\ fanControl \in BOOLEAN
  /\ currentSpeed \in MinFan .. MaxFan
  /\ \/ bmcMode = "auto" /\ duty = NoSetpoint
     \/ fanControl /\ bmcMode = "manual" /\ duty = [f \in Fan |-> currentSpeed]
  /\ smooth = [c \in Class |-> 0]
  /\ inEmergency = FALSE /\ branch = "none"
  /\ reading \in Readings
  /\ lastTemp = [c \in Class |-> -1] /\ lastDemand = [c \in Class |-> 0]
  /\ comfort \in Ramps
  /\ stateFile = 0
  /\ held = FALSE /\ failed = {}

-----------------------------------------------------------------------------
\* What follows the writes of a branch.
AfterWrite(b) == IF b = "curve" THEN "finish" ELSE "idle"

\* A controller that trusted its own memory: only a setpoint that changed is
\* written.
StartWrite_OnChange(b) ==
  /\ branch' = b
  /\ wr' = 1
  /\ pc' = IF fanControl /\ currentSpeed' # currentSpeed THEN "write" ELSE AfterWrite(b)

\* The setpoint is in place: issue the fan-set commands, or in monitor-only
\* mode go straight to what follows them.
StartWrite(b) ==
  /\ branch' = b
  /\ wr' = 1
  /\ pc' = IF fanControl THEN "write" ELSE AfterWrite(b)

\* A new cycle re-engages manual mode; the result of the command is ignored.
BeginCycle ==
  /\ pc = "idle"
  /\ pc' = "read"
  /\ failed' = {}
  /\ \/ fanControl /\ \E o \in Outcome : EngageManual(o)
     \/ ~fanControl /\ UNCHANGED bmcVars
  /\ held' = (bmcMode' = "manual")
  /\ UNCHANGED <<wr, fanControl, memVars, lastVars, comfort, stateFile>>

\* No CPU temperature: full speed; nothing learnt from the cycle.
ReadFails ==
  /\ pc = "read"
  /\ currentSpeed' = FullSpeed
  /\ StartWrite("readFailed")
  /\ UNCHANGED <<bmcVars, fanControl, smooth, inEmergency, reading, lastVars,
                 comfort, stateFile, held, failed>>

\* The smoothed temperatures after reading r.
Smoothed(r) ==
  {[c \in Class |-> CASE c = "cpu" -> a [] c = "pg" -> b [] c = "hdd" -> h [] OTHER -> s] :
     a \in SmoothTemp(smooth["cpu"], r.temp["cpu"]),
     b \in SmoothTemp(smooth["pg"],  r.temp["pg"]),
     h \in SmoothTemp(smooth["hdd"], r.temp["hdd"]),
     s \in SmoothTemp(smooth["ssd"], r.temp["ssd"])}

TakeReading(r) ==
  /\ pc = "read"
  /\ reading' = r
  /\ smooth' \in Smoothed(r)
  /\ UNCHANGED <<bmcVars, fanControl, lastVars, comfort, stateFile, held, failed>>

\* An emergency on entry: full speed, now.
EmergencyTrip(r) ==
  /\ TakeReading(r)
  /\ AnyEmergency(r)
  /\ currentSpeed # FullSpeed
  /\ currentSpeed' = FullSpeed
  /\ inEmergency' = TRUE
  /\ StartWrite("trip")

\* An emergency with the setpoint already at full speed: only a log line.
EmergencyHold(r) ==
  /\ TakeReading(r)
  /\ AnyEmergency(r)
  /\ currentSpeed = FullSpeed
  /\ inEmergency' = TRUE
  /\ branch' = "hold"
  /\ pc' = "idle"
  /\ UNCHANGED <<wr, currentSpeed>>

\* The ordinary cycle: curves, max-wins, slew, write.
CurveControl(r, dt) ==
  /\ TakeReading(r)
  /\ ~AnyEmergency(r)
  /\ inEmergency' = FALSE
  /\ currentSpeed' = SlewedSpeed(Demand(smooth', comfort, r), dt)
  /\ StartWrite("curve")

\* One fan-set command.  SetFan returns at the first one that fails.
WriteFan(o) ==
  /\ pc = "write"
  /\ SetSelector(Targets[wr], currentSpeed, o)
  /\ failed' = IF o = "ok" THEN failed ELSE failed \cup {wr}
  /\ IF o = "ok" /\ wr < Len(Targets)
     THEN wr' = wr + 1 /\ UNCHANGED pc
     ELSE pc' = AfterWrite(branch) /\ UNCHANGED wr
  /\ UNCHANGED <<fanControl, memVars, lastVars, comfort, stateFile, held>>

\* The tail of an ordinary cycle: per-class inputs of the learner, and the
\* checkpoint when it is due and the write succeeds.
FinishCycle(saved) ==
  /\ pc = "finish"
  /\ pc' = "idle"
  /\ lastTemp' = [c \in Class |-> IF reading.temp[c] > 0
                                  THEN reading.temp[c] ELSE lastTemp[c]]
  /\ lastDemand' = [c \in Class |-> IF reading.temp[c] > 0
                                    THEN CurveDemand(c, smooth, comfort)
                                    ELSE lastDemand[c]]
  /\ stateFile' = IF saved THEN currentSpeed ELSE stateFile
  /\ UNCHANGED <<bmcVars, wr, fanControl, memVars, comfort, held, failed>>

\* Between two cycles the learner may move a ramp start (runLearnTick).
Retune(c, v) ==
  /\ pc = "idle"
  /\ v # comfort[c]
  /\ comfort' = [comfort EXCEPT ![c] = v]
  /\ UNCHANGED <<bmcVars, pc, wr, fanControl, memVars, lastVars, stateFile, held, failed>>

\* The BMC leaves manual mode, at any moment.
BmcRevertsToAuto ==
  /\ BmcReverts
  /\ held' = FALSE
  /\ UNCHANGED <<pc, wr, fanControl, memVars, lastVars, comfort, stateFile, failed>>

CycleStep ==
  \/ BeginCycle
  \/ ReadFails
  \/ \E r \in Readings : EmergencyTrip(r) \/ EmergencyHold(r)
  \/ \E r \in Readings, dt \in Dts : CurveControl(r, dt)
  \/ \E o \in Outcome : WriteFan(o)
  \/ \E saved \in BOOLEAN : FinishCycle(saved)

Next ==
  \/ CycleStep
  \/ \E c \in Class : \E v \in Comforts[c] : Retune(c, v)
  \/ BmcRevertsToAuto

Spec == Init /\ [][Next]_vars

\* The ticker keeps calling Cycle and every command returns within its
\* deadline: the cycle never stops between two steps.
FairSpec == Spec /\ WF_vars(CycleStep)

-----------------------------------------------------------------------------
\* The type invariant.  Its two sharp points: the setpoint is within the fan
\* limits or exactly full speed, and so is whatever a fan was last told.
TypeOK ==
  /\ bmcMode \in {"auto", "manual"}
  /\ duty \in [Fan -> {Unset} \cup Speeds]
  /\ pc \in {"idle", "read", "write", "finish"}
  /\ wr \in 1 .. Len(Targets)
  /\ fanControl \in BOOLEAN
  /\ currentSpeed \in Speeds
  /\ smooth \in [Class -> Nat]
  /\ inEmergency \in BOOLEAN
  /\ branch \in {"none", "readFailed", "trip", "hold", "curve"}
  /\ reading \in Readings
  /\ lastTemp \in [Class -> Nat \cup {-1}]
  /\ lastDemand \in [Class -> 0 .. MaxFan]
  /\ comfort \in Ramps
  /\ stateFile \in {0} \cup Speeds
  /\ held \in BOOLEAN
  /\ failed \in SUBSET (1 .. Len(Targets))

\* The fans a completed SetFan covers hold the setpoint.
Holds(i) == \A f \in Targets[i] : duty[f] = currentSpeed

\* The cycle that just ended was one that writes the setpoint.
WroteSetpoint == pc = "idle" /\ fanControl /\ branch \in {"readFailed", "trip", "curve"}

\* After a cycle that writes the setpoint (read failure, emergency entry or
\* ordinary control), if the BMC stayed in manual mode and no command failed,
\* every addressed fan holds the controller's setpoint: what the controller
\* believes is what the fans do, whatever happened in earlier cycles.  It is
\* the per-cycle SetFan of controller.go:369-373 that makes it true.
SetpointDelivered ==
  (WroteSetpoint /\ held /\ failed = {}) =>
    /\ bmcMode = "manual"
    /\ \A i \in DOMAIN Targets : Holds(i)

\* The strengthening of SetpointDelivered that every step preserves: between
\* two commands of a cycle the fans before wr hold the setpoint.
Delivery ==
  /\ held => bmcMode = "manual"
  /\ pc = "read" => failed = {}
  /\ pc = "write" =>
       /\ failed = {}
       /\ held => \A i \in 1 .. wr - 1 : Holds(i)
  /\ (pc = "finish" /\ fanControl /\ held /\ failed = {}) =>
       \A i \in DOMAIN Targets : Holds(i)
  /\ SetpointDelivered

\* A control decision never leaves the chassis below what some class asks for:
\* the slew limit delays only falls, and max-wins lets no cool class outvote a
\* hot one.
NeverBelowDemand ==
  [][(pc = "read" /\ pc' # "read" /\ branch' = "curve") =>
       /\ \A c \in Class : CurveDemand(c, smooth', comfort) <= currentSpeed'
       /\ Assist(reading') <= currentSpeed']_vars

\* The cycle implements the promise of module Chassis: its setpoint is the one
\* promised, each fan-set command drives some fans to it, and everything else
\* it does (reading, smoothing, failing, checkpointing) does not show.
Promise == INSTANCE Chassis WITH
  mode <- bmcMode, setpoint <- currentSpeed,
  TopSpeed <- MaxFan, Falls <- {MaxDrop(dt) : dt \in Dts}
KeepsPromise == Promise!Spec

\* Every cycle reads the same temperatures, takes the ordinary branch and finds
\* the same ramps.
Steady == UNCHANGED <<reading, comfort>> /\ branch' = "curve"

\* The smoothed temperatures are within one unit of the readings: an exponential
\* filter comes that close to a reading that stays, and need never come closer.
CaughtUp ==
  \A c \in Class : smooth[c] - Res * reading.temp[c] \in -1 .. 1

\* The demand of temperatures that lie off units above the readings.
DemandNear(off) ==
  Demand([c \in Class |-> Res * reading.temp[c] + off], comfort, reading)

\* Once the readings stay the same the setpoint comes to rest: no integrator, no
\* hunting, and the slew limit, however short the cycles, only delays it.  It
\* rests at the demand of the readings or, because the filter approaches them
\* without end, at that of temperatures just below them, never above.  (The two
\* differ, by a percent, where a reading's curve value is halfway between two.)
Settles ==
  (<>[][Steady]_vars /\ <>[]CaughtUp) =>
    /\ <>[](currentSpeed \in DemandNear(-1) .. DemandNear(0))
    /\ <>[][UNCHANGED currentSpeed]_vars

-----------------------------------------------------------------------------
(* What comments and documents say of the program and the code does not do. *)

\* README.md:358 "any class >= its class_EMERGENCY => fans = 100%", and
\* ipmi.go:115 "the next cycle retries the whole set" when a fan-set fails: at
\* the end of an emergency cycle in which no command failed and the BMC stayed
\* in manual mode, every addressed fan is at full speed.
EmergencyMeansFullSpeed ==
  (pc = "idle" /\ fanControl /\ branch \in {"trip", "hold"} /\ held /\ failed = {}) =>
    \A i \in DOMAIN Targets : \A f \in Targets[i] : duty[f] = FullSpeed
=============================================================================
