----------------------------- MODULE HostAgent -----------------------------
(***************************************************************************)
(* The life of the fan-controller process: cmd/fan-controller/main.go and  *)
(* the first-run box scan of scan.go, with the two files that outlive the  *)
(* process (state.env, learned.json) and the BMC that outlives it too.     *)
(*                                                                         *)
(*   down --> starting --+--> engage --> probe --+--> gate --> first       *)
(*     ^        |        |                       |     |         ^ |       *)
(*     |     refused     +------> release <------+   scan/dwell  | v       *)
(*     |                             |                 /fit -----+ loop    *)
(*     +--- farewell <--- SIGTERM ---(gate)                     <-> learn  *)
(*                                                                         *)
(* One control cycle is one step here (FanController has its inside, and   *)
(* implements Chassis): it engages, takes a reading, picks a setpoint and  *)
(* drives whichever fans the commands reach.  A SIGTERM cancels the        *)
(* process context: from then on every ipmitool run fails at once, except  *)
(* the final handback, which has a context of its own.                     *)
(***************************************************************************)
EXTENDS Bmc, ControlLaw, Sequences

CONSTANTS
  MinFan, MaxFan,       \* the profile's fan limits
  SafeStartFan,         \* the startup floor
  CycleSpeeds,          \* a sample of the setpoints an ordinary cycle may pick
  ScanLevels,           \* the fixed speeds of the box scan, descending
  Comforts,             \* the ramp starts scan and learner may install
  ProfileComfort,       \* the ramp start of the profile, capped at its span
  SlowPlant             \* drives or a passive GPU are present: a scan is worth it

ASSUME LifeAssumption ==
  /\ MinFan \in Nat /\ MaxFan \in Nat /\ SafeStartFan \in Nat
  /\ 0 < MinFan /\ MinFan <= MaxFan /\ MaxFan <= 100
  /\ CycleSpeeds \subseteq MinFan .. MaxFan
  /\ ScanLevels \in Seq(0 .. 100) /\ ScanLevels # <<>>
  /\ ProfileComfort \in Comforts
  /\ SlowPlant \in BOOLEAN

VARIABLES
  phase,          \* where the process is, "down" when there is none
  cancelled,      \* the process context: SIGTERM or SIGINT received
  fanControl,     \* FALSE: monitor-only
  addressed,      \* the fans SetFan reaches in the dialect the probe resolved
  speed,          \* CurrentSpeed
  verified,       \* history: a temperature has been read since this start
  level, have,    \* box scan: index in ScanLevels, and a reading at this level
  scanned, comfort, dirty,  \* scanned, cfg.*Comfort and baselineDirty of main
  learned,        \* learned.json
  stateFile,      \* last_speed in state.env, 0 when there is no file
  lastExit,       \* history: how the last process ended
  handback,       \* history: what became of the process's last handback
  lost            \* history: the save after the scan failed

bmcVars  == <<bmcMode, duty>>
scanVars == <<level, have>>
endVars  == <<lastExit, handback>>
learnVars == <<scanned, comfort, dirty, lost>>
fileVars == <<learned, stateFile>>
vars == <<bmcMode, duty, phase, cancelled, fanControl, addressed, speed, verified,
          level, have, scanned, comfort, dirty, learned, stateFile, lastExit, handback, lost>>

-----------------------------------------------------------------------------
Absent == [kind |-> "absent"]
Stale  == [kind |-> "stale"]                  \* written under an older learnEpoch
Baseline(s, c) == [kind |-> "current", scanned |-> s, comfort |-> c]

\* What loadBaseline makes of the file.
Current(file)         == file.kind = "current"
RestoredScanned(file) == Current(file) /\ file.scanned
RestoredComfort(file) == IF Current(file) THEN file.comfort ELSE ProfileComfort

\* LoadState and PersistState: last_speed, brought into the fan limits.
Resumed(last) == IF last > 0 THEN Clamp(last, MinFan, MaxFan) ELSE MinFan

SavedSpeed(saved, s) == IF saved THEN s ELSE stateFile

StartSpeed_NoFloor(last) == Resumed(last)

StartSpeed_Raw(last) == Smaller(last, MaxFan)

\* The initial engage: the resumed speed, raised to the safe floor.
StartSpeed(last) == Smaller(Larger(Resumed(last), SafeStartFan), MaxFan)

\* A command issued under the process context fails once it is cancelled.
Ctx(o) == cancelled => o = "failed"

\* The sets of fans a multi-command write may reach, and whether it reported
\* success.  The order of the commands is not modelled: any subset may be the
\* one reached before an error.
Reach(S) == {w \in [got : SUBSET S, ok : BOOLEAN] :
               /\ w.ok => w.got = S
               /\ cancelled => w.got = {} /\ ~w.ok}

SetFan(w, pct) == SetSelector(w.got, pct, "ok")

-----------------------------------------------------------------------------
\* A process that is not there keeps nothing but its files.
Forget ==
  /\ cancelled' = FALSE /\ fanControl' = FALSE /\ addressed' = {}
  /\ speed' = MinFan /\ verified' = FALSE
  /\ level' = 1 /\ have' = FALSE
  /\ scanned' = FALSE /\ comfort' = ProfileComfort /\ dirty' = FALSE /\ lost' = FALSE

Init ==
  /\ bmcMode = "auto" /\ duty = NoSetpoint
  /\ phase = "down"
  /\ cancelled = FALSE /\ fanControl = FALSE /\ addressed = {}
  /\ speed = MinFan /\ verified = FALSE
  /\ level = 1 /\ have = FALSE
  /\ scanned = FALSE /\ comfort = ProfileComfort /\ dirty = FALSE /\ lost = FALSE
  /\ learned \in {Absent, Stale}
  /\ stateFile = 0
  /\ lastExit = "none" /\ handback = "unsent"

-----------------------------------------------------------------------------
(* Startup.                                                                *)

Start ==
  /\ phase = "down"
  /\ phase' = "starting" /\ lastExit' = "none" /\ handback' = "unsent"
  /\ UNCHANGED <<bmcVars, cancelled, fanControl, addressed, speed, verified,
                 scanVars, learnVars, fileVars>>

\* A FATAL exit: invalid profile, no Dell BMC, a probe that must succeed.
\* Nothing is sent to the BMC.
Refuse ==
  /\ phase = "starting"
  /\ phase' = "down" /\ lastExit' = "refused"
  /\ Forget
  /\ UNCHANGED <<bmcVars, fileVars, handback>>

\* The files are loaded (a stale learned.json is removed, if it can be) and the
\* starting speed is set.  The operator may have opted out of fan control.
Resume(optOut) ==
  /\ phase = "starting"
  /\ learned' = learned \/ (learned = Stale /\ learned' = Absent)
  /\ scanned' = RestoredScanned(learned)
  /\ comfort' = RestoredComfort(learned)
  /\ speed' = StartSpeed(stateFile)
  /\ fanControl' = ~optOut
  /\ phase' = IF optOut THEN "release" ELSE "engage"
  /\ UNCHANGED <<bmcVars, cancelled, addressed, verified, scanVars, dirty, lost,
                 stateFile, endVars>>

Engage(o) ==
  /\ phase = "engage" /\ Ctx(o)
  /\ EngageManual(o)
  /\ phase' = "probe"
  /\ UNCHANGED <<cancelled, fanControl, addressed, speed, verified, scanVars,
                 learnVars, fileVars, endVars>>

\* The dialect: the broadcast selector answers for every fan, or the indices
\* that answer are kept, or nothing answers.  Each try writes the speed to the
\* fans that obey, whether or not the answer comes back.
Probe(got, answered) ==
  /\ phase = "probe"
  /\ cancelled => got = {}
  /\ answered \subseteq got
  /\ SetSelector(got, speed, "ok")
  /\ addressed' = answered
  /\ phase' = IF answered = {} THEN "release" ELSE "gate"
  /\ UNCHANGED <<cancelled, fanControl, speed, verified, scanVars, learnVars,
                 fileVars, endVars>>

\* What the BMC made of a handback that was sent to it.
Answer(o) == IF Obeyed(o) THEN "obeyed" ELSE "missed"

\* Monitor-only, by the operator's choice or because no dialect works: the fans
\* are handed back, once, and the controller stops driving them.
Release(o) ==
  /\ phase = "release" /\ Ctx(o)
  /\ HandbackAuto(o)
  /\ handback' = IF cancelled THEN "unsent" ELSE Answer(o)
  /\ fanControl' = FALSE
  /\ phase' = "gate"
  /\ UNCHANGED <<cancelled, addressed, speed, verified, scanVars, learnVars,
                 fileVars, lastExit>>

-----------------------------------------------------------------------------
(* The first-run box scan.                                                 *)

\* saveBaseline, and what main remembers of it after the scan gate.
RecordScan(c, saved) ==
  /\ scanned' = TRUE
  /\ comfort' = c
  /\ learned' = IF saved THEN Baseline(TRUE, c) ELSE learned
  /\ lost' = ~saved

GateOpen ==
  /\ phase = "gate" /\ scanned
  /\ phase' = "first"
  /\ UNCHANGED <<bmcVars, cancelled, fanControl, addressed, speed, verified,
                 scanVars, learnVars, fileVars, endVars>>

\* Monitor-only boxes, and boxes whose one reading here shows no slow plant
\* (drives asleep, or no reading at all), are recorded as scanned.
GateSkip(saved, read) ==
  /\ phase = "gate" /\ ~scanned
  /\ ~fanControl => ~read
  /\ RecordScan(comfort, saved)
  /\ verified' = (verified \/ read)
  /\ phase' = "first"
  /\ UNCHANGED <<bmcVars, cancelled, fanControl, addressed, speed, scanVars, dirty,
                 stateFile, endVars>>

GateScan(o) ==
  /\ phase = "gate" /\ ~scanned /\ fanControl /\ SlowPlant
  /\ Ctx(o)
  /\ EngageManual(o)
  /\ verified' = TRUE
  /\ level' = 1 /\ have' = FALSE
  /\ phase' = "scan"
  /\ UNCHANGED <<cancelled, fanControl, addressed, speed, learnVars, fileVars, endVars>>

\* The scan is over, complete or not; its locals are gone.
LeaveScan(next) == phase' = next /\ level' = 1 /\ have' = FALSE

ScanLevel_Retry(w) ==
  /\ phase = "scan"
  /\ SetFan(w, ScanLevels[level])
  /\ IF w.ok THEN phase' = "dwell" /\ have' = FALSE /\ UNCHANGED level
             ELSE UNCHANGED <<phase, level, have>>
  /\ UNCHANGED <<cancelled, fanControl, addressed, speed, verified, learnVars,
                 fileVars, endVars>>

\* A level is set; a failed command ends the scan unrecorded.
ScanLevel(w) ==
  /\ phase = "scan"
  /\ SetFan(w, ScanLevels[level])
  /\ IF w.ok THEN phase' = "dwell" /\ have' = FALSE /\ UNCHANGED level
             ELSE LeaveScan("first")
  /\ UNCHANGED <<cancelled, fanControl, addressed, speed, verified, learnVars,
                 fileVars, endVars>>

\* A reading during the dwell: the level is re-asserted; a class that nears its
\* emergency makes this level the last.
ScanTick(w, near) ==
  /\ phase = "dwell"
  /\ SetFan(w, ScanLevels[level])
  /\ verified' = TRUE
  /\ IF near THEN LeaveScan("fit")
             ELSE have' = TRUE /\ UNCHANGED <<phase, level>>
  /\ UNCHANGED <<cancelled, fanControl, addressed, speed, learnVars, fileVars, endVars>>

\* A class at its emergency: full speed, and the scan ends unrecorded.
ScanEmergency(w) ==
  /\ phase = "dwell"
  /\ SetFan(w, 100)
  /\ verified' = TRUE
  /\ LeaveScan("first")
  /\ UNCHANGED <<cancelled, fanControl, addressed, speed, learnVars, fileVars, endVars>>

\* The dwell is over: the next level, or the fit; a level without a reading
\* ends the scan.
ScanDeadline ==
  /\ phase = "dwell"
  /\ \/ have /\ level < Len(ScanLevels) /\ level' = level + 1 /\ phase' = "scan"
        /\ have' = FALSE
     \/ have /\ level = Len(ScanLevels) /\ LeaveScan("fit")
     \/ ~have /\ LeaveScan("first")
  /\ UNCHANGED <<bmcVars, cancelled, fanControl, addressed, speed, verified,
                 learnVars, fileVars, endVars>>

ScanCancelled ==
  /\ phase = "dwell" /\ cancelled
  /\ LeaveScan("first")
  /\ UNCHANGED <<bmcVars, cancelled, fanControl, addressed, speed, verified,
                 learnVars, fileVars, endVars>>

ScanFit(c, saved) ==
  /\ phase = "fit"
  /\ RecordScan(c, saved)
  /\ phase' = "first"
  /\ UNCHANGED <<bmcVars, cancelled, fanControl, addressed, speed, verified, scanVars,
                 dirty, stateFile, endVars>>

-----------------------------------------------------------------------------
(* The main loop.                                                          *)

\* The setpoint of one cycle, by what the reading showed.
Picked(seen, s) ==
  CASE seen = "curve" -> s [] OTHER -> 100

\* engageManual: nothing is sent in monitor-only mode.
TakesOver_Always(o) == Obeyed(o)

TakesOver(o) == fanControl /\ Obeyed(o)

\* runCycle: the first one runs before the loop is entered and is not followed
\* by the learner.
Cycle(seen, s, o, w, saved) ==
  /\ phase \in {"first", "loop"}
  /\ Ctx(o)
  /\ speed' = Picked(seen, s)
  /\ verified' = (verified \/ seen # "unread")
  /\ bmcMode' = IF TakesOver(o) THEN "manual" ELSE bmcMode
  /\ (seen = "emergency" /\ speed = 100) => w.got = {}
  /\ duty' = IF fanControl /\ bmcMode' = "manual"
             THEN [f \in Fan |-> IF f \in w.got THEN speed' ELSE duty[f]]
             ELSE duty
  /\ stateFile' = SavedSpeed(saved /\ seen = "curve", speed')
  /\ phase' = IF phase = "first" THEN "loop" ELSE "learn"
  /\ UNCHANGED <<cancelled, fanControl, addressed, scanVars, learnVars, learned, endVars>>

\* What a checkpoint writes; the flag must survive it.
Checkpoint_FlagDropped(c) == Baseline(FALSE, c)

Checkpoint(c) == Baseline(scanned, c)

\* baselineDirty once the learner has moved the ramp to c; forgotten, a moved
\* ramp is never written.
Changed_Forgotten(c) == dirty

Changed(c) == dirty \/ c # comfort

\* The rest of the ticker case: the learner may move the ramp to c, and a due
\* checkpoint is attempted when something changed.
LearnTick(c, due, saved) ==
  /\ phase = "learn"
  /\ comfort' = c
  /\ dirty' = (Changed(c) /\ ~(due /\ saved))
  /\ IF Changed(c) /\ due /\ saved
     THEN learned' = Checkpoint(c) /\ lost' = FALSE
     ELSE UNCHANGED <<learned, lost>>
  /\ phase' = "loop"
  /\ UNCHANGED <<bmcVars, cancelled, fanControl, addressed, speed, verified, scanVars,
                 scanned, stateFile, endVars>>

-----------------------------------------------------------------------------
(* The end.                                                                *)

\* The loop sees the cancelled context: files first.
Flush(savedBaseline, savedState) ==
  /\ phase = "loop" /\ cancelled
  /\ learned' = IF dirty /\ savedBaseline THEN Checkpoint(comfort) ELSE learned
  /\ stateFile' = SavedSpeed(savedState, speed)
  /\ phase' = "farewell"
  /\ UNCHANGED <<bmcVars, cancelled, fanControl, addressed, speed, verified, scanVars,
                 learnVars, endVars>>

\* The handback under the process context, like every other command.
Farewell_Cancelled(o) ==
  /\ phase = "farewell" /\ Ctx(o)
  /\ HandbackAuto(o)
  /\ handback' = IF cancelled THEN "unsent" ELSE Answer(o)
  /\ lastExit' = IF Obeyed(o) THEN "released" ELSE "handbackFailed"
  /\ phase' = "down"
  /\ Forget
  /\ UNCHANGED fileVars

\* Then the handback, in monitor-only mode too, under a fresh context.
Farewell(o) ==
  /\ phase = "farewell"
  /\ HandbackAuto(o)
  /\ handback' = Answer(o)
  /\ lastExit' = IF Obeyed(o) THEN "released" ELSE "handbackFailed"
  /\ phase' = "down"
  /\ Forget
  /\ UNCHANGED fileVars

-----------------------------------------------------------------------------
(* The world.                                                              *)

Sigterm ==
  /\ phase # "down" /\ ~cancelled
  /\ cancelled' = TRUE
  /\ UNCHANGED <<bmcVars, phase, fanControl, addressed, speed, verified, scanVars,
                 learnVars, fileVars, endVars>>

\* SIGKILL, a panic, a lost container.
Crash ==
  /\ phase # "down"
  /\ phase' = "down" /\ lastExit' = "crashed"
  /\ Forget
  /\ UNCHANGED <<bmcVars, fileVars, handback>>

BmcRevertsToAuto ==
  /\ BmcReverts
  /\ UNCHANGED <<phase, cancelled, fanControl, addressed, speed, verified, scanVars,
                 learnVars, fileVars, endVars>>

Scan ==
  \/ \E o \in Outcome : GateScan(o)
  \/ \E w \in Reach(addressed) : ScanLevel(w) \/ ScanEmergency(w)
  \/ \E w \in Reach(addressed), near \in BOOLEAN : ScanTick(w, near)
  \/ ScanDeadline
  \/ ScanCancelled
  \/ \E c \in Comforts, saved \in BOOLEAN : ScanFit(c, saved)

AgentStep ==
  \/ Refuse
  \/ \E optOut \in BOOLEAN : Resume(optOut)
  \/ \E o \in Outcome : Engage(o) \/ Release(o) \/ Farewell(o)
  \/ \E got \in SUBSET Fan : \E answered \in SUBSET got : Probe(got, answered)
  \/ GateOpen
  \/ \E saved, read \in BOOLEAN : GateSkip(saved, read)
  \/ Scan
  \/ \E seen \in {"unread", "emergency", "curve"}, s \in CycleSpeeds, o \in Outcome,
        w \in Reach(addressed), saved \in BOOLEAN : Cycle(seen, s, o, w, saved)
  \/ \E c \in Comforts, due, saved \in BOOLEAN : LearnTick(c, due, saved)
  \/ \E savedBaseline, savedState \in BOOLEAN : Flush(savedBaseline, savedState)

Next == Start \/ AgentStep \/ Sigterm \/ Crash \/ BmcRevertsToAuto

Spec == Init /\ [][Next]_vars

\* A running process does not stop between two steps, a dwell ends, and a
\* select with a cancelled context ready at every turn does not choose the
\* ticker for ever.  Nobody need start the process, stop it or crash it.
FairSpec ==
  /\ Spec
  /\ WF_vars(AgentStep)
  /\ WF_vars(ScanDeadline)
  /\ SF_vars(\E savedBaseline, savedState \in BOOLEAN : Flush(savedBaseline, savedState))

-----------------------------------------------------------------------------
Running == phase # "down"
InLoop  == phase \in {"first", "loop", "learn"}

Percent   == 0 .. 100
Setpoints == MinFan .. MaxFan \cup {100}

DriveType ==
  /\ bmcMode \in {"auto", "manual"}
  /\ duty \in [Fan -> {Unset} \cup Percent]
  /\ addressed \subseteq Fan
  /\ speed \in Setpoints

ProcessType ==
  /\ phase \in {"down", "starting", "engage", "probe", "release", "gate", "scan",
                "dwell", "fit", "first", "loop", "learn", "farewell"}
  /\ cancelled \in BOOLEAN /\ fanControl \in BOOLEAN /\ verified \in BOOLEAN
  /\ level \in 1 .. Len(ScanLevels) /\ have \in BOOLEAN
  /\ scanned \in BOOLEAN /\ comfort \in Comforts /\ dirty \in BOOLEAN /\ lost \in BOOLEAN

SavedType == [kind : {"current"}, scanned : BOOLEAN, comfort : Comforts]

FileType ==
  /\ learned \in {Absent, Stale} \cup SavedType
  /\ stateFile \in {0} \cup Setpoints
  /\ lastExit \in {"none", "refused", "crashed", "released", "handbackFailed"}
  /\ handback \in {"unsent", "obeyed", "missed"}

TypeOK == DriveType /\ ProcessType /\ FileType

\* main.go:270-281, "always converge toward quiet from the SAFE side": until
\* this process has read a temperature it tells no fan a speed below the safe
\* floor, whatever speed an earlier process left in state.env, however that
\* process ended and at whatever low speed it left the fans.
SafeSide ==
  [][\A f \in Fan :
       duty'[f] \notin {duty[f], Unset} /\ ~verified'
         => duty'[f] >= Smaller(SafeStartFan, MaxFan)]_vars

\* Once the process has given up fan control it never again takes the fans over
\* or writes to one, whatever its cycles, its scan gate or its shutdown do: the
\* only change it can make is the handback.
MonitorOnlyIsHandsOff ==
  [][(phase \in {"gate", "first", "loop", "learn", "scan", "dwell", "fit", "farewell"}
      /\ ~fanControl) =>
       /\ bmcMode' \in {bmcMode, "auto"}
       /\ duty' \in {duty, NoSetpoint}]_vars

\* Manual mode that no process uses has a cause outside the agent.  A process
\* that gave up fan control, or never wanted it, and one that has ended leave the
\* BMC in charge of its fans, unless a handback that was sent to it had no
\* effect, or the process before was killed or refused to start.  So every way
\* into monitor-only mode hands back what an earlier process may have left; a
\* SIGTERM during startup, whose cancelled context swallows that handback, is
\* made good by the one of the shutdown, which is sent for certain
\* (main.go:310, 456-457, 720).
ManualIsAccountedFor ==
  (bmcMode = "manual" /\ ~fanControl /\ phase \notin {"starting", "release"}) =>
    \/ handback = "missed"
    \/ lastExit \in {"crashed", "refused"}
    \/ phase # "down" /\ cancelled

\* A ramp start in use that is not the one a restart would resume is marked
\* dirty, so that a checkpoint or the shutdown will write it; the only
\* exception is the ramp of a scan whose own save failed.
UnsavedIsDirty ==
  (InLoop /\ ~lost /\ comfort # RestoredComfort(learned)) => dirty

\* The agent implements the promise of module BoxRecord, whatever signals,
\* crashes, failed commands and failed saves its life is made of: a start
\* resumes the record on file, a scan that is on file is not taken back, scan
\* and ramp are only saved as they are in use and both together, and a process
\* that goes loses no more than the record it had in use.
Remembers == INSTANCE BoxRecord WITH
  Ramps <- Comforts, FirstRamp <- ProfileComfort,
  running <- phase \notin {"down", "starting"},
  stored  <- [scanned |-> RestoredScanned(learned), ramp |-> RestoredComfort(learned)],
  working <- [scanned |-> scanned, ramp |-> comfort]
KeepsRecord == Remembers!Spec

\* What holds between the steps of one process's life; each conjunct is what one
\* of the properties above needs to be inductive.
Life ==
  /\ phase \in {"engage", "probe"} => speed >= Smaller(SafeStartFan, MaxFan)
  /\ phase \in {"scan", "dwell"} => verified
  /\ phase \in {"scan", "dwell", "fit"} => fanControl /\ ~scanned
  /\ (RestoredScanned(learned) /\ phase \notin {"down", "starting"}) => scanned
  /\ phase \in {"down", "starting"} => ~lost
  /\ phase \in {"engage", "probe", "release", "gate", "scan", "dwell", "fit"} =>
       ~lost /\ comfort = RestoredComfort(learned)
  /\ phase \in {"engage", "probe"} => fanControl
  /\ ManualIsAccountedFor
  /\ UnsavedIsDirty

\* A process that was asked to stop does so.
StopsWhenAsked == cancelled ~> (phase = "down")

-----------------------------------------------------------------------------
(* What comments say of the program and the code does not do.              *)

\* main.go:713-717 "a box we cannot drive must be left on the BMC's own thermal
\* policy, never stranded in manual mode".
NeverStranded == (InLoop /\ ~fanControl) => bmcMode = "auto"
=============================================================================
