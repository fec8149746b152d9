-------------------------- MODULE HostAgentProofs --------------------------
(***************************************************************************)
(* Theorems of HostAgent for every fan set, fan range, scan plan and set   *)
(* of ramp starts.                                                         *)
(***************************************************************************)
EXTENDS HostAgent, ControlLawProofs

-----------------------------------------------------------------------------
LEMMA StartSpeedRange ==
  ASSUME NEW last \in Nat
  PROVE  /\ StartSpeed(last) \in MinFan .. MaxFan
         /\ StartSpeed(last) >= Smaller(SafeStartFan, MaxFan)
<1>1. /\ MinFan \in Nat /\ MaxFan \in Nat /\ SafeStartFan \in Nat
      /\ MinFan <= MaxFan
  BY LifeAssumption
<1> QED BY <1>1 DEF StartSpeed, Resumed, Clamp, Smaller, Larger

\* A percent in 0..100 written by a fan-set command keeps the fans' settings
\* percents.
LEMMA SetSelectorDuty ==
  ASSUME duty \in [Fan -> {Unset} \cup Percent], bmcMode \in {"auto", "manual"},
         NEW S, NEW pct \in Percent, SetSelector(S, pct, "ok")
  PROVE  duty' \in [Fan -> {Unset} \cup Percent] /\ bmcMode' = bmcMode
<1>1. WirePct(pct) \in Percent
  BY DEF WirePct, Percent
<1>2. [f \in Fan |-> IF f \in S THEN WirePct(pct) ELSE duty[f]]
        \in [Fan -> {Unset} \cup Percent]
  BY <1>1
<1> QED BY <1>2 DEF SetSelector

\* A baseline read back is one that was saved.
LEMMA BaselineType ==
  ASSUME NEW s \in BOOLEAN, NEW c \in Comforts
  PROVE  /\ Baseline(s, c) \in SavedType
         /\ RestoredScanned(Baseline(s, c)) = s
         /\ RestoredComfort(Baseline(s, c)) = c
  BY DEF Baseline, RestoredScanned, RestoredComfort, Current, SavedType

LEMMA RestoredType ==
  ASSUME TypeOK
  PROVE  RestoredScanned(learned) \in BOOLEAN /\ RestoredComfort(learned) \in Comforts
<1>1. CASE learned \in SavedType
  BY <1>1 DEF RestoredScanned, RestoredComfort, Current, SavedType
<1>2. CASE learned \in {Absent, Stale}
  BY <1>2, LifeAssumption DEF RestoredScanned, RestoredComfort, Current, Absent, Stale
<1> QED BY <1>1, <1>2 DEF TypeOK, FileType

\* Giving up a stale file changes nothing of what it restores.
LEMMA StaleRestores ==
  /\ RestoredScanned(Absent) = RestoredScanned(Stale)
  /\ RestoredComfort(Absent) = RestoredComfort(Stale)
  BY DEF RestoredScanned, RestoredComfort, Current, Absent, Stale

-----------------------------------------------------------------------------
(***************************************************************************)
(* Type correctness.                                                       *)
(***************************************************************************)
LEMMA Constants ==
  /\ ProfileComfort \in Comforts
  /\ CycleSpeeds \subseteq Setpoints /\ MinFan \in Setpoints /\ 100 \in Setpoints
  /\ MinFan .. MaxFan \subseteq Setpoints
  /\ Setpoints \subseteq Percent /\ Percent \subseteq Nat
  /\ Len(ScanLevels) \in Nat \ {0}
  /\ \A i \in 1 .. Len(ScanLevels) : ScanLevels[i] \in Percent
<1>1. ScanLevels \in Seq(Percent) /\ ScanLevels # <<>>
  BY LifeAssumption DEF Percent
<1>2. Len(ScanLevels) \in Nat \ {0} /\ \A i \in 1 .. Len(ScanLevels) : ScanLevels[i] \in Percent
  BY <1>1
<1> QED BY <1>2, LifeAssumption DEF Setpoints, Percent

LEMMA TypeInit == Init => TypeOK
<1> SUFFICES ASSUME Init PROVE TypeOK
  OBVIOUS
<1>1. DriveType
  BY Constants DEF Init, DriveType, NoSetpoint
<1>2. ProcessType
  <2>1. level \in 1 .. Len(ScanLevels)
    BY Constants DEF Init
  <2>2. phase \in {"down"} /\ comfort \in Comforts
    BY Constants DEF Init
  <2> QED BY <2>1, <2>2 DEF Init, ProcessType
<1>3. FileType
  BY DEF Init, FileType
<1> QED BY <1>1, <1>2, <1>3 DEF TypeOK

\* The setpoint and the fans.
LEMMA DriveStep == TypeOK /\ [Next]_vars => DriveType'
<1> SUFFICES ASSUME TypeOK, [Next]_vars PROVE DriveType'
  OBVIOUS
<1> USE DEF DriveType, bmcVars
<1> USE Constants
<1>0. /\ bmcMode \in {"auto", "manual"} /\ duty \in [Fan -> {Unset} \cup Percent]
      /\ addressed \subseteq Fan /\ speed \in Setpoints
      /\ stateFile \in Nat /\ speed \in Percent
      /\ level \in 1 .. Len(ScanLevels)
  BY DEF TypeOK, FileType, ProcessType
<1>1. ASSUME NEW o, HandbackAuto(o) \/ EngageManual(o)
      PROVE  bmcMode' \in {"auto", "manual"} /\ duty' \in [Fan -> {Unset} \cup Percent]
  <2>1. NoSetpoint \in [Fan -> {Unset} \cup Percent]
    BY DEF NoSetpoint
  <2> QED BY <1>0, <1>1, <2>1 DEF HandbackAuto, EngageManual
<1>2. ASSUME NEW w, NEW pct \in Percent, SetFan(w, pct)
      PROVE  bmcMode' \in {"auto", "manual"} /\ duty' \in [Fan -> {Unset} \cup Percent]
  <2>1. SetSelector(w.got, pct, "ok")
    BY <1>2 DEF SetFan
  <2> QED BY <1>0, <2>1, SetSelectorDuty
<1>3. CASE UNCHANGED bmcVars /\ UNCHANGED <<addressed, speed>>
  BY <1>0, <1>3
<1>4. CASE UNCHANGED bmcVars /\ Forget
  BY <1>0, <1>4 DEF Forget
<1>5. CASE Start \/ GateOpen \/ ScanDeadline \/ ScanCancelled \/ Sigterm \/ UNCHANGED vars
  BY <1>3, <1>5 DEF Start, GateOpen, ScanDeadline, ScanCancelled, Sigterm, vars
<1>6. CASE Refuse \/ Crash
  BY <1>4, <1>6 DEF Refuse, Crash
<1>7. ASSUME NEW optOut \in BOOLEAN, Resume(optOut)
      PROVE  DriveType'
  BY <1>0, <1>7, StartSpeedRange DEF Resume
<1>8. ASSUME NEW o \in Outcome, Engage(o) \/ Release(o) \/ GateScan(o)
      PROVE  DriveType'
  BY <1>0, <1>1, <1>8 DEF Engage, Release, GateScan
<1>9. ASSUME NEW got \in SUBSET Fan, NEW answered \in SUBSET got, Probe(got, answered)
      PROVE  DriveType'
  BY <1>0, <1>9, SetSelectorDuty DEF Probe
<1>10. ASSUME NEW saved \in BOOLEAN, NEW read \in BOOLEAN, GateSkip(saved, read)
       PROVE  DriveType'
  BY <1>3, <1>10 DEF GateSkip
<1>11. ASSUME NEW w, NEW pct \in Percent, SetFan(w, pct), UNCHANGED <<addressed, speed>>
       PROVE  DriveType'
  BY <1>0, <1>2, <1>11
<1>12. ASSUME NEW w \in Reach(addressed), ScanLevel(w) \/ ScanEmergency(w)
       PROVE  DriveType'
  BY <1>0, <1>11, <1>12 DEF ScanLevel, ScanEmergency
<1>13. ASSUME NEW w \in Reach(addressed), NEW near \in BOOLEAN, ScanTick(w, near)
       PROVE  DriveType'
  BY <1>0, <1>11, <1>13 DEF ScanTick
<1>14. ASSUME NEW c \in Comforts, NEW saved \in BOOLEAN, ScanFit(c, saved)
       PROVE  DriveType'
  BY <1>3, <1>14 DEF ScanFit
<1>15. ASSUME NEW c \in Comforts, NEW due \in BOOLEAN, NEW saved \in BOOLEAN,
               LearnTick(c, due, saved)
       PROVE  DriveType'
  BY <1>3, <1>15 DEF LearnTick
<1>16. ASSUME NEW seen \in {"unread", "emergency", "curve"}, NEW s \in CycleSpeeds,
              NEW o \in Outcome, NEW w \in Reach(addressed), NEW saved \in BOOLEAN,
              Cycle(seen, s, o, w, saved)
       PROVE  DriveType'
  <2>1. speed' \in Setpoints /\ speed' \in Percent
    BY <1>16 DEF Cycle, Picked
  <2>2. duty' \in [Fan -> {Unset} \cup Percent]
    BY <1>0, <1>16, <2>1 DEF Cycle
  <2>3. bmcMode' \in {"auto", "manual"} /\ addressed' = addressed
    BY <1>0, <1>16 DEF Cycle
  <2> QED BY <1>0, <2>1, <2>2, <2>3
<1>17. ASSUME NEW savedBaseline \in BOOLEAN, NEW savedState \in BOOLEAN,
              Flush(savedBaseline, savedState)
       PROVE  DriveType'
  BY <1>3, <1>17 DEF Flush
<1>18. ASSUME NEW o \in Outcome, Farewell(o)
       PROVE  DriveType'
  BY <1>1, <1>18 DEF Farewell, Forget
<1>19. CASE BmcRevertsToAuto
  BY <1>0, <1>19 DEF BmcRevertsToAuto, BmcReverts, NoSetpoint
<1> HIDE DEF DriveType, bmcVars
<1>20. CASE Scan
  BY <1>5, <1>8, <1>12, <1>13, <1>14, <1>20 DEF Scan
<1>21. CASE AgentStep
  BY <1>5, <1>6, <1>7, <1>8, <1>9, <1>10, <1>15, <1>16, <1>17, <1>18, <1>20, <1>21
  DEF AgentStep
<1> QED BY <1>5, <1>6, <1>19, <1>21 DEF Next

\* The process and its memory.
LEMMA ProcessStep == TypeOK /\ [Next]_vars => ProcessType'
<1> SUFFICES ASSUME TypeOK, [Next]_vars PROVE ProcessType'
  OBVIOUS
<1> USE DEF ProcessType, learnVars, scanVars
<1>0. /\ ProcessType
      /\ Len(ScanLevels) \in Nat \ {0} /\ 1 \in 1 .. Len(ScanLevels)
      /\ ProfileComfort \in Comforts
      /\ RestoredScanned(learned) \in BOOLEAN /\ RestoredComfort(learned) \in Comforts
  BY Constants, RestoredType DEF TypeOK
<1> HIDE DEF RestoredScanned, RestoredComfort
<1>1. CASE Forget /\ phase' = "down"
  BY <1>0, <1>1 DEF Forget
<1>2. CASE Start \/ GateOpen \/ Sigterm \/ BmcRevertsToAuto \/ UNCHANGED vars
  <2>1. CASE Start
    BY <1>0, <2>1 DEF Start
  <2>2. CASE GateOpen
    BY <1>0, <2>2 DEF GateOpen
  <2>3. CASE Sigterm
    BY <1>0, <2>3 DEF Sigterm
  <2>4. CASE BmcRevertsToAuto \/ UNCHANGED vars
    BY <1>0, <2>4 DEF BmcRevertsToAuto, vars
  <2> QED
    BY <1>2, <2>1, <2>2, <2>3, <2>4
<1>3. CASE Refuse \/ Crash
  BY <1>1, <1>3 DEF Refuse, Crash
<1>4. ASSUME NEW optOut \in BOOLEAN, Resume(optOut)
      PROVE  ProcessType'
  BY <1>0, <1>4 DEF Resume
<1>5. ASSUME NEW o \in Outcome, Engage(o) \/ Release(o)
      PROVE  ProcessType'
  BY <1>0, <1>5 DEF Engage, Release
<1>6. ASSUME NEW o \in Outcome, GateScan(o)
      PROVE  ProcessType'
  BY <1>0, <1>6 DEF GateScan
<1>7. ASSUME NEW got \in SUBSET Fan, NEW answered \in SUBSET got, Probe(got, answered)
      PROVE  ProcessType'
  BY <1>0, <1>7 DEF Probe
<1>8. ASSUME NEW saved \in BOOLEAN, NEW read \in BOOLEAN, GateSkip(saved, read)
      PROVE  ProcessType'
  BY <1>0, <1>8 DEF GateSkip, RecordScan
<1>9. ASSUME NEW next \in {"first", "fit"}, LeaveScan(next), verified' \in BOOLEAN,
             UNCHANGED <<cancelled, fanControl, learnVars>>
      PROVE  ProcessType'
  BY <1>0, <1>9 DEF LeaveScan
<1>10. ASSUME NEW w \in Reach(addressed), ScanLevel(w)
       PROVE  ProcessType'
  <2>1. CASE w.ok
    BY <1>0, <1>10, <2>1 DEF ScanLevel
  <2>2. CASE ~w.ok
    BY <1>0, <1>9, <1>10, <2>2 DEF ScanLevel
  <2> QED BY <2>1, <2>2
<1>11. ASSUME NEW w \in Reach(addressed), ScanEmergency(w)
       PROVE  ProcessType'
  BY <1>0, <1>9, <1>11 DEF ScanEmergency
<1>12. ASSUME NEW w \in Reach(addressed), NEW near \in BOOLEAN, ScanTick(w, near)
       PROVE  ProcessType'
  <2>1. CASE near
    BY <1>0, <1>9, <1>12, <2>1 DEF ScanTick
  <2>2. CASE ~near
    BY <1>0, <1>12, <2>2 DEF ScanTick
  <2> QED BY <2>1, <2>2
<1>13. CASE ScanDeadline
  <2>1. CASE level' = level + 1 /\ level < Len(ScanLevels) /\ phase' = "scan" /\ have' = FALSE
    <3>1. level' \in 1 .. Len(ScanLevels)
      BY <1>0, <2>1
    <3> QED BY <1>0, <1>13, <2>1, <3>1 DEF ScanDeadline
  <2>2. CASE LeaveScan("fit") \/ LeaveScan("first")
    BY <1>0, <1>9, <1>13, <2>2 DEF ScanDeadline
  <2> QED BY <1>13, <2>1, <2>2 DEF ScanDeadline
<1>14. CASE ScanCancelled
  BY <1>0, <1>9, <1>14 DEF ScanCancelled
<1>15. ASSUME NEW c \in Comforts, NEW saved \in BOOLEAN, ScanFit(c, saved)
       PROVE  ProcessType'
  BY <1>0, <1>15 DEF ScanFit, RecordScan
<1>16. ASSUME NEW seen \in {"unread", "emergency", "curve"}, NEW s \in CycleSpeeds,
              NEW o \in Outcome, NEW w \in Reach(addressed), NEW saved \in BOOLEAN,
              Cycle(seen, s, o, w, saved)
       PROVE  ProcessType'
  <2>1. verified' \in BOOLEAN /\ phase' \in {"loop", "learn"}
    BY <1>0, <1>16 DEF Cycle
  <2>2. UNCHANGED <<cancelled, fanControl, scanVars, learnVars>>
    BY <1>16 DEF Cycle
  <2> QED BY <1>0, <2>1, <2>2
<1>17. ASSUME NEW c \in Comforts, NEW due \in BOOLEAN, NEW saved \in BOOLEAN,
              LearnTick(c, due, saved)
       PROVE  ProcessType'
  <2>1. dirty' \in BOOLEAN /\ lost' \in BOOLEAN
    BY <1>0, <1>17 DEF LearnTick
  <2>2. comfort' \in Comforts /\ phase' = "loop"
        /\ UNCHANGED <<cancelled, fanControl, verified, scanVars, scanned>>
    BY <1>17 DEF LearnTick
  <2> QED BY <1>0, <2>1, <2>2
<1>18. ASSUME NEW savedBaseline \in BOOLEAN, NEW savedState \in BOOLEAN,
              Flush(savedBaseline, savedState)
       PROVE  ProcessType'
  BY <1>0, <1>18 DEF Flush
<1>19. ASSUME NEW o \in Outcome, Farewell(o)
       PROVE  ProcessType'
  BY <1>1, <1>19 DEF Farewell
<1> HIDE DEF ProcessType, learnVars, scanVars
<1>20. CASE Scan
  BY <1>6, <1>10, <1>11, <1>12, <1>13, <1>14, <1>15, <1>20 DEF Scan
<1>21. CASE AgentStep
  BY <1>2, <1>3, <1>4, <1>5, <1>7, <1>8, <1>16, <1>17, <1>18, <1>19, <1>20, <1>21
  DEF AgentStep
<1> QED BY <1>2, <1>3, <1>21 DEF Next

\* The files and what is remembered of the last process.
LEMMA FileStep == TypeOK /\ [Next]_vars => FileType'
<1> SUFFICES ASSUME TypeOK, [Next]_vars PROVE FileType'
  OBVIOUS
<1> USE DEF FileType, fileVars, endVars
<1>0. /\ FileType
      /\ scanned \in BOOLEAN /\ comfort \in Comforts /\ speed \in Setpoints
  BY DEF TypeOK, ProcessType, DriveType
<1>1. \A s \in BOOLEAN, c \in Comforts : Baseline(s, c) \in SavedType
  BY BaselineType
<1>2. CASE UNCHANGED <<fileVars, endVars>>
  BY <1>0, <1>2
<1>3. CASE Start \/ Refuse \/ Crash
  BY <1>0, <1>3 DEF Start, Refuse, Crash
<1>4. CASE GateOpen \/ Sigterm \/ BmcRevertsToAuto \/ ScanDeadline \/ ScanCancelled
           \/ UNCHANGED vars
  BY <1>2, <1>4 DEF GateOpen, Sigterm, BmcRevertsToAuto, ScanDeadline, ScanCancelled, vars
<1>5. ASSUME NEW optOut \in BOOLEAN, Resume(optOut)
      PROVE  FileType'
  BY <1>0, <1>5 DEF Resume
<1>6. ASSUME NEW o \in Outcome, Engage(o) \/ Release(o) \/ GateScan(o)
      PROVE  FileType'
  <2>1. CASE Release(o)
    BY <1>0, <2>1 DEF Release, Answer
  <2>2. CASE Engage(o) \/ GateScan(o)
    BY <1>2, <2>2 DEF Engage, GateScan
  <2> QED BY <1>6, <2>1, <2>2
<1>7. ASSUME NEW got \in SUBSET Fan, NEW answered \in SUBSET got, Probe(got, answered)
      PROVE  FileType'
  BY <1>2, <1>7 DEF Probe
<1>8. ASSUME NEW saved \in BOOLEAN, NEW read \in BOOLEAN, GateSkip(saved, read)
      PROVE  FileType'
  BY <1>0, <1>1, <1>8 DEF GateSkip, RecordScan
<1>9. ASSUME NEW c \in Comforts, NEW saved \in BOOLEAN, ScanFit(c, saved)
      PROVE  FileType'
  BY <1>0, <1>1, <1>9 DEF ScanFit, RecordScan
<1>10. ASSUME NEW w \in Reach(addressed), ScanLevel(w) \/ ScanEmergency(w)
       PROVE  FileType'
  BY <1>2, <1>10 DEF ScanLevel, ScanEmergency
<1>11. ASSUME NEW w \in Reach(addressed), NEW near \in BOOLEAN, ScanTick(w, near)
       PROVE  FileType'
  BY <1>2, <1>11 DEF ScanTick
<1>12. ASSUME NEW seen \in {"unread", "emergency", "curve"}, NEW s \in CycleSpeeds,
              NEW o \in Outcome, NEW w \in Reach(addressed), NEW saved \in BOOLEAN,
              Cycle(seen, s, o, w, saved)
       PROVE  FileType'
  <2>1. speed' \in Setpoints
    BY <1>12, Constants DEF Cycle, Picked
  <2> QED BY <1>0, <1>12, <2>1 DEF Cycle, SavedSpeed
<1>13. ASSUME NEW c \in Comforts, NEW due \in BOOLEAN, NEW saved \in BOOLEAN,
              LearnTick(c, due, saved)
       PROVE  FileType'
  BY <1>0, <1>1, <1>13 DEF LearnTick, Checkpoint
<1>14. ASSUME NEW savedBaseline \in BOOLEAN, NEW savedState \in BOOLEAN,
              Flush(savedBaseline, savedState)
       PROVE  FileType'
  BY <1>0, <1>1, <1>14 DEF Flush, SavedSpeed, Checkpoint
<1>15. ASSUME NEW o \in Outcome, Farewell(o)
       PROVE  FileType'
  BY <1>0, <1>15 DEF Farewell, Answer
<1> HIDE DEF FileType, fileVars, endVars
<1>16. CASE Scan
  BY <1>4, <1>6, <1>9, <1>10, <1>11, <1>16 DEF Scan
<1>17. CASE AgentStep
  BY <1>3, <1>4, <1>5, <1>6, <1>7, <1>8, <1>12, <1>13, <1>14, <1>15, <1>16, <1>17
  DEF AgentStep
<1> QED BY <1>3, <1>4, <1>17 DEF Next

\* Every reachable state of the agent, its files and the BMC is well typed.
THEOREM TypeCorrect == Spec => []TypeOK
<1>1. TypeOK /\ [Next]_vars => TypeOK'
  BY DriveStep, ProcessStep, FileStep DEF TypeOK
<1> QED BY <1>1, TypeInit, PTL DEF Spec

-----------------------------------------------------------------------------
(***************************************************************************)
(* The life of a process.  Life is the conjunction of what its properties  *)
(* need to be inductive; most steps leave most of it alone.                *)
(***************************************************************************)
LEMMA LifeInit == Init => Life
  BY DEF Init, Life, ManualIsAccountedFor, UnsavedIsDirty, InLoop

\* Forgetting on the way down leaves little for Life to say.
LEMMA DownLife ==
  ASSUME phase' = "down", ~lost', ManualIsAccountedFor'
  PROVE  Life'
  BY DEF Life, UnsavedIsDirty, InLoop

\* Whoever put the BMC in manual mode, or left it there, is accounted for.  The
\* agent takes the fans over only where it has fan control; it gives that up in
\* Release, whose handback is obeyed, missed, or swallowed by the signal; and a
\* process ends by Refuse, Crash or Farewell.
LEMMA ManualStep == TypeOK /\ Life /\ [Next]_vars => ManualIsAccountedFor'
<1> SUFFICES ASSUME TypeOK, Life, [Next]_vars PROVE ManualIsAccountedFor'
  OBVIOUS
<1>0. /\ ManualIsAccountedFor
      /\ phase \in {"engage", "probe", "scan", "dwell", "fit"} => fanControl
  BY DEF Life
<1> USE DEF ManualIsAccountedFor
<1>1. ASSUME bmcMode' = "manual" => bmcMode = "manual", UNCHANGED <<fanControl, endVars>>,
             cancelled => cancelled', phase # "down", phase' # "down",
             phase \in {"starting", "release"} => phase' = phase
      PROVE  ManualIsAccountedFor'
  BY <1>0, <1>1 DEF endVars
<1>2. ASSUME fanControl', phase' # "down"
      PROVE  ManualIsAccountedFor'
  BY <1>2
<1>3. CASE Start
  BY <1>3 DEF Start
<1>4. CASE Refuse \/ Crash
  BY <1>4 DEF Refuse, Crash
<1>5. CASE UNCHANGED vars
  BY <1>0, <1>5 DEF vars
<1>6. CASE BmcRevertsToAuto
  BY <1>6 DEF BmcRevertsToAuto, BmcReverts
<1>7. CASE Sigterm
  BY <1>0, <1>7 DEF Sigterm, endVars, bmcVars
<1>8. ASSUME NEW optOut \in BOOLEAN, Resume(optOut)
      PROVE  ManualIsAccountedFor'
  BY <1>8 DEF Resume
<1>9. ASSUME NEW o \in Outcome, Engage(o) \/ GateScan(o)
      PROVE  ManualIsAccountedFor'
  BY <1>0, <1>9 DEF Engage, GateScan
<1>10. ASSUME NEW o \in Outcome, Release(o)
       PROVE  ManualIsAccountedFor'
  BY <1>10 DEF Release, HandbackAuto, Answer
<1>11. ASSUME NEW o \in Outcome, Farewell(o)
       PROVE  ManualIsAccountedFor'
  BY <1>11 DEF Farewell, HandbackAuto, Answer
<1>12. ASSUME NEW got \in SUBSET Fan, NEW answered \in SUBSET got, Probe(got, answered)
       PROVE  ManualIsAccountedFor'
  BY <1>0, <1>12 DEF Probe
<1>13. CASE GateOpen
  BY <1>1, <1>13 DEF GateOpen, bmcVars
<1>14. ASSUME NEW saved \in BOOLEAN, NEW read \in BOOLEAN, GateSkip(saved, read)
       PROVE  ManualIsAccountedFor'
  BY <1>1, <1>14 DEF GateSkip, bmcVars
<1>15. ASSUME NEW w \in Reach(addressed), ScanLevel(w) \/ ScanEmergency(w)
       PROVE  ManualIsAccountedFor'
  BY <1>0, <1>2, <1>15 DEF ScanLevel, ScanEmergency, LeaveScan
<1>16. ASSUME NEW w \in Reach(addressed), NEW near \in BOOLEAN, ScanTick(w, near)
       PROVE  ManualIsAccountedFor'
  BY <1>0, <1>2, <1>16 DEF ScanTick, LeaveScan
<1>17. CASE ScanDeadline \/ ScanCancelled
  BY <1>0, <1>2, <1>17 DEF ScanDeadline, ScanCancelled, LeaveScan
<1>18. ASSUME NEW c \in Comforts, NEW saved \in BOOLEAN, ScanFit(c, saved)
       PROVE  ManualIsAccountedFor'
  BY <1>0, <1>2, <1>18 DEF ScanFit
<1>19. ASSUME NEW seen \in {"unread", "emergency", "curve"}, NEW s \in CycleSpeeds,
              NEW o \in Outcome, NEW w \in Reach(addressed), NEW saved \in BOOLEAN,
              Cycle(seen, s, o, w, saved)
       PROVE  ManualIsAccountedFor'
  <2>1. /\ phase \in {"first", "loop"} /\ phase' \in {"loop", "learn"}
        /\ UNCHANGED <<cancelled, fanControl, endVars>>
        /\ bmcMode' = IF TakesOver(o) THEN "manual" ELSE bmcMode
    BY <1>19 DEF Cycle
  <2> QED BY <1>1, <1>2, <2>1 DEF TakesOver
<1>20. ASSUME NEW c \in Comforts, NEW due \in BOOLEAN, NEW saved \in BOOLEAN,
              LearnTick(c, due, saved)
       PROVE  ManualIsAccountedFor'
  BY <1>1, <1>20 DEF LearnTick, bmcVars
<1>21. ASSUME NEW savedBaseline \in BOOLEAN, NEW savedState \in BOOLEAN,
              Flush(savedBaseline, savedState)
       PROVE  ManualIsAccountedFor'
  BY <1>1, <1>21 DEF Flush, bmcVars
<1> HIDE DEF ManualIsAccountedFor
<1>22. CASE Scan
  BY <1>9, <1>15, <1>16, <1>17, <1>18, <1>22 DEF Scan
<1>23. CASE AgentStep
  BY <1>4, <1>8, <1>9, <1>10, <1>11, <1>12, <1>13, <1>14, <1>19, <1>20, <1>21, <1>22, <1>23
  DEF AgentStep
<1> QED BY <1>3, <1>4, <1>5, <1>6, <1>7, <1>23 DEF Next

LEMMA LifeStep == TypeOK /\ Life /\ [Next]_vars => Life'
<1> SUFFICES ASSUME TypeOK, Life, [Next]_vars PROVE Life'
  OBVIOUS
<1>0. ManualIsAccountedFor'
  BY ManualStep
<1> USE <1>0 DEF Life, UnsavedIsDirty, InLoop
<1>1. CASE Start \/ Sigterm \/ UNCHANGED vars
  BY <1>1 DEF Start, Sigterm, vars, bmcVars, scanVars, learnVars, fileVars
<1>2. CASE Refuse \/ Crash
  BY <1>2, DownLife DEF Refuse, Crash, Forget
<1>3. CASE BmcRevertsToAuto
  BY <1>3 DEF BmcRevertsToAuto, BmcReverts, scanVars, learnVars, fileVars
<1>4. ASSUME NEW optOut \in BOOLEAN, Resume(optOut)
      PROVE  Life'
  <2>1. RestoredComfort(learned') = comfort' /\ RestoredScanned(learned') = scanned'
    <3>1. CASE learned = Stale /\ learned' = Absent
      <4>1. scanned' = RestoredScanned(Stale) /\ comfort' = RestoredComfort(Stale)
        BY <1>4, <3>1 DEF Resume
      <4> QED BY <3>1, <4>1, StaleRestores
    <3>2. CASE learned' = learned
      BY <1>4, <3>2 DEF Resume
    <3> QED BY <1>4, <3>1, <3>2 DEF Resume
  <2>2. speed' >= Smaller(SafeStartFan, MaxFan)
    BY <1>4, Constants, StartSpeedRange DEF Resume, TypeOK, FileType
  <2>3. ~lost' /\ phase' \in {"release", "engage"} /\ (phase' = "engage" => fanControl')
    BY <1>4, Zenon DEF Resume
  <2> QED BY <2>1, <2>2, <2>3
<1>5. ASSUME NEW o \in Outcome, Engage(o) \/ Release(o)
      PROVE  Life'
  BY <1>5 DEF Engage, Release, scanVars, learnVars, fileVars
<1>6. ASSUME NEW got \in SUBSET Fan, NEW answered \in SUBSET got, Probe(got, answered)
      PROVE  Life'
  BY <1>6 DEF Probe, scanVars, learnVars, fileVars
<1>7. ASSUME NEW o \in Outcome, GateScan(o)
      PROVE  Life'
  BY <1>7 DEF GateScan, learnVars, fileVars
<1>8. CASE GateOpen
  BY <1>8 DEF GateOpen, learnVars, fileVars
<1>9. ASSUME NEW c \in Comforts, NEW saved \in BOOLEAN, RecordScan(c, saved)
      PROVE  /\ scanned' = TRUE
             /\ ~lost' => comfort' = RestoredComfort(learned')
  BY <1>9, BaselineType DEF RecordScan
<1>10. ASSUME NEW saved \in BOOLEAN, NEW read \in BOOLEAN, GateSkip(saved, read)
       PROVE  Life'
  BY <1>9, <1>10 DEF GateSkip, TypeOK, ProcessType
<1>11. ASSUME NEW c \in Comforts, NEW saved \in BOOLEAN, ScanFit(c, saved)
       PROVE  Life'
  BY <1>9, <1>11 DEF ScanFit
<1>12. ASSUME NEW w \in Reach(addressed), ScanLevel(w) \/ ScanEmergency(w)
       PROVE  Life'
  BY <1>12 DEF ScanLevel, ScanEmergency, LeaveScan, learnVars, fileVars
<1>13. ASSUME NEW w \in Reach(addressed), NEW near \in BOOLEAN, ScanTick(w, near)
       PROVE  Life'
  BY <1>13 DEF ScanTick, LeaveScan, learnVars, fileVars
<1>14. CASE ScanDeadline \/ ScanCancelled
  BY <1>14 DEF ScanDeadline, ScanCancelled, LeaveScan, learnVars, fileVars
<1>15. ASSUME NEW seen \in {"unread", "emergency", "curve"}, NEW s \in CycleSpeeds,
              NEW o \in Outcome, NEW w \in Reach(addressed), NEW saved \in BOOLEAN,
              Cycle(seen, s, o, w, saved)
       PROVE  Life'
  <2>1. /\ phase \in {"first", "loop"} /\ phase' \in {"loop", "learn"}
        /\ UNCHANGED <<learned, scanned, comfort, dirty, lost>>
    BY <1>15 DEF Cycle, learnVars
  <2> QED BY <2>1
<1>16. ASSUME NEW c \in Comforts, NEW due \in BOOLEAN, NEW saved \in BOOLEAN,
              LearnTick(c, due, saved)
       PROVE  Life'
  <2>1. /\ phase = "learn" /\ phase' = "loop" /\ scanned' = scanned /\ comfort' = c
        /\ dirty' = (Changed(c) /\ ~(due /\ saved))
    BY <1>16 DEF LearnTick
  <2>2. CASE Changed(c) /\ due /\ saved
    <3>1. learned' = Baseline(scanned, c)
      BY <1>16, <2>2 DEF LearnTick, Checkpoint
    <3>2. RestoredComfort(learned') = comfort' /\ RestoredScanned(learned') = scanned'
      BY <2>1, <3>1, BaselineType DEF TypeOK, ProcessType
    <3> QED BY <2>1, <3>2
  <2>3. CASE ~(Changed(c) /\ due /\ saved)
    <3>1. UNCHANGED <<learned, lost>>
      BY <1>16, <2>3 DEF LearnTick
    <3> QED BY <2>1, <2>3, <3>1 DEF Changed
  <2> QED BY <2>2, <2>3
<1>17. ASSUME NEW savedBaseline \in BOOLEAN, NEW savedState \in BOOLEAN,
              Flush(savedBaseline, savedState)
       PROVE  Life'
  <2>1. RestoredScanned(learned') => scanned'
    BY <1>17, BaselineType DEF Flush, Checkpoint, learnVars, TypeOK, ProcessType
  <2>2. phase' = "farewell"
    BY <1>17 DEF Flush
  <2> QED BY <2>1, <2>2
<1>18. ASSUME NEW o \in Outcome, Farewell(o)
       PROVE  Life'
  BY <1>18, DownLife DEF Farewell, Forget
<1> HIDE DEF Life, UnsavedIsDirty, InLoop
<1>19. CASE Scan
  BY <1>7, <1>11, <1>12, <1>13, <1>14, <1>19 DEF Scan
<1>20. CASE AgentStep
  BY <1>2, <1>4, <1>5, <1>6, <1>8, <1>10, <1>15, <1>16, <1>17, <1>18, <1>19, <1>20
  DEF AgentStep
<1> QED BY <1>1, <1>2, <1>3, <1>20 DEF Next

LEMMA LifeInvariant == Spec => [](TypeOK /\ Life)
<1>1. Spec => []Life
  BY LifeInit, LifeStep, TypeCorrect, PTL DEF Spec
<1> QED BY <1>1, TypeCorrect, PTL

-----------------------------------------------------------------------------
(***************************************************************************)
(* The properties.                                                         *)
(***************************************************************************)

\* The BMC is in manual mode without a process that uses it only if a handback
\* sent to it had no effect, or the process before was killed or refused to
\* start, or a process that was just told to stop has its handback still to send:
\* whatever the crashes, signals, failed probes and opt-outs of however many
\* processes before.
THEOREM ManualHasACause == Spec => []ManualIsAccountedFor
<1>1. Life => ManualIsAccountedFor
  BY DEF Life
<1> QED BY <1>1, LifeInvariant, PTL

\* A ramp start a restart would not resume is marked for saving, but for the
\* ramp of a scan whose own save failed, until a checkpoint succeeds.
THEOREM NothingLearnedIsForgotten == Spec => []UnsavedIsDirty
<1>1. Life => UnsavedIsDirty
  BY DEF Life
<1> QED BY <1>1, LifeInvariant, PTL

\* Before the first reading of this process no fan is told less than the floor.
THEOREM EngagesFromTheSafeSide == Spec => SafeSide
<1> DEFINE A == \A f \in Fan : duty'[f] \notin {duty[f], Unset} /\ ~verified'
                    => duty'[f] >= Smaller(SafeStartFan, MaxFan)
<1>1. ASSUME TypeOK, Life, [Next]_vars, NEW f \in Fan,
             duty'[f] \notin {duty[f], Unset}, ~verified'
      PROVE  duty'[f] >= Smaller(SafeStartFan, MaxFan)
  <2> DEFINE floor == Smaller(SafeStartFan, MaxFan)
  <2>0. floor \in Nat /\ floor <= 100
    BY LifeAssumption DEF Smaller
  <2> HIDE DEF floor
  <2>1. NoSetpoint[f] = Unset
    BY DEF NoSetpoint
  <2>2. CASE UNCHANGED duty
    BY <1>1, <2>2
  <2>3. CASE duty' = NoSetpoint
    BY <1>1, <2>1, <2>3
  <2>4. ASSUME NEW got \in SUBSET Fan, NEW answered \in SUBSET got, Probe(got, answered)
        PROVE  duty'[f] >= floor
    <3>1. speed \in Nat /\ speed >= floor /\ WirePct(speed) = speed
      BY <1>1, <2>4, Constants DEF Probe, Life, TypeOK, DriveType, WirePct, floor
    <3>2. CASE duty' = [g \in Fan |-> IF g \in got THEN WirePct(speed) ELSE duty[g]]
      <4>1. duty'[f] = WirePct(speed)
        BY <1>1, <3>2
      <4> QED BY <2>0, <3>1, <4>1
    <3>3. UNCHANGED duty
          \/ duty' = [g \in Fan |-> IF g \in got THEN WirePct(speed) ELSE duty[g]]
      BY <2>4, Zenon DEF Probe, SetSelector
    <3> QED BY <2>2, <3>2, <3>3, Zenon DEF floor
  <2>5. ASSUME NEW seen \in {"unread", "emergency", "curve"}, NEW s \in CycleSpeeds,
               NEW o \in Outcome, NEW w \in Reach(addressed), NEW saved \in BOOLEAN,
               Cycle(seen, s, o, w, saved)
        PROVE  duty'[f] >= floor
    <3>1. speed' = 100
      BY <1>1, <2>5 DEF Cycle, Picked
    <3>2. CASE duty' = [g \in Fan |-> IF g \in w.got THEN speed' ELSE duty[g]]
      <4>1. duty'[f] = 100
        BY <1>1, <3>1, <3>2
      <4> QED BY <2>0, <4>1
    <3>3. UNCHANGED duty
          \/ duty' = [g \in Fan |-> IF g \in w.got THEN speed' ELSE duty[g]]
      BY <2>5, Zenon DEF Cycle
    <3> QED BY <2>2, <3>2, <3>3, Zenon DEF floor
  <2>6. ASSUME NEW o \in Outcome, Engage(o) \/ Release(o) \/ Farewell(o)
        PROVE  duty' = NoSetpoint \/ UNCHANGED duty
    BY <2>6 DEF Engage, Release, Farewell, EngageManual, HandbackAuto
  <2>7. CASE Scan
    <3>1. verified' \/ UNCHANGED bmcVars
      BY <1>1, <2>7 DEF Scan, GateScan, ScanLevel, ScanEmergency, ScanTick, ScanDeadline,
                        ScanCancelled, ScanFit, Life
    <3> QED BY <1>1, <2>2, <3>1 DEF bmcVars
  <2> QED
    BY <1>1, <2>2, <2>3, <2>4, <2>5, <2>6, <2>7
    DEF Next, AgentStep, Start, Refuse, Resume, GateOpen, GateSkip, LearnTick, Flush,
        Sigterm, Crash, BmcRevertsToAuto, BmcReverts, bmcVars, vars, floor
<1>2. TypeOK /\ Life /\ [Next]_vars => [A]_vars
  BY <1>1
<1> QED BY <1>2, LifeInvariant, PTL DEF Spec, SafeSide

\* A process that gave up fan control only ever gives fans back.
THEOREM HandsOff == Spec => MonitorOnlyIsHandsOff
<1> DEFINE P == phase \in {"gate", "first", "loop", "learn", "scan", "dwell", "fit",
                           "farewell"} /\ ~fanControl
           Q == bmcMode' \in {bmcMode, "auto"} /\ duty' \in {duty, NoSetpoint}
<1>1. ASSUME Life, [Next]_vars, P
      PROVE  Q
  <2>1. CASE UNCHANGED bmcVars
    BY <2>1 DEF bmcVars
  <2>2. ASSUME NEW o, HandbackAuto(o)
        PROVE  Q
    BY <2>2 DEF HandbackAuto
  <2>3. ~Scan \/ UNCHANGED bmcVars
    BY <1>1 DEF Scan, GateScan, ScanLevel, ScanEmergency, ScanTick, ScanDeadline,
                ScanCancelled, ScanFit, Life
  <2>4. ASSUME NEW seen \in {"unread", "emergency", "curve"}, NEW s \in CycleSpeeds,
               NEW o \in Outcome, NEW w \in Reach(addressed), NEW saved \in BOOLEAN,
               Cycle(seen, s, o, w, saved)
        PROVE  Q
    BY <1>1, <2>4 DEF Cycle, TakesOver
  <2>5. CASE BmcRevertsToAuto
    BY <2>5 DEF BmcRevertsToAuto, BmcReverts
  <2> QED
    BY <1>1, <2>1, <2>2, <2>3, <2>4, <2>5
    DEF Next, AgentStep, Start, Refuse, Resume, Engage, Release, Probe, Farewell, GateOpen,
        GateSkip, LearnTick, Flush, Sigterm, Crash, vars, bmcVars
<1>2. Life /\ [Next]_vars => [P => Q]_vars
  BY <1>1
<1> QED BY <1>2, LifeInvariant, PTL DEF Spec, MonitorOnlyIsHandsOff

-----------------------------------------------------------------------------
(***************************************************************************)
(* The agent implements BoxRecord.  A step either leaves what is on file   *)
(* and what is in use as they are, or is a start, a scan, a move of the    *)
(* ramp (possibly to where it is) or an end.                               *)
(***************************************************************************)
OnFile == [scanned |-> RestoredScanned(learned), ramp |-> RestoredComfort(learned)]
InUse  == [scanned |-> scanned, ramp |-> comfort]
There  == phase \notin {"down", "starting"}

\* What saving a record puts on file.
LEMMA SavedRecord ==
  ASSUME NEW s \in BOOLEAN, NEW c \in Comforts, learned' = Baseline(s, c)
  PROVE  OnFile' = [scanned |-> s, ramp |-> c]
BY BaselineType DEF OnFile

LEMMA RecordInit == Init => Remembers!Init
<1> SUFFICES ASSUME Init PROVE Remembers!Init
  OBVIOUS
<1>1. OnFile = [scanned |-> FALSE, ramp |-> ProfileComfort]
  <2>1. learned = Absent \/ learned = Stale
    BY DEF Init
  <2>2. RestoredScanned(Absent) = FALSE /\ RestoredComfort(Absent) = ProfileComfort
    BY DEF RestoredScanned, RestoredComfort, Current, Absent
  <2> QED BY <2>1, <2>2, StaleRestores DEF OnFile
<1>2. InUse \in Remembers!Record
  BY LifeAssumption DEF Init, InUse, Remembers!Record
<1>3. ~There
  BY DEF Init, There
<1> QED BY <1>1, <1>2, <1>3 DEF Remembers!Init, OnFile, InUse, There

LEMMA RecordScanned ==
  ASSUME There, There', ~scanned, NEW c \in Comforts, NEW saved \in BOOLEAN,
         RecordScan(c, saved)
  PROVE  Remembers!Scan
<1>1. InUse' = [scanned |-> TRUE, ramp |-> c]
  BY DEF RecordScan, InUse
<1>2. OnFile' \in {OnFile, InUse'}
  <2>1. CASE saved
    BY <1>1, <2>1, SavedRecord DEF RecordScan
  <2>2. CASE ~saved
    BY <2>2 DEF RecordScan, OnFile
  <2> QED BY <2>1, <2>2
<1>3. ~InUse.scanned
  BY DEF InUse
<1> QED BY <1>1, <1>2, <1>3 DEF Remembers!Scan, Remembers!MaySave, There, InUse, OnFile

LEMMA RecordLearned ==
  ASSUME There, There', UNCHANGED scanned, NEW c \in Comforts, comfort' = c,
         OnFile' \in {OnFile, InUse'}
  PROVE  Remembers!Learn
<1>1. InUse' = [scanned |-> InUse.scanned, ramp |-> c]
  BY DEF InUse
<1> QED BY <1>1 DEF Remembers!Learn, Remembers!MaySave, There, InUse, OnFile

LEMMA RecordGone ==
  ASSUME ~There', UNCHANGED OnFile, InUse' \in Remembers!Record
  PROVE  Remembers!Go
BY DEF Remembers!Go, There, InUse, OnFile, Remembers!Record

LEMMA RecordStays ==
  ASSUME There' = There, UNCHANGED <<scanned, comfort>>, UNCHANGED OnFile
  PROVE  UNCHANGED Remembers!vars
<1>1. UNCHANGED InUse
  BY DEF InUse
<1> QED BY <1>1 DEF Remembers!vars, There, InUse, OnFile

\* A start resumes what is on file; an older file, removed or not, counts as none.
LEMMA RecordLoaded ==
  ASSUME NEW optOut \in BOOLEAN, Resume(optOut)
  PROVE  Remembers!Load
<1>1. ~There /\ There'
  BY DEF Resume, There
<1>2. UNCHANGED OnFile
  BY StaleRestores DEF Resume, OnFile
<1>3. InUse' = OnFile
  BY DEF Resume, InUse, OnFile
<1> QED BY <1>1, <1>2, <1>3 DEF Remembers!Load, There, InUse, OnFile

LEMMA RecordStep ==
  ASSUME TypeOK, TypeOK', Life, [Next]_vars
  PROVE  [Remembers!Next]_Remembers!vars
<1>1. /\ scanned \in BOOLEAN /\ comfort \in Comforts /\ comfort' \in Comforts
      /\ InUse' \in Remembers!Record
  <2>1. InUse' \in Remembers!Record
    BY DEF TypeOK, ProcessType, InUse, Remembers!Record
  <2> QED BY <2>1 DEF TypeOK, ProcessType
<1>2. ASSUME UNCHANGED <<scanned, comfort, learned>>, There' = There
      PROVE  UNCHANGED Remembers!vars
  BY <1>2, RecordStays DEF OnFile
<1>3. ASSUME UNCHANGED learned, ~There'
      PROVE  Remembers!Go
  BY <1>1, <1>3, RecordGone DEF OnFile
<1>4. ASSUME NEW optOut \in BOOLEAN, Resume(optOut)
      PROVE  Remembers!Next
  BY <1>4, RecordLoaded DEF Remembers!Next
<1>5. ASSUME NEW saved \in BOOLEAN, NEW read \in BOOLEAN, GateSkip(saved, read)
      PROVE  Remembers!Next
  <2>1. There /\ There' /\ ~scanned /\ RecordScan(comfort, saved)
    BY <1>5 DEF GateSkip, There
  <2> QED BY <1>1, <2>1, RecordScanned DEF Remembers!Next
<1>6. ASSUME NEW c \in Comforts, NEW saved \in BOOLEAN, ScanFit(c, saved)
      PROVE  Remembers!Next
  <2>1. There /\ There' /\ ~scanned /\ RecordScan(c, saved)
    BY <1>6 DEF ScanFit, There, Life
  <2> QED BY <2>1, RecordScanned DEF Remembers!Next
<1>7. ASSUME NEW c \in Comforts, NEW due \in BOOLEAN, NEW saved \in BOOLEAN,
             LearnTick(c, due, saved)
      PROVE  Remembers!Next
  <2>1. There /\ There' /\ UNCHANGED scanned /\ comfort' = c
    BY <1>7 DEF LearnTick, There
  <2>2. CASE learned' = Baseline(scanned, c)
    <3>1. OnFile' = InUse'
      BY <1>1, <2>1, <2>2, SavedRecord DEF InUse
    <3> QED BY <2>1, <3>1, RecordLearned DEF Remembers!Next
  <2>3. CASE UNCHANGED learned
    <3>1. OnFile' = OnFile
      BY <2>3 DEF OnFile
    <3> QED BY <2>1, <3>1, RecordLearned DEF Remembers!Next
  <2> QED BY <1>7, <2>2, <2>3 DEF LearnTick, Checkpoint
<1>8. ASSUME NEW savedBaseline \in BOOLEAN, NEW savedState \in BOOLEAN,
             Flush(savedBaseline, savedState)
      PROVE  Remembers!Next
  <2>1. There /\ There' /\ UNCHANGED <<scanned, comfort>>
    BY <1>8 DEF Flush, There, learnVars
  <2>2. OnFile' \in {OnFile, InUse'}
    <3>1. CASE learned' = Baseline(scanned, comfort)
      BY <1>1, <2>1, <3>1, SavedRecord DEF InUse
    <3>2. CASE UNCHANGED learned
      BY <3>2 DEF OnFile
    <3> QED BY <1>8, <3>1, <3>2 DEF Flush, Checkpoint
  <2> QED BY <1>1, <2>1, <2>2, RecordLearned DEF Remembers!Next
<1>9. CASE Refuse \/ Crash \/ \E o \in Outcome : Farewell(o)
  <2>1. UNCHANGED learned /\ ~There'
    BY <1>9 DEF Refuse, Crash, Farewell, fileVars, There
  <2> QED BY <1>3, <2>1 DEF Remembers!Next
<1>10. CASE Start
  BY <1>2, <1>10 DEF Start, learnVars, fileVars, There
<1>11. ASSUME NEW o \in Outcome, Engage(o) \/ Release(o) \/ GateScan(o)
       PROVE  UNCHANGED Remembers!vars
  BY <1>2, <1>11 DEF Engage, Release, GateScan, learnVars, fileVars, There
<1>12. ASSUME NEW got \in SUBSET Fan, NEW answered \in SUBSET got, Probe(got, answered)
       PROVE  UNCHANGED Remembers!vars
  BY <1>2, <1>12 DEF Probe, learnVars, fileVars, There
<1>13. CASE GateOpen
  BY <1>2, <1>13 DEF GateOpen, learnVars, fileVars, There
<1>14. ASSUME NEW w \in Reach(addressed), ScanLevel(w) \/ ScanEmergency(w)
       PROVE  UNCHANGED Remembers!vars
  BY <1>2, <1>14 DEF ScanLevel, ScanEmergency, LeaveScan, learnVars, fileVars, There
<1>15. ASSUME NEW w \in Reach(addressed), NEW near \in BOOLEAN, ScanTick(w, near)
       PROVE  UNCHANGED Remembers!vars
  BY <1>2, <1>15 DEF ScanTick, LeaveScan, learnVars, fileVars, There
<1>16. CASE ScanDeadline \/ ScanCancelled
  BY <1>2, <1>16 DEF ScanDeadline, ScanCancelled, LeaveScan, learnVars, fileVars, There
<1>17. ASSUME NEW seen \in {"unread", "emergency", "curve"}, NEW s \in CycleSpeeds,
              NEW o \in Outcome, NEW w \in Reach(addressed), NEW saved \in BOOLEAN,
              Cycle(seen, s, o, w, saved)
       PROVE  UNCHANGED Remembers!vars
  <2>1. There' = There /\ UNCHANGED <<scanned, comfort, learned>>
    BY <1>17 DEF Cycle, learnVars, There
  <2> QED BY <1>2, <2>1
<1>18. CASE Sigterm \/ BmcRevertsToAuto \/ UNCHANGED vars
  BY <1>2, <1>18 DEF Sigterm, BmcRevertsToAuto, learnVars, fileVars, vars, There
<1> DEFINE Mapped == [Remembers!Next]_Remembers!vars
<1>19. Mapped <=> Remembers!Next \/ UNCHANGED Remembers!vars
  OBVIOUS
<1> HIDE DEF Mapped
<1>20. CASE Scan
  BY <1>6, <1>11, <1>14, <1>15, <1>16, <1>19, <1>20 DEF Scan
<1>21. CASE AgentStep
  BY <1>4, <1>5, <1>7, <1>8, <1>9, <1>11, <1>12, <1>13, <1>17, <1>19, <1>20, <1>21
  DEF AgentStep
<1>22. Mapped
  BY <1>9, <1>10, <1>18, <1>19, <1>21 DEF Next
<1> QED BY <1>22 DEF Mapped

\* Whatever ends a process and whichever saves fail, the agent keeps the record
\* of its box as BoxRecord promises.
THEOREM ImplementsRecord == Spec => KeepsRecord
<1>1. TypeOK /\ TypeOK' /\ Life /\ [Next]_vars => [Remembers!Next]_Remembers!vars
  BY RecordStep
<1> QED BY <1>1, RecordInit, LifeInvariant, PTL DEF Spec, KeepsRecord, Remembers!Spec

-----------------------------------------------------------------------------
(***************************************************************************)
(* What follows from the promise alone: the record in use was on file, or  *)
(* is of a later scan, so that no save takes a scan back.                  *)
(***************************************************************************)
Kept ==
  /\ InUse.scanned \in BOOLEAN /\ OnFile.scanned \in BOOLEAN
  /\ There /\ OnFile.scanned => InUse.scanned

LEMMA KeptInit == Remembers!Init => Kept
BY DEF Remembers!Init, Remembers!Record, Kept, There, InUse, OnFile

LEMMA KeptStep ==
  ASSUME Kept, [Remembers!Next]_Remembers!vars
  PROVE  Kept' /\ (OnFile.scanned => OnFile'.scanned)
<1>1. CASE UNCHANGED Remembers!vars
  BY <1>1 DEF Remembers!vars, Kept, There, InUse, OnFile
<1>2. CASE Remembers!Load
  BY <1>2 DEF Remembers!Load, Kept, There, InUse, OnFile
<1>3. CASE Remembers!Scan
  BY <1>3 DEF Remembers!Scan, Remembers!MaySave, Kept, There, InUse, OnFile
<1>4. CASE Remembers!Learn
  BY <1>4 DEF Remembers!Learn, Remembers!MaySave, Kept, There, InUse, OnFile
<1>5. CASE Remembers!Go
  BY <1>5 DEF Remembers!Go, Remembers!Record, Kept, There, InUse, OnFile
<1> QED BY <1>1, <1>2, <1>3, <1>4, <1>5 DEF Remembers!Next

\* The scan is a one-time event: once learned.json says so, no checkpoint,
\* crash, restart or signal takes it back.  Of the agent only its promise is
\* used.
THEOREM ScanIsOneTime == Spec => Remembers!ScannedForGood
<1>1. Remembers!Spec => Remembers!ScannedForGood
  <2>1. Kept /\ [Remembers!Next]_Remembers!vars => Kept'
    BY KeptStep
  <2>2. Kept /\ [Remembers!Next]_Remembers!vars
          => [OnFile.scanned => OnFile'.scanned]_Remembers!vars
    BY KeptStep
  <2> QED BY KeptInit, <2>1, <2>2, PTL DEF Remembers!Spec, Remembers!ScannedForGood, OnFile
<1> QED BY <1>1, ImplementsRecord, PTL DEF KeepsRecord
=============================================================================
