------------------------------ MODULE Sensing ------------------------------
(***************************************************************************)
(* How long a reading takes and how old it is: the compositeReader of      *)
(* main.go over internal/sensors (CPU with its fallback, GPU, SMART with   *)
(* its cache), the deadlines of internal/runner and runCycle around it,    *)
(* and its three callers, the scan gate, the box scan and the cycle.       *)
(*                                                                         *)
(*   wait --Begin--> cpu --> gpu --> smart --+--> done ---> wait           *)
(*    ^               |                      +--> drive, drive --> done    *)
(*    |               +--> failed                                          *)
(*    +---- test <-------- done, failed     (a scan's, after its re-assert)*)
(*                                                                         *)
(* Time is counted in ticks of the control interval (15 s).  A command     *)
(* that reads and answers, or fails, takes no time; one that hangs takes   *)
(* its timeout or what is left of the caller's deadline.  The fan writes   *)
(* of a SetFan take any time up to WriteTime, and a hung BMC lets the      *)
(* EngageManual of a cycle run into its timeout.                           *)
(***************************************************************************)
EXTENDS Integers, Sequences, FiniteSets

CONSTANTS
  Drives,           \* the drives, in the order smartctl --scan lists them
  Rotating,         \* those of them that are hard disks
  Moods,            \* per source, the conditions it may be in
  CommandTimeout,   \* runner.Exec's 30 s
  CycleBudget,      \* runCycle's 60 s
  ReadInterval,     \* the 60 s a round of drive readings is kept
  WriteTime,        \* the longest a SetFan can take: a timeout for each fan
                    \* addressed on its own
  Dwell,            \* SCAN_DWELL_MINUTES
  Levels            \* the number of scan levels

Drive  == {Drives[i] : i \in DOMAIN Drives}
Source == {"coretemp", "sdr", "smi"} \cup Drive

\* Three answers (far from, near and at the emergency temperature of the class)
\* and two ways of giving none: at once (asleep, pulled, unreadable), or never.
Mood == {"cool", "warm", "hot", "silent", "hung"}

Interval == 1

\* A deadline no sequence of commands can reach: the gate and the scan read
\* under the context of the process.
Unbounded == CommandTimeout * (Len(Drives) + 2)

\* Longer than any round, and than any reading stays in the cache: ages and
\* dwells from here on are one.
Cap == Dwell + Unbounded

ASSUME SensingAssumption ==
  /\ Drives \in Seq(STRING) /\ Len(Drives) > 0
  /\ Drive \cap {"coretemp", "sdr", "smi"} = {}
  /\ Rotating \subseteq Drive
  /\ Moods \in [Source -> (SUBSET Mood) \ {{}}]
  /\ "hung" \notin Moods["coretemp"]      \* a file read
  /\ CommandTimeout \in Nat \ {0} /\ CycleBudget \in Nat \ {0}
  /\ CommandTimeout < CycleBudget /\ CycleBudget <= Unbounded
  /\ ReadInterval \in Nat \ {0}
  /\ WriteTime \in Nat
  /\ Dwell \in Nat /\ Dwell >= ReadInterval        \* at least one minute
  /\ Levels \in Nat \ {0}

VARIABLES
  mood,             \* per source
  track,            \* per drive, as probed: "hdd", "ssd" or "none"
  gpuOn,            \* GPU.Enabled
  pc,               \* "probe", "wait", "cpu", "gpu", "smart", "drive", "done", "failed",
                    \* "test" of the scan's loop condition
  job,              \* whose reading it is: "gate", "scan" or "cycle"
  at,               \* the drive to be asked next
  spent,            \* ticks since the reading began
  cpu, pg,          \* CPUMax and PassiveGPUMax of the reading
  found,            \* cachedHDD and cachedSSD
  age,              \* ticks since lastRead
  level, held,      \* scan level, and ticks since its fans were set
  last,             \* the level's last successful reading: "none", or where its
                    \* drive temperatures were measured, "earlier" or at its "own" level
  late,             \* history: the level's readings that ended when it was older than
                    \* the cache, "quiet" for none, one was "read", all were "missed"
  stalls            \* history: the commands of this cycle or reading that hung

devVars  == <<mood, track, gpuOn>>
pointVars == <<level, last, late>>
scanVars == <<pointVars, held>>
vars == <<mood, track, gpuOn, pc, job, at, spent, cpu, pg, found, age, level, held, last, late,
          stalls>>

Least(a, b) == IF a < b THEN a ELSE b
Most(a, b)  == IF a > b THEN a ELSE b

-----------------------------------------------------------------------------
Severity == [cool |-> 1, warm |-> 2, hot |-> 3, silent |-> 0, hung |-> 0]

\* A hard disk judged as an SSD is nowhere near that class's limits.
Felt(d) ==
  LET s == Severity[mood[d]]
  IN  IF d \in Rotating /\ track[d] = "ssd" THEN Least(s, 1) ELSE s

Budget == IF job = "cycle" THEN CycleBudget ELSE Unbounded
Left   == Budget - spent

\* Under an expired deadline a command fails at once.
Cost_IgnoresDeadline(s) == IF mood[s] = "hung" THEN CommandTimeout ELSE 0

Cost_NoTimeout(s) == IF mood[s] = "hung" THEN Left ELSE 0

Cost(s) == IF mood[s] = "hung" THEN Least(CommandTimeout, Left) ELSE 0

Hangs(s) == mood[s] = "hung" /\ Left > 0

\* Time passes, for the drive readings and for the level of a scan.
Ages(c)  == age' = Least(age + c, Cap)
Holds(c) == held' = IF job = "scan" THEN Least(held + c, Cap) ELSE held

\* Running the command of source s lets its time pass.
RunCommand(s) ==
  /\ spent' = spent + Cost(s)
  /\ Ages(Cost(s)) /\ Holds(Cost(s))
  /\ stalls' = IF Hangs(s) THEN stalls + 1 ELSE stalls

\* The time a SetFan takes of a cycle, under its deadline; and otherwise.
WriteTimes == 0 .. WriteTime
WriteTimesLeft == 0 .. Least(WriteTime, Left)

\* The reading's results are its caller's, and gone with its decision.
Return == at' = 1 /\ cpu' = 0 /\ pg' = 0 /\ stalls' = 0

NoCommand == UNCHANGED <<spent, age, held, stalls>>

Monitored == {d \in Drive : track[d] # "none"}

-----------------------------------------------------------------------------
Init ==
  /\ mood \in [Source -> Mood] /\ \A s \in Source : mood[s] \in Moods[s]
  /\ track = [d \in Drive |-> "none"] /\ gpuOn = FALSE
  /\ pc = "probe" /\ job = "gate" /\ at = 1 /\ spent = 0 /\ stalls = 0
  /\ cpu = 0 /\ pg = 0
  /\ found = [hdd |-> 0, ssd |-> 0] /\ age = Cap
  /\ level = 0 /\ held = 0 /\ last = "none" /\ late = "quiet"

\* GPU.Probe and Smartctl.Probe.  Some drives are listed: none when GPU_AWARE
\* or HDD_AWARE is false, when the scan fails, when all are boot media.  A drive
\* whose smartctl -i does not tell, in time, that it rotates counts as an SSD.
\* (A probe that is fatal ends the process: its next life probes again.)
Probe(listed, told, gpu) ==
  /\ pc = "probe"
  /\ track' = [d \in Drive |->
       IF d \notin listed THEN "none" ELSE IF d \in told THEN "hdd" ELSE "ssd"]
  /\ gpuOn' = gpu
  /\ pc' = "wait"
  /\ job' \in {"gate", "cycle"}           \* not scanned yet, or scanned before
  /\ spent' = Interval                    \* the first reading is not waited for
  /\ UNCHANGED <<mood, at, cpu, pg, found, age, scanVars, stalls>>

\* A source changes.  Sources change between readings: each command asks its
\* own source once, so a change during a reading is one before it.
Turn(s, m) ==
  /\ pc = "wait" /\ m # mood[s]
  /\ mood' = [mood EXCEPT ![s] = m]
  /\ UNCHANGED <<track, gpuOn, pc, job, at, spent, cpu, pg, found, age, scanVars, stalls>>

\* The next reading: at the next tick, at once when a tick is already waiting.
\* A cycle of a controller that drives the fans engages the BMC first.
Begin(engages) ==
  /\ pc = "wait"
  /\ engages => job = "cycle"
  /\ pc' = "cpu"
  /\ LET gap   == Most(Interval - spent, 0)
         stuck == engages /\ mood["sdr"] = "hung"
         busy  == IF stuck THEN CommandTimeout ELSE 0
     IN  /\ Ages(gap + busy) /\ Holds(gap)
         /\ spent' = busy
         /\ stalls' = IF stuck THEN 1 ELSE 0
  /\ UNCHANGED <<devVars, job, at, cpu, pg, found, pointVars>>

\* CPU.Read: coretemp, or the BMC's sensor list.
ReadCPU ==
  /\ pc = "cpu"
  /\ IF Severity[mood["coretemp"]] > 0
     THEN cpu' = Severity[mood["coretemp"]] /\ NoCommand
     ELSE cpu' = Severity[mood["sdr"]] /\ RunCommand("sdr")
  /\ pc' = IF cpu' > 0 THEN "gpu" ELSE "failed"
  /\ UNCHANGED <<devVars, job, at, pg, found, pointVars>>

\* GPU.Read, for the passive cards; without an answer the class abstains.
ReadGPU ==
  /\ pc = "gpu"
  /\ IF gpuOn
     THEN pg' = (IF Left > 0 THEN Severity[mood["smi"]] ELSE 0) /\ RunCommand("smi")
     ELSE pg' = 0 /\ NoCommand
  /\ pc' = "smart"
  /\ UNCHANGED <<devVars, job, at, cpu, found, pointVars>>

\* now.Sub(lastRead) < ReadInterval.  Two readings a whole number of ticks apart
\* may be a moment less or more than that apart, unless a scan level was set
\* between them: its deadline is counted from later than the round.
CacheFresh_Twice(jitter) == age < 2 * ReadInterval

CacheFresh(jitter) ==
  \/ age < ReadInterval
  \/ age = ReadInterval /\ jitter /\ ~(job = "scan" /\ age >= held)

\* Smartctl.Read with the source disabled, or within the interval.
SmartCached(jitter) ==
  /\ pc = "smart"
  /\ Monitored = {} \/ CacheFresh(jitter)
  /\ pc' = "done"
  /\ UNCHANGED <<devVars, job, at, spent, cpu, pg, found, age, scanVars, stalls>>

\* A new round: lastRead is the time it starts.  (Nobody reads the cache before
\* the round ends, so the maxima are gathered in it.)
SmartRound(jitter) ==
  /\ pc = "smart"
  /\ Monitored # {} /\ ~CacheFresh(jitter)
  /\ pc' = "drive"
  /\ age' = 0
  /\ found' = [hdd |-> 0, ssd |-> 0]
  /\ UNCHANGED <<devVars, job, at, spent, cpu, pg, scanVars, stalls>>

\* The drive after a drive that gave no temperature.
Following_GivesUp(d) == IF Felt(d) = 0 THEN Len(Drives) + 1 ELSE at + 1

Following(d) == at + 1

\* smartctl -A of one drive.  One that gives no temperature, for whatever
\* reason, leaves the maxima as they are.
ReadDrive ==
  /\ pc = "drive"
  /\ LET d == Drives[at]
         t == IF Left > 0 THEN Felt(d) ELSE 0
     IN  /\ IF track[d] = "none" THEN NoCommand ELSE RunCommand(d)
         /\ found' = IF track[d] = "none" THEN found ELSE [found EXCEPT ![track[d]] = Most(@, t)]
         /\ at' = Following(d)
  /\ pc' = IF at' > Len(Drives) THEN "done" ELSE "drive"
  /\ UNCHANGED <<devVars, job, cpu, pg, pointVars>>

-----------------------------------------------------------------------------
\* The result of a reading, as its caller sees it.
Worst == Most(Most(cpu, pg), Most(found.hdd, found.ssd))
SlowPlant == pg > 0 \/ found.hdd > 0 \/ found.ssd > 0

\* The decision and the fan writes; after a failed reading the writes of full
\* speed.
CycleWrites(t) ==
  /\ job = "cycle" /\ pc \in {"done", "failed"}
  /\ t \in WriteTimesLeft
  /\ pc' = "wait" /\ Return
  /\ spent' = spent + t /\ Ages(t)
  /\ UNCHANGED <<devVars, job, found, scanVars>>

NewLevel(n) == level' = n /\ held' = 0 /\ last' = "none" /\ late' = "quiet"

\* To the first cycle, which is not waited for, after writes that took t.
ToCycle(t) ==
  /\ pc' = "wait" /\ job' = "cycle"
  /\ spent' = Interval /\ Return
  /\ NewLevel(0)
  /\ Ages(t)
  /\ UNCHANGED <<devVars, found>>

\* SetFan of level n, which with what goes before it takes t; then a new
\* deadline, and a new ticker.
ToLevel(n, t) ==
  /\ pc' = "wait" /\ job' = "scan"
  /\ spent' = 0 /\ Return
  /\ NewLevel(n)
  /\ Ages(t)
  /\ UNCHANGED <<devVars, found>>

\* One reading at the gate decides whether there is anything to scan.
GateSkips ==
  /\ job = "gate"
  /\ pc = "failed" \/ (pc = "done" /\ ~SlowPlant)
  /\ ToCycle(0)

\* The scan engages the BMC and sets its first level.
GateOpens(t) ==
  /\ job = "gate" /\ pc = "done" /\ SlowPlant
  /\ ToLevel(1, t)

\* Any class at its emergency temperature: the writes of full speed.
ScanAborts(t) ==
  /\ job = "scan" /\ pc = "done" /\ Worst = 3
  /\ ToCycle(t)

\* A class close to it: the level is re-asserted, its points are taken, and no
\* lower level.
ScanStopsDescent(t) ==
  /\ job = "scan" /\ pc = "done" /\ Worst = 2
  /\ ToCycle(t)

\* Where the drive temperatures of a reading of this level were measured.  With
\* no drives monitored there are none.
Measured == IF Monitored = {} \/ age < held THEN "own" ELSE "earlier"

\* A reading becomes the level's last one; but first the level is re-asserted,
\* and the deadline is tested only after that.
ScanReads(t) ==
  /\ job = "scan" /\ pc = "done" /\ Worst < 2
  /\ last' = Measured
  /\ late' = IF held >= ReadInterval THEN "read" ELSE late
  /\ spent' = Least(spent + t, Budget) /\ Ages(t) /\ Holds(t)
  /\ pc' = "test" /\ Return
  /\ UNCHANGED <<devVars, job, found, level>>

\* A failed reading is passed over.
ScanMisses_Waits ==
  /\ job = "scan" /\ pc = "failed"
  /\ pc' = "test" /\ held' = 0 /\ Return
  /\ UNCHANGED <<devVars, job, spent, found, age, pointVars>>

ScanMisses ==
  /\ job = "scan" /\ pc = "failed"
  /\ late' = IF held >= ReadInterval /\ late = "quiet" THEN "missed" ELSE late
  /\ pc' = "test" /\ Return
  /\ UNCHANGED <<devVars, job, spent, found, age, level, held, last>>

DwellOver == held >= Dwell

ScanGoesOn ==
  /\ pc = "test" /\ ~DwellOver
  /\ pc' = "wait"
  /\ UNCHANGED <<devVars, job, at, spent, cpu, pg, found, age, scanVars, stalls>>

\* The level's points are those of its last successful reading: descend, or fit
\* and be done.  A level without one aborts.
LevelEnds(t) ==
  /\ pc = "test" /\ DwellOver
  /\ IF last # "none" /\ level < Levels THEN ToLevel(level + 1, t) ELSE t = 0 /\ ToCycle(0)

\* A fan write of the level, before its first reading, that fails ends the scan.
ScanWriteFails ==
  /\ job = "scan" /\ pc = "wait" /\ held = 0
  /\ ToCycle(0)

Reading ==
  \/ \E engages \in BOOLEAN : Begin(engages)
  \/ ReadCPU \/ ReadGPU
  \/ \E jitter \in BOOLEAN : SmartCached(jitter) \/ SmartRound(jitter)
  \/ ReadDrive

Caller ==
  \/ GateSkips
  \/ \E t \in 0 .. CommandTimeout + WriteTime : GateOpens(t)
  \/ \E t \in WriteTimes :
       \/ CycleWrites(t)
       \/ ScanAborts(t) \/ ScanStopsDescent(t) \/ ScanReads(t) \/ LevelEnds(t)
  \/ ScanMisses \/ ScanGoesOn

Startup ==
  \E listed \in SUBSET Drive, told \in SUBSET Rotating, gpu \in BOOLEAN :
    Probe(listed, told, gpu)

Next ==
  \/ Startup \/ Reading \/ Caller \/ ScanWriteFails
  \/ \E s \in Source : \E m \in Moods[s] : Turn(s, m)

Spec == Init /\ [][Next]_vars

\* Every command returns, by answer or deadline, and the tickers go on.
FairSpec == Spec /\ WF_vars(Startup) /\ WF_vars(Reading) /\ WF_vars(Caller)

-----------------------------------------------------------------------------
(* Properties *)

TypeOK ==
  /\ mood \in [Source -> Mood]
  /\ track \in [Drive -> {"hdd", "ssd", "none"}] /\ gpuOn \in BOOLEAN
  /\ pc \in {"probe", "wait", "cpu", "gpu", "smart", "drive", "done", "failed",
            "test"}
  /\ job \in {"gate", "scan", "cycle"}
  /\ at \in 1 .. Len(Drives) + 1
  /\ spent \in 0 .. Budget
  /\ cpu \in 0 .. 3 /\ pg \in 0 .. 3
  /\ found \in [{"hdd", "ssd"} -> 0 .. 3]
  /\ age \in 0 .. Cap
  /\ level \in 0 .. Levels /\ held \in 0 .. Cap
  /\ last \in {"none", "earlier", "own"} /\ late \in {"quiet", "read", "missed"}
  /\ stalls \in 0 .. Len(Drives) + 3

(***************************************************************************)
(* What a cycle knows of the drives when it decides is at most a minute    *)
(* old, however long the commands before and during the round hung, and    *)
(* whatever rounds failed: the cache of smartctl.go:178-181 and the        *)
(* deadlines of runner.go and runCycle together bound it.                  *)
(***************************************************************************)
DriveReadingIsRecent ==
  (job = "cycle" /\ pc = "done" /\ Monitored # {}) => age <= Most(ReadInterval, CycleBudget)

(***************************************************************************)
(* One command that hangs is not enough to take a cycle its fan writes:    *)
(* the 30 s of runner.go fit into the 60 s of runCycle with time to spare, *)
(* wherever in the cycle the command stands.                               *)
(***************************************************************************)
OneStallLeavesTime ==
  (job = "cycle" /\ pc \in {"done", "failed"} /\ stalls <= 1) => Left > 0

(***************************************************************************)
(* The drive temperatures a scan level contributes to the fit were         *)
(* measured with the fans at that level, although drive readings are a     *)
(* minute old at worst and each reading is followed by a fan write that    *)
(* may outlast the deadline: a point of the level before would bend the    *)
(* line the ramp is fitted to.  Needed is a dwell of the cache interval    *)
(* and the longest fan write together, and one reading of the level that   *)
(* succeeds after that interval: when all of those fail, the level keeps   *)
(* the reading before them, whose drives may have been measured at the     *)
(* level before (scan.go:127-129).  A descent stopped early by a class     *)
(* close to its emergency (scan.go:139-144) ends its level without this    *)
(* test.                                                                   *)
(***************************************************************************)
PointIsOfItsLevel ==
  (pc = "test" /\ DwellOver /\ last # "none") => last = "own" \/ late = "missed"

(***************************************************************************)
(* A drive that stays hot and keeps answering is in every later decision,  *)
(* whatever the other drives do, as long as no more than one source hangs. *)
(* (In cycles without a CPU reading the fans go to full speed anyway.)     *)
(***************************************************************************)
HotDriveIsSeen ==
  \A d \in Drive :
    <>[](/\ job = "cycle" /\ d \in Monitored /\ Felt(d) = 3
         /\ Cardinality({s \in Source : mood[s] = "hung"}) <= 1)
      => <>[](pc = "done" => d \in Monitored /\ found[track[d]] = 3)

(***************************************************************************)
(* The scan comes to an end, also when no reading succeeds any more or     *)
(* every reading takes minutes: control is never held up for good.         *)
(***************************************************************************)
ScanEnds == (job = "scan") ~> (job = "cycle")
=============================================================================
