--------------------------- MODULE SensingProofs ---------------------------
(***************************************************************************)
(* What holds of Sensing for every set of drives, every condition of the   *)
(* sources, every timeout, deadline, cache interval, dwell and number of   *)
(* levels that satisfy SensingAssumption.                                  *)
(***************************************************************************)
EXTENDS Sensing, TLAPS

\* How many commands may have hung by now, and what the time they took says of
\* the age of the drive readings and of the time at the scan level.
Counts ==
  /\ pc \in {"probe", "test"} => stalls = 0
  /\ pc = "wait" => stalls = 0
  /\ pc = "cpu" => stalls <= 1
  /\ pc \in {"gpu", "failed"} => stalls <= 2
  /\ pc = "smart" => stalls <= 3
  /\ pc = "drive" => stalls <= at + 2 /\ at <= Len(Drives)
  /\ pc \in {"probe", "wait", "cpu", "gpu", "smart", "test"} => at = 1

Times ==
  pc \in {"cpu", "gpu", "smart", "drive", "done", "failed"} =>
    /\ stalls = 0 => spent = 0
    /\ stalls = 1 => spent <= CommandTimeout

Aged ==
  /\ pc = "drive" => age <= spent
  /\ (pc = "done" /\ Monitored # {}) => (age <= ReadInterval \/ age <= spent)

\* A reading that ends when the level is older than the cache is of the level.
Holding ==
  /\ pc = "test" => job = "scan"
  /\ job = "scan" =>
       /\ pc # "probe"
       /\ pc = "wait" => (held >= 1 \/ spent = 0)
       /\ pc \in {"cpu", "gpu", "smart", "drive", "done", "failed", "test"} => held >= 1
       /\ pc = "drive" => age < held
       /\ (pc = "done" /\ Monitored # {}) => (age < held \/ held < ReadInterval)

\* Such a reading is the level's last one, or followed by others like it; and
\* before one has ended the level is not older than the cache and one write.
Points ==
  job = "scan" =>
    /\ late # "quiet" => held >= ReadInterval
    /\ late = "read" => last = "own"
    /\ (late = "quiet" /\ pc = "test") => held < ReadInterval + WriteTime

IInv == TypeOK /\ Counts /\ Times /\ Aged /\ Holding /\ Points

-----------------------------------------------------------------------------
\* The constants in the form the steps below use them.
LEMMA Bounds ==
  /\ Len(Drives) \in Nat \ {0}
  /\ Unbounded \in Nat /\ CommandTimeout \in Nat \ {0} /\ CycleBudget \in Nat \ {0}
  /\ CommandTimeout < CycleBudget /\ CycleBudget <= Unbounded
  /\ ReadInterval \in Nat \ {0} /\ Dwell \in Nat \ {0} /\ ReadInterval <= Dwell
  /\ Cap \in Nat /\ Unbounded < Cap /\ Dwell < Cap /\ ReadInterval < Cap
  /\ Levels \in Nat \ {0} /\ WriteTime \in Nat
<1>1. Len(Drives) \in Nat \ {0}
  BY SensingAssumption
<1>2. /\ CommandTimeout \in Nat \ {0} /\ CycleBudget \in Nat \ {0}
      /\ CommandTimeout < CycleBudget /\ CycleBudget <= Unbounded
      /\ ReadInterval \in Nat \ {0} /\ Dwell \in Nat \ {0} /\ ReadInterval <= Dwell
      /\ Levels \in Nat \ {0} /\ WriteTime \in Nat
  BY SensingAssumption
<1>3. Unbounded \in Nat
  BY <1>1, <1>2 DEF Unbounded
<1>4. Cap \in Nat /\ Unbounded < Cap /\ Dwell < Cap
  BY <1>2, <1>3 DEF Cap
<1> QED BY <1>1, <1>2, <1>3, <1>4

\* A source that is asked answers in the range of the classes.
LEMMA Answers ==
  ASSUME mood \in [Source -> Mood], NEW s \in Source
  PROVE  Severity[mood[s]] \in 0 .. 3
<1>1. mood[s] \in {"cool", "warm", "hot", "silent", "hung"}
  BY DEF Mood
<1> QED BY <1>1 DEF Severity

LEMMA Sources == "coretemp" \in Source /\ "sdr" \in Source /\ "smi" \in Source /\ Drive \subseteq Source
  BY DEF Source

\* Time passes by the same amount for the reading, the cache and the level: by
\* nothing, or for a command that hung by its timeout at most, and never beyond
\* the caller's deadline.
Elapsed(c) ==
  /\ c \in 0 .. (Budget - spent)
  /\ spent' = spent + c
  /\ age' = Least(age + c, Cap)
  /\ held' = IF job = "scan" THEN Least(held + c, Cap) ELSE held
  /\ \/ stalls' = stalls /\ c = 0
     \/ stalls' = stalls + 1 /\ c <= CommandTimeout

LEMMA CommandTakesTime ==
  ASSUME TypeOK, NEW s \in Source, RunCommand(s)
  PROVE  \E c \in Int : Elapsed(c)
<1>1. Budget \in Nat /\ spent \in 0 .. Budget /\ CommandTimeout \in Nat /\ Budget - spent \in Nat
  BY Bounds DEF TypeOK, Budget
<1>2. Cost(s) \in 0 .. (Budget - spent) /\ Cost(s) <= CommandTimeout
  BY <1>1 DEF Cost, Least, Left
<1>3. ~Hangs(s) => Cost(s) = 0
  BY <1>1 DEF Hangs, Cost, Least, Left
<1>4. Elapsed(Cost(s))
  BY <1>2, <1>3 DEF Elapsed, RunCommand, Ages, Holds
<1> QED BY <1>2, <1>4

LEMMA NothingTakesNoTime ==
  ASSUME TypeOK, NoCommand
  PROVE  \E c \in Int : Elapsed(c)
<1>1. Budget \in Nat /\ spent \in 0 .. Budget /\ age \in 0 .. Cap /\ held \in 0 .. Cap /\ Cap \in Nat
  BY Bounds DEF TypeOK, Budget
<1>2. Elapsed(0)
  BY <1>1 DEF Elapsed, NoCommand, Least
<1> QED BY <1>2

\* What the passing of time preserves, and how far it takes the counters.
LEMMA ElapsedBounds ==
  ASSUME TypeOK, Times, pc \in {"cpu", "gpu", "drive"}, NEW c \in Int, Elapsed(c)
  PROVE  /\ spent' \in 0 .. Budget /\ age' \in 0 .. Cap /\ held' \in 0 .. Cap
         /\ stalls' \in {stalls, stalls + 1}
         /\ stalls' = 0 => spent' = 0
         /\ stalls' = 1 => spent' <= CommandTimeout
         /\ held >= 1 => held' >= 1
         /\ job = "scan" => held <= held'
         /\ age <= spent => age' <= spent'
         /\ (age <= spent /\ age < held /\ job = "scan") => age' < held'
<1>1. /\ Budget \in Nat /\ spent \in 0 .. Budget /\ age \in 0 .. Cap /\ held \in 0 .. Cap
      /\ Cap \in Nat /\ stalls \in Nat /\ CommandTimeout \in Nat /\ Len(Drives) \in Nat
  BY Bounds DEF TypeOK, Budget
<1>2. /\ c \in 0 .. (Budget - spent) /\ spent' = spent + c
      /\ age' = Least(age + c, Cap)
      /\ held' = IF job = "scan" THEN Least(held + c, Cap) ELSE held
      /\ \/ stalls' = stalls /\ c = 0
         \/ stalls' = stalls + 1 /\ c <= CommandTimeout
  BY DEF Elapsed
<1>3. /\ stalls = 0 => spent = 0
      /\ stalls = 1 => spent <= CommandTimeout
  BY DEF Times
<1>4. job = "scan" => Budget < Cap
  BY Bounds DEF Budget
<1>5. spent' \in 0 .. Budget /\ age' \in 0 .. Cap /\ held' \in 0 .. Cap /\ stalls' \in {stalls, stalls + 1}
  BY <1>1, <1>2 DEF Least
<1>6. (stalls' = 0 => spent' = 0) /\ (stalls' = 1 => spent' <= CommandTimeout)
  BY <1>1, <1>2, <1>3
<1>7. (held >= 1 => held' >= 1) /\ (job = "scan" => held <= held') /\ (age <= spent => age' <= spent')
  BY <1>1, <1>2 DEF Least
<1>8. (age <= spent /\ age < held /\ job = "scan") => age' < held'
  BY <1>1, <1>2, <1>4 DEF Least
<1> QED BY <1>5, <1>6, <1>7, <1>8

-----------------------------------------------------------------------------
\* One lemma per action.

LEMMA TypesUnfolded ==
  ASSUME TypeOK
  PROVE  /\ Budget \in Nat /\ spent \in 0 .. Budget /\ age \in 0 .. Cap /\ held \in 0 .. Cap
         /\ stalls \in 0 .. Len(Drives) + 3 /\ at \in 1 .. Len(Drives) + 1 /\ level \in 0 .. Levels
         /\ cpu \in 0 .. 3 /\ pg \in 0 .. 3 /\ found \in [{"hdd", "ssd"} -> 0 .. 3]
         /\ mood \in [Source -> Mood]
BY Bounds DEF TypeOK, Budget

LEMMA ProbeKeeps ==
  ASSUME IInv, Startup
  PROVE  IInv'
<1> PICK listed \in SUBSET Drive, told \in SUBSET Rotating, gpu \in BOOLEAN :
      Probe(listed, told, gpu)
  BY DEF Startup
<1>1. track' \in [Drive -> {"hdd", "ssd", "none"}]
  BY DEF Probe
<1>2. /\ pc = "probe" /\ pc' = "wait" /\ job' \in {"gate", "cycle"} /\ spent' = 1
      /\ gpuOn' \in BOOLEAN
      /\ UNCHANGED <<mood, at, cpu, pg, found, age, level, held, last, late, stalls>>
  BY DEF Probe, Interval, scanVars, pointVars
<1>3. Budget' \in Nat /\ 1 <= Budget'
  BY <1>2, Bounds DEF Budget
<1>4. TypeOK'
  BY <1>1, <1>2, <1>3 DEF IInv, TypeOK
<1>5. Counts' /\ Times' /\ Aged' /\ Holding' /\ Points'
  BY <1>2 DEF IInv, Counts, Times, Aged, Holding, Points
<1> QED BY <1>4, <1>5 DEF IInv

LEMMA TurnKeeps ==
  ASSUME IInv, NEW s \in Source, NEW m \in Moods[s], Turn(s, m)
  PROVE  IInv'
<1>1. m \in Mood
  BY SensingAssumption
<1>2. mood' \in [Source -> Mood]
  BY <1>1 DEF IInv, TypeOK, Turn
<1>3. UNCHANGED <<track, gpuOn, pc, job, at, spent, cpu, pg, found, age, level, held, last, late, stalls>>
  BY DEF Turn, scanVars, pointVars
<1>4. UNCHANGED <<Budget, Monitored>>
  BY <1>3 DEF Budget, Monitored
<1>5. TypeOK'
  BY <1>2, <1>3, <1>4 DEF IInv, TypeOK
<1>6. Counts' /\ Times' /\ Aged' /\ Holding' /\ Points'
  BY <1>3, <1>4 DEF IInv, Counts, Times, Aged, Holding, Points
<1> QED BY <1>5, <1>6 DEF IInv

LEMMA BeginKeeps ==
  ASSUME IInv, NEW engages \in BOOLEAN, Begin(engages)
  PROVE  IInv'
<1>1. /\ pc = "wait" /\ pc' = "cpu" /\ (engages => job = "cycle")
      /\ UNCHANGED <<mood, track, gpuOn, job, at, cpu, pg, found, level, last, late>>
  BY DEF Begin, devVars, pointVars
\* The tick waited for, and the time a hung BMC takes.
<1>2. PICK gap \in Nat, busy \in 0 .. CommandTimeout :
        /\ spent' = busy /\ busy <= Budget
        /\ stalls' \in {0, 1} /\ (stalls' = 0 => busy = 0)
        /\ age' = Least(age + (gap + busy), Cap)
        /\ held' = IF job = "scan" THEN Least(held + gap, Cap) ELSE held
        /\ spent = 0 => gap = 1
  <2> DEFINE tick  == Most(Interval - spent, 0)
             stuck == engages /\ mood["sdr"] = "hung"
             stalled == IF stuck THEN CommandTimeout ELSE 0
  <2>1. tick \in Nat /\ (spent = 0 => tick = 1)
    BY TypesUnfolded DEF IInv, Most, Interval
  <2>2. stalled \in 0 .. CommandTimeout /\ stalled <= Budget
    BY <1>1, Bounds DEF Budget
  <2>3. stalls' \in {0, 1} /\ (stalls' = 0 => stalled = 0)
    BY DEF Begin
  <2>4. /\ spent' = stalled /\ age' = Least(age + (tick + stalled), Cap)
        /\ held' = IF job = "scan" THEN Least(held + tick, Cap) ELSE held
    BY DEF Begin, Ages, Holds
  <2> HIDE DEF tick, stalled
  <2> QED BY <2>1, <2>2, <2>3, <2>4
<1>3. UNCHANGED Budget
  BY <1>1 DEF Budget
<1>4. /\ age \in 0 .. Cap /\ held \in 0 .. Cap /\ Cap \in Nat /\ 1 < Cap
      /\ ReadInterval \in Nat /\ Budget \in Nat /\ CommandTimeout \in Nat
  BY TypesUnfolded, Bounds DEF IInv
<1>5. age' \in 0 .. Cap /\ held' \in 0 .. Cap /\ spent' \in 0 .. Budget
      /\ (job = "scan" => held <= held')
  BY <1>2, <1>4 DEF Least
<1>6. job = "scan" => held' >= 1
  BY <1>1, <1>2, <1>4 DEF IInv, Holding, Least
<1>7. TypeOK'
  BY <1>1, <1>2, <1>3, <1>5, TypesUnfolded, Bounds DEF IInv, TypeOK
<1>8. Counts' /\ Times' /\ Aged' /\ Holding'
  BY <1>1, <1>2, <1>6, Bounds DEF IInv, Counts, Times, Aged, Holding
<1>9. Points'
  BY <1>1, <1>4, <1>5 DEF IInv, Points
<1> QED BY <1>7, <1>8, <1>9 DEF IInv

LEMMA ReadCPUKeeps ==
  ASSUME IInv, ReadCPU
  PROVE  IInv'
<1>1. /\ pc = "cpu" /\ pc' \in {"gpu", "failed"}
      /\ UNCHANGED <<mood, track, gpuOn, job, at, pg, found, level, last, late>>
  BY DEF ReadCPU, devVars, pointVars
<1>2. PICK c \in Int : Elapsed(c)
  BY CommandTakesTime, NothingTakesNoTime, Sources DEF IInv, ReadCPU
<1>3. cpu' \in 0 .. 3
  BY Answers, Sources, TypesUnfolded DEF IInv, ReadCPU
<1>4. /\ spent' \in 0 .. Budget /\ age' \in 0 .. Cap /\ held' \in 0 .. Cap
      /\ stalls' \in {stalls, stalls + 1}
      /\ stalls' = 0 => spent' = 0
      /\ stalls' = 1 => spent' <= CommandTimeout
      /\ held >= 1 => held' >= 1
      /\ job = "scan" => held <= held'
  BY <1>1, <1>2, ElapsedBounds DEF IInv
<1>5. UNCHANGED Budget
  BY <1>1 DEF Budget
<1>6. stalls' \in 0 .. 2 /\ at = 1
  BY <1>1, <1>4, TypesUnfolded DEF IInv, Counts
<1>7. TypeOK'
  BY <1>1, <1>3, <1>4, <1>5, <1>6, Bounds DEF IInv, TypeOK
<1>8. Counts' /\ Times' /\ Aged'
  BY <1>1, <1>4, <1>6 DEF Counts, Times, Aged
<1>9. Holding'
  BY <1>1, <1>4 DEF IInv, Holding
<1>10. Points'
  BY <1>1, <1>4, TypesUnfolded, Bounds DEF IInv, Points
<1> QED BY <1>7, <1>8, <1>9, <1>10 DEF IInv

LEMMA ReadGPUKeeps ==
  ASSUME IInv, ReadGPU
  PROVE  IInv'
<1>1. /\ pc = "gpu" /\ pc' = "smart"
      /\ UNCHANGED <<mood, track, gpuOn, job, at, cpu, found, level, last, late>>
  BY DEF ReadGPU, devVars, pointVars
<1>2. PICK c \in Int : Elapsed(c)
  BY CommandTakesTime, NothingTakesNoTime, Sources DEF IInv, ReadGPU
<1>3. pg' \in 0 .. 3
  BY Answers, Sources, TypesUnfolded DEF IInv, ReadGPU
<1>4. /\ spent' \in 0 .. Budget /\ age' \in 0 .. Cap /\ held' \in 0 .. Cap
      /\ stalls' \in {stalls, stalls + 1}
      /\ stalls' = 0 => spent' = 0
      /\ stalls' = 1 => spent' <= CommandTimeout
      /\ held >= 1 => held' >= 1
      /\ job = "scan" => held <= held'
  BY <1>1, <1>2, ElapsedBounds DEF IInv
<1>5. UNCHANGED Budget
  BY <1>1 DEF Budget
<1>6. stalls' \in 0 .. 3 /\ at = 1
  BY <1>1, <1>4, TypesUnfolded DEF IInv, Counts
<1>7. TypeOK'
  BY <1>1, <1>3, <1>4, <1>5, <1>6, Bounds DEF IInv, TypeOK
<1>8. Counts' /\ Times' /\ Aged'
  BY <1>1, <1>4, <1>6 DEF Counts, Times, Aged
<1>9. Holding'
  BY <1>1, <1>4 DEF IInv, Holding
<1>10. Points'
  BY <1>1, <1>4, TypesUnfolded, Bounds DEF IInv, Points
<1> QED BY <1>7, <1>8, <1>9, <1>10 DEF IInv

LEMMA SmartCachedKeeps ==
  ASSUME IInv, NEW jitter \in BOOLEAN, SmartCached(jitter)
  PROVE  IInv'
<1>1. /\ pc = "smart" /\ pc' = "done"
      /\ UNCHANGED <<mood, track, gpuOn, job, at, spent, cpu, pg, found, age, level, held, last, late, stalls>>
  BY DEF SmartCached, devVars, scanVars, pointVars
<1>2. UNCHANGED <<Budget, Monitored>>
  BY <1>1 DEF Budget, Monitored
<1>3. Monitored # {} =>
        age <= ReadInterval /\ (job = "scan" => (age < held \/ held < ReadInterval))
  BY TypesUnfolded, Bounds DEF IInv, SmartCached, CacheFresh
<1>4. TypeOK'
  BY <1>1, <1>2 DEF IInv, TypeOK
<1>5. Counts' /\ Times'
  BY <1>1, TypesUnfolded DEF IInv, Counts, Times
<1>6. Aged'
  BY <1>1, <1>2, <1>3 DEF Aged
<1>7. Holding' /\ Points'
  BY <1>1, <1>2, <1>3 DEF IInv, Holding, Points
<1> QED BY <1>4, <1>5, <1>6, <1>7 DEF IInv

LEMMA SmartRoundKeeps ==
  ASSUME IInv, NEW jitter \in BOOLEAN, SmartRound(jitter)
  PROVE  IInv'
<1>1. /\ pc = "smart" /\ pc' = "drive" /\ age' = 0 /\ found' \in [{"hdd", "ssd"} -> 0 .. 3]
      /\ UNCHANGED <<mood, track, gpuOn, job, at, spent, cpu, pg, level, held, last, late, stalls>>
  BY DEF SmartRound, devVars, scanVars, pointVars
<1>2. UNCHANGED Budget
  BY <1>1 DEF Budget
<1>3. at = 1 /\ stalls <= 3
  BY <1>1 DEF IInv, Counts
<1>4. TypeOK'
  BY <1>1, <1>2, Bounds DEF IInv, TypeOK
<1>5. Counts' /\ Times'
  BY <1>1, <1>3, Bounds, TypesUnfolded DEF IInv, Counts, Times
<1>6. Aged'
  BY <1>1, TypesUnfolded DEF IInv, Aged
<1>7. Holding' /\ Points'
  BY <1>1, TypesUnfolded DEF IInv, Holding, Points
<1> QED BY <1>4, <1>5, <1>6, <1>7 DEF IInv

LEMMA ReadDriveKeeps ==
  ASSUME IInv, ReadDrive
  PROVE  IInv'
<1> DEFINE d == Drives[at]
<1>1. /\ pc = "drive" /\ at' = at + 1
      /\ pc' = IF at' > Len(Drives) THEN "done" ELSE "drive"
      /\ UNCHANGED <<mood, track, gpuOn, job, cpu, pg, level, last, late>>
  BY DEF ReadDrive, devVars, pointVars, Following
<1>2. at \in 1 .. Len(Drives) /\ stalls <= at + 2 /\ age <= spent /\ Len(Drives) \in Nat
  BY <1>1, TypesUnfolded, Bounds DEF IInv, Counts, Aged
<1>3. d \in Drive /\ d \in Source
  BY <1>2, Sources, SensingAssumption DEF Drive
<1>4. PICK c \in Int : Elapsed(c)
  BY <1>3, CommandTakesTime, NothingTakesNoTime DEF IInv, ReadDrive
<1>5. found' \in [{"hdd", "ssd"} -> 0 .. 3]
  <2>1. found \in [{"hdd", "ssd"} -> 0 .. 3] /\ track[d] \in {"hdd", "ssd", "none"}
    BY <1>3 DEF IInv, TypeOK
  <2> DEFINE t == IF Left > 0 THEN Felt(d) ELSE 0
  <2>2. t \in 0 .. 3
    BY <1>3, Answers, TypesUnfolded DEF IInv, Felt, Least
  <2>3. found' = IF track[d] = "none" THEN found ELSE [found EXCEPT ![track[d]] = Most(@, t)]
    BY DEF ReadDrive
  <2> HIDE DEF d, t
  <2> QED BY <2>1, <2>2, <2>3 DEF Most
<1>6. /\ spent' \in 0 .. Budget /\ age' \in 0 .. Cap /\ held' \in 0 .. Cap
      /\ stalls' \in {stalls, stalls + 1}
      /\ stalls' = 0 => spent' = 0
      /\ stalls' = 1 => spent' <= CommandTimeout
      /\ held >= 1 => held' >= 1
      /\ job = "scan" => held <= held'
      /\ age' <= spent'
      /\ (age < held /\ job = "scan") => age' < held'
  BY <1>1, <1>2, <1>4, ElapsedBounds DEF IInv
<1>7. UNCHANGED Budget
  BY <1>1 DEF Budget
<1>8. at' \in 1 .. Len(Drives) + 1 /\ stalls' \in 0 .. Len(Drives) + 3 /\ stalls' <= at' + 2
  BY <1>1, <1>2, <1>6, TypesUnfolded DEF IInv
<1>9. TypeOK'
  BY <1>1, <1>5, <1>6, <1>7, <1>8 DEF IInv, TypeOK
<1>10. Counts' /\ Times' /\ Aged'
  BY <1>1, <1>2, <1>6, <1>8 DEF Counts, Times, Aged
<1>11. Holding'
  BY <1>1, <1>6 DEF IInv, Holding
<1>12. Points'
  BY <1>1, <1>6, TypesUnfolded, Bounds DEF IInv, Points
<1> QED BY <1>9, <1>10, <1>11, <1>12 DEF IInv

\* A write takes its time of the drive readings' age.
LEMMA Ageing ==
  ASSUME age \in 0 .. Cap, NEW t \in Nat, Ages(t)
  PROVE  age' \in 0 .. Cap
BY Bounds DEF Ages, Least

\* The callers: a reading is returned, and the next one begins from nothing.
LEMMA ReturnKeeps ==
  ASSUME IInv, Return, pc' \in {"wait", "test"}, UNCHANGED <<mood, track, gpuOn, found>>,
         age' \in 0 .. Cap,
         job' \in {"gate", "scan", "cycle"}, spent' \in 0 .. Budget',
         level' \in 0 .. Levels, held' \in 0 .. Cap,
         last' \in {"none", "earlier", "own"}, late' \in {"quiet", "read", "missed"},
         pc' = "test" => job' = "scan" /\ held' >= 1,
         job' = "scan" => (held' >= 1 \/ spent' = 0),
         Points'
  PROVE  IInv'
<1>1. at' = 1 /\ cpu' = 0 /\ pg' = 0 /\ stalls' = 0
  BY DEF Return
<1>2. TypeOK'
  BY <1>1, Bounds DEF IInv, TypeOK
<1>3. Counts' /\ Times' /\ Aged'
  BY <1>1 DEF Counts, Times, Aged
<1>4. Holding'
  BY DEF Holding
<1> QED BY <1>2, <1>3, <1>4 DEF IInv

LEMMA CycleWritesKeeps ==
  ASSUME IInv, NEW t \in WriteTimes, CycleWrites(t)
  PROVE  IInv'
<1>1. /\ job = "cycle" /\ pc' = "wait" /\ Return /\ spent' = spent + t /\ Ages(t)
      /\ t \in WriteTimesLeft
      /\ UNCHANGED <<mood, track, gpuOn, job, found, level, held, last, late>>
  BY DEF CycleWrites, devVars, scanVars, pointVars
<1>2. UNCHANGED Budget
  BY <1>1 DEF Budget
<1>3. t \in Nat /\ spent + t \in 0 .. Budget
  BY <1>1, TypesUnfolded, Bounds DEF IInv, WriteTimesLeft, Least, Left
<1>4. age' \in 0 .. Cap
  BY <1>1, <1>3, Ageing, TypesUnfolded DEF IInv
<1>5. Points'
  BY <1>1 DEF Points
<1> QED BY <1>1, <1>2, <1>3, <1>4, <1>5, ReturnKeeps DEF IInv, TypeOK

LEMMA ToCycleKeeps ==
  ASSUME IInv, NEW t \in Nat, ToCycle(t)
  PROVE  IInv'
<1>1. /\ Return /\ pc' = "wait" /\ job' = "cycle" /\ spent' = 1
      /\ level' = 0 /\ held' = 0 /\ last' = "none" /\ late' = "quiet" /\ Ages(t)
      /\ UNCHANGED <<mood, track, gpuOn, found>>
  BY DEF ToCycle, NewLevel, devVars, Interval
<1>2. Budget' \in Nat /\ 1 <= Budget'
  BY <1>1, Bounds DEF Budget
<1>3. job' \in {"gate", "scan", "cycle"} /\ job' # "scan" /\ spent' \in 0 .. Budget'
  BY <1>1, <1>2
<1>4. level' \in 0 .. Levels /\ held' \in 0 .. Cap
  BY <1>1, Bounds
<1>5. last' \in {"none", "earlier", "own"} /\ late' \in {"quiet", "read", "missed"}
  BY <1>1
<1>6. age' \in 0 .. Cap
  BY <1>1, Ageing, TypesUnfolded DEF IInv
<1>7. Points'
  BY <1>1 DEF Points
<1> QED BY <1>1, <1>3, <1>4, <1>5, <1>6, <1>7, ReturnKeeps

LEMMA ToLevelKeeps ==
  ASSUME IInv, NEW n \in 1 .. Levels, NEW t \in Nat, ToLevel(n, t)
  PROVE  IInv'
<1>1. /\ Return /\ pc' = "wait" /\ job' = "scan" /\ spent' = 0
      /\ level' = n /\ held' = 0 /\ last' = "none" /\ late' = "quiet" /\ Ages(t)
      /\ UNCHANGED <<mood, track, gpuOn, found>>
  BY DEF ToLevel, NewLevel, devVars
<1>2. Budget' \in Nat
  BY <1>1, Bounds DEF Budget
<1>3. job' \in {"gate", "scan", "cycle"} /\ spent' \in 0 .. Budget'
  BY <1>1, <1>2
<1>4. level' \in 0 .. Levels /\ held' \in 0 .. Cap
  BY <1>1, Bounds
<1>5. last' \in {"none", "earlier", "own"} /\ late' \in {"quiet", "read", "missed"}
  BY <1>1
<1>6. age' \in 0 .. Cap
  BY <1>1, Ageing, TypesUnfolded DEF IInv
<1>7. Points'
  BY <1>1 DEF Points
<1> QED BY <1>1, <1>3, <1>4, <1>5, <1>6, <1>7, ReturnKeeps

\* A reading that comes late enough is of its level, and stays so.
LEMMA ScanReadsKeeps ==
  ASSUME IInv, NEW t \in WriteTimes, ScanReads(t)
  PROVE  IInv'
<1>1. /\ job = "scan" /\ pc = "done" /\ pc' = "test" /\ Return
      /\ last' = Measured /\ late' = (IF held >= ReadInterval THEN "read" ELSE late)
      /\ spent' = Least(spent + t, Budget) /\ Ages(t) /\ held' = Least(held + t, Cap)
      /\ UNCHANGED <<mood, track, gpuOn, job, found, level>>
  BY DEF ScanReads, devVars, Holds
<1>2. /\ t \in Nat /\ t <= WriteTime /\ WriteTime \in Nat
      /\ Budget \in Nat /\ spent \in 0 .. Budget /\ held \in 0 .. Cap /\ Cap \in Nat
      /\ ReadInterval \in Nat /\ ReadInterval < Cap
      /\ late \in {"quiet", "read", "missed"}
  BY TypesUnfolded, Bounds DEF IInv, TypeOK, WriteTimes
<1>3. UNCHANGED Budget
  BY <1>1 DEF Budget
<1>4. held >= 1 /\ held' >= held /\ held' \in 0 .. Cap /\ held' <= held + t
  BY <1>1, <1>2 DEF IInv, Holding, Least
<1>5. spent' \in 0 .. Budget' /\ age' \in 0 .. Cap
  BY <1>1, <1>2, <1>3, Ageing, TypesUnfolded DEF IInv, Least
<1>6. last' \in {"earlier", "own"} /\ late' \in {"quiet", "read", "missed"}
  BY <1>1, <1>2 DEF Measured
<1>7. held >= ReadInterval => last' = "own"
  BY <1>1, <1>2 DEF IInv, Holding, Measured
<1>8. Points'
  BY <1>1, <1>2, <1>4, <1>7 DEF IInv, Points
<1> QED BY <1>1, <1>4, <1>5, <1>6, <1>8, ReturnKeeps DEF IInv, TypeOK

LEMMA ScanMissesKeeps ==
  ASSUME IInv, ScanMisses
  PROVE  IInv'
<1>1. /\ job = "scan" /\ pc = "failed" /\ pc' = "test" /\ Return
      /\ late' = (IF held >= ReadInterval /\ late = "quiet" THEN "missed" ELSE late)
      /\ UNCHANGED <<mood, track, gpuOn, job, spent, found, age, level, held, last>>
  BY DEF ScanMisses, devVars
<1>2. UNCHANGED Budget
  BY <1>1 DEF Budget
<1>3. held >= 1 /\ held \in 0 .. Cap /\ ReadInterval \in Nat /\ WriteTime \in Nat
  BY <1>1, TypesUnfolded, Bounds DEF IInv, Holding
<1>4. late' \in {"quiet", "read", "missed"}
  BY <1>1 DEF IInv, TypeOK
<1>5. Points'
  BY <1>1, <1>3 DEF IInv, Points
<1> QED BY <1>1, <1>2, <1>3, <1>4, <1>5, ReturnKeeps DEF IInv, TypeOK

LEMMA ScanGoesOnKeeps ==
  ASSUME IInv, ScanGoesOn
  PROVE  IInv'
<1>1. /\ pc = "test" /\ pc' = "wait"
      /\ UNCHANGED <<mood, track, gpuOn, job, at, spent, cpu, pg, found, age, level, held, last,
                     late, stalls>>
  BY DEF ScanGoesOn, devVars, scanVars, pointVars
<1>2. UNCHANGED Budget
  BY <1>1 DEF Budget
<1>3. TypeOK'
  BY <1>1, <1>2 DEF IInv, TypeOK
<1>4. Counts' /\ Times' /\ Aged' /\ Holding' /\ Points'
  BY <1>1 DEF IInv, Counts, Times, Aged, Holding, Points
<1> QED BY <1>3, <1>4 DEF IInv

LEMMA LevelEndsKeeps ==
  ASSUME IInv, NEW t \in WriteTimes, LevelEnds(t)
  PROVE  IInv'
<1>1. t \in Nat
  BY Bounds DEF WriteTimes
<1>2. CASE last # "none" /\ level < Levels
  <2>1. ToLevel(level + 1, t) /\ level + 1 \in 1 .. Levels
    BY <1>2, TypesUnfolded, Bounds DEF IInv, LevelEnds
  <2> QED BY <1>1, <2>1, ToLevelKeeps
<1>3. CASE ~(last # "none" /\ level < Levels)
  BY <1>3, ToCycleKeeps DEF LevelEnds
<1> QED BY <1>2, <1>3

LEMMA CallerKeeps ==
  ASSUME IInv, Caller
  PROVE  IInv'
<1>1. WriteTimes \subseteq Nat /\ 0 .. CommandTimeout + WriteTime \subseteq Nat /\ 1 \in 1 .. Levels
  BY Bounds DEF WriteTimes
<1>2. CASE GateSkips
  BY <1>2, ToCycleKeeps DEF GateSkips
<1>3. ASSUME NEW t \in 0 .. CommandTimeout + WriteTime, GateOpens(t)
      PROVE  IInv'
  BY <1>1, <1>3, ToLevelKeeps DEF GateOpens
<1>4. ASSUME NEW t \in WriteTimes, CycleWrites(t)
      PROVE  IInv'
  BY <1>4, CycleWritesKeeps
<1>5. ASSUME NEW t \in WriteTimes, ScanAborts(t) \/ ScanStopsDescent(t)
      PROVE  IInv'
  BY <1>1, <1>5, ToCycleKeeps DEF ScanAborts, ScanStopsDescent
<1>6. ASSUME NEW t \in WriteTimes, ScanReads(t)
      PROVE  IInv'
  BY <1>6, ScanReadsKeeps
<1>7. ASSUME NEW t \in WriteTimes, LevelEnds(t)
      PROVE  IInv'
  BY <1>7, LevelEndsKeeps
<1>8. CASE ScanMisses \/ ScanGoesOn
  BY <1>8, ScanMissesKeeps, ScanGoesOnKeeps
<1> QED BY <1>2, <1>3, <1>4, <1>5, <1>6, <1>7, <1>8 DEF Caller

-----------------------------------------------------------------------------
LEMMA Starts ==
  ASSUME Init
  PROVE  IInv
<1>1. /\ mood \in [Source -> Mood] /\ track = [d \in Drive |-> "none"] /\ gpuOn = FALSE
      /\ pc = "probe" /\ job = "gate" /\ at = 1 /\ spent = 0 /\ stalls = 0
      /\ cpu = 0 /\ pg = 0 /\ age = Cap /\ level = 0 /\ held = 0
      /\ last = "none" /\ late = "quiet"
      /\ found = [hdd |-> 0, ssd |-> 0]
  BY DEF Init
<1>2. found \in [{"hdd", "ssd"} -> 0 .. 3] /\ Budget \in Nat
  BY <1>1, Bounds DEF Budget
<1>3. track \in [Drive -> {"hdd", "ssd", "none"}]
  BY <1>1
<1>4. /\ gpuOn \in BOOLEAN
      /\ last \in {"none", "earlier", "own"} /\ late \in {"quiet", "read", "missed"}
      /\ pc \in {"probe", "wait", "cpu", "gpu", "smart", "drive", "done", "failed", "test"}
      /\ job \in {"gate", "scan", "cycle"}
  BY <1>1
<1>5. /\ at \in 1 .. Len(Drives) + 1 /\ spent \in 0 .. Budget /\ cpu \in 0 .. 3 /\ pg \in 0 .. 3
      /\ age \in 0 .. Cap /\ level \in 0 .. Levels /\ held \in 0 .. Cap
      /\ stalls \in 0 .. Len(Drives) + 3
  BY <1>1, <1>2, Bounds
<1>6. TypeOK
  BY <1>1, <1>2, <1>3, <1>4, <1>5 DEF TypeOK
<1> QED BY <1>1, <1>6 DEF IInv, Counts, Times, Aged, Holding, Points

LEMMA Stays ==
  ASSUME IInv, [Next]_vars
  PROVE  IInv'
<1>1. CASE Startup
  BY <1>1, ProbeKeeps
<1>2. CASE Reading
  BY <1>2, BeginKeeps, ReadCPUKeeps, ReadGPUKeeps, SmartCachedKeeps, SmartRoundKeeps,
     ReadDriveKeeps DEF Reading
<1>3. CASE Caller
  BY <1>3, CallerKeeps
<1>4. CASE ScanWriteFails
  BY <1>4, ToCycleKeeps DEF ScanWriteFails
<1>5. CASE \E s \in Source : \E m \in Moods[s] : Turn(s, m)
  BY <1>5, TurnKeeps
<1>6. CASE UNCHANGED vars
  <2>1. UNCHANGED <<mood, track, gpuOn, pc, job, at, spent, cpu, pg, found, age, level, held, last, late, stalls>>
    BY <1>6 DEF vars, scanVars, pointVars
  <2>2. UNCHANGED <<Budget, Monitored>>
    BY <2>1 DEF Budget, Monitored
  <2>3. TypeOK'
    BY <2>1, <2>2 DEF IInv, TypeOK
  <2> QED BY <2>1, <2>2, <2>3 DEF IInv, Counts, Times, Aged, Holding, Points
<1> QED BY <1>1, <1>2, <1>3, <1>4, <1>5, <1>6 DEF Next

\* Every reachable state satisfies the inductive invariant.
THEOREM Invariance == Spec => []IInv
BY Starts, Stays, PTL DEF Spec

\* Every variable keeps its type; the time a reading takes stays within its
\* caller's deadline, whatever hangs.
THEOREM TypeCorrect == Spec => []TypeOK
<1>1. IInv => TypeOK
  BY DEF IInv
<1> QED BY <1>1, Invariance, PTL

\* What a cycle decides on is no older than the cache interval or the deadline:
\* a round in progress started within the reading, a cached one within the
\* interval.
THEOREM ReadingsAreRecent == Spec => []DriveReadingIsRecent
<1>1. IInv => DriveReadingIsRecent
  BY TypesUnfolded, Bounds DEF IInv, Aged, DriveReadingIsRecent, Most, Budget
<1> QED BY <1>1, Invariance, PTL

\* One stalled command leaves a cycle time for its fan writes.
THEOREM OneStall == Spec => []OneStallLeavesTime
<1>1. IInv => OneStallLeavesTime
  <2> SUFFICES ASSUME IInv, job = "cycle", pc \in {"done", "failed"}, stalls <= 1
               PROVE  Left > 0
    BY DEF OneStallLeavesTime
  <2>1. stalls \in {0, 1} /\ spent \in Nat /\ Budget = CycleBudget
    BY TypesUnfolded DEF IInv, Budget
  <2>2. spent <= CommandTimeout
    BY <2>1, Bounds DEF IInv, Times
  <2> QED BY <2>1, <2>2, Bounds DEF Left
<1> QED BY <1>1, Invariance, PTL

\* A level that dwells for the cache interval and the longest fan write ends on
\* drive temperatures that were measured at it, unless every reading after the
\* cache interval failed.
THEOREM PointsOfTheirLevel ==
  ASSUME Dwell >= ReadInterval + WriteTime
  PROVE  Spec => []PointIsOfItsLevel
<1>1. IInv => PointIsOfItsLevel
  <2> SUFFICES ASSUME IInv, pc = "test", DwellOver, last # "none"
               PROVE  last = "own" \/ late = "missed"
    BY DEF PointIsOfItsLevel
  <2>1. held \in Nat /\ held >= ReadInterval + WriteTime
    BY TypesUnfolded, Bounds DEF IInv, DwellOver
  <2>2. job = "scan" /\ late # "quiet" /\ (late = "read" => last = "own")
    BY <2>1, Bounds DEF IInv, Holding, Points
  <2>3. late \in {"quiet", "read", "missed"}
    BY DEF IInv, TypeOK
  <2> QED BY <2>2, <2>3
<1> QED BY <1>1, Invariance, PTL
=============================================================================
