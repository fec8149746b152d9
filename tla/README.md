# host-agent: a TLA+ verification project

host-agent runs on Dell servers, takes the chassis fans away from the BMC and
drives them from CPU, GPU and drive temperatures.  Its value lies in behaviour
that unit tests see only in slices: commands that the BMC loses or undoes, a
process that is killed half way through a one-time scan, a learner that
integrates over a window of the past, a second goroutine that hands targets
over, sensor commands that hang, settings that come from five places.  This
directory models that behaviour in TLA+, checks it with TLC and proves the most
important parts with TLAPS.

Paths such as `main.go` and `controller.go` refer to `src/cmd/fan-controller/`
and `src/internal/<package>/`.  `PROJECT.json` maps every definition to the
lines it models.

    tlc -workers 2 -config MCHostAgent.cfg MCHostAgent     # a run
    tlapm HostAgentProofs.tla                              # the proofs


## 1. The system

| component | state it keeps | operations | talks to |
|---|---|---|---|
| control law (`control/`, `envelope/`) | none | `CurveF`, `SlewDown`, `ActiveGPUAssist`, max-wins, EWMA, `MaxRampStart` | called by the cycle |
| control cycle (`controller/`) | `CurrentSpeed`, smoothed temperatures, `InEmergency`, `Last*Temp`, `Last*Demand` | `Cycle`, `LoadState`, `PersistState` | reads sensors, commands the BMC, reads `cfg`, feeds the observer through `Last*` |
| BMC client (`ipmi/`, `runner/`) | the addressing dialect (`FanIndices`) | engage, handback, set fan, probe, vendor query | one `ipmitool` run per command, each with a deadline |
| process lifecycle (`main.go`) | `scanned`, `baselineDirty`, fan control on or off, the signal context | startup, monitor-only fallback, scan gate, main loop, checkpoints, shutdown | everything |
| box scan (`scan.go`, `learn/scan.go`) | level, last reading, one point per level | drive 80/55/30 %, re-assert, abort, `FitComfort`, save | the BMC directly, not through the cycle |
| learner (`learn/learn.go`, `learn_integration.go`) | `cfg.*Comfort`, `learned.json` | `runLearnTick`, `TargetSeek`, `loadBaseline`, `saveBaseline` | reads the observer, moves the ramps the cycle uses |
| observer (`adaptive/observer.go`) | a sliding window per class | `Add`, `Stats` | fed by the main loop, read by learner and reconciler |
| reconciler (`adaptive/reconciler.go`, `state.go`) | a target and deadband per class, `adaptive.json` | `NewReconciler`, `Step`, `Persist` | its own goroutine; reads the observer |
| live targets (`livetargets/`) | a staged target and deadband per class | `Set`, `Get`, `ApplyTo` | written by the reconciler goroutine, read by the main loop before each cycle |
| mode and configuration (`mode/`, `config/`) | `cfg`, the pinned classes | `Load` (environment over profiles), `ApplyMode`, `Validate`, scores | all of the above; `learned.json` overlays the ramps |
| sensors (`sensors/`, `compositeReader`) | what `Probe` found, a 60 s SMART cache | `Probe`, `Read` | coretemp files, `ipmitool sdr`, `nvidia-smi`, `smartctl`, each command with a deadline |
| state file, metrics, shell services | `state.env`, Prometheus text, s6 scripts | load, save, write, supervise | the supervisor restarts fan-controller |

Two loops are nested.  The inner one (the cycle, seconds) holds the chassis at
the loudest class's curve; the outer one (the learner, minutes) shifts where
each class's curve begins so that the class settles at its target.  A third,
optional one (the reconciler) drifts the targets themselves.

What is hard here, and what makes each part correct:

* **Cycle and BMC.**  The BMC may leave manual mode by itself between any two
  commands and then answers fan writes "ok" without obeying.  A command may
  fail after it took effect.  A box without the broadcast selector needs one
  command per fan, so a cycle can stop half way.  *Correct* means: what the
  controller believes is what the fans do; a fall is slow and a rise immediate;
  the setpoint never lies below what a class needs and reaches it.
* **Lifecycle.**  SIGTERM arrives in the middle of the probe, the scan or a
  cycle, and every later command then fails under the cancelled context except
  the last; SIGKILL arrives anywhere; the next process decides from two files.
  *Correct* means: no process leaves manual mode behind but by a failed handback
  or a sudden end, no ramp in use is forgotten,
  a finished scan is finished, a monitor-only process keeps its hands off, the
  first commands of a start are on the safe side, a stop stops.
* **Sensing.**  A reading is a chain of commands, each of which may hang until
  its own timeout or the caller's deadline; drive temperatures are cached, also
  when the round that gave them failed; a fan write may take as long as a
  reading. *Correct* means: what is decided on is recent, a level of the scan is
  measured at that level, one hung command leaves time for the fan writes, a
  broken drive does not hide a hot one.
* **Configuration.**  Environment, model profile, default profile, mode and
  learned file write the same knobs in an order spread over three functions.
  *Correct* means: what runs is safe, the operator's numbers hold, two separate
  looks at the environment agree on what he pinned, and a shipped profile is
  never refused.
* **Learner and reconciler.**  Both integrate over one window of the past, and
  each moves what the other chases: the learner a ramp towards the target, the
  reconciler the target by what the ramp made of the box.  Two classes share one
  fan, and sensors fall silent or read what the observer does not believe.
  *Correct* means: they come to rest, where they promise, and no class gives
  back fan another class asked for.
* **Reconciler and hand-off.**  Two goroutines, a ticker, a file of any age and
  a shutdown that races a step.  *Correct* means: targets stay in their
  envelope and walk, decisions reach the cycle in order and whole, a pin is a
  pin, a graceful stop loses at most the step that raced it.


## 2. Modules

| module | what it is | builds on |
|---|---|---|
| `ControlLaw` | the curve, slew limit, assist, max-wins, input smoothing, ramp cap as operators on integers | |
| `LearnLaw` | window percentiles, the settled gate, `TargetSeek`, the least-squares `FitComfort` | `ControlLaw` |
| `ScoreLaw` | the mode scores, the projections one degree up and down, the best drift, the deadband | `ControlLaw` |
| `Bmc` | a Dell BMC and the commands of `ipmi.go`, with lost answers and spontaneous reverts | |
| `Chassis` | **abstract**: what an observer of the fans may rely on | |
| `FanController` | `Controller.Cycle`, one step per command; `Promise` refines `Chassis` | `Bmc`, `ControlLaw` |
| `BoxRecord` | **abstract**: what the agent remembers of its box | |
| `HostAgent` | the life of the process, the scan, the two files, restart after restart; `Remembers` refines `BoxRecord` | `Bmc`, `ControlLaw` |
| `Learner` | the learner tick and, for drifting targets, the reconciler's step around it; their window, and an external plant they steer | `LearnLaw`, `ScoreLaw` |
| `Directive` | **abstract**: what a control cycle may rely on about its targets | |
| `Adaptive` | the reconciler goroutine, the store, the main loop's `ApplyTo`, `adaptive.json`; `Promise` refines `Directive` | `ScoreLaw` |
| `Sensing` | probing, one reading command by command, the SMART cache, and its three callers: gate, scan, cycle | |
| `Config` | `Load`, `ApplyMode`, `Validate`, the learned overlay and the span, life after life | `ScoreLaw` |
| `ControlLawProofs`, `FanControllerProofs`, `HostAgentProofs`, `LearnerProofs`, `AdaptiveProofs`, `SensingProofs`, `ConfigProofs`, `MCControlLawProofs` | theorems | the module each is named after (the last also on `ControlLawProofs`) |
| `MC*` | constants for TLC | the module each is named after (`MCDrift`: `Adaptive`) |

Names of actions follow the code's functions where one exists (`ApplyTo`,
`Persist`, `LearnTick` for `runLearnTick`) and otherwise say what a stretch of
`main` does (`Resume`, `Probe`, `Flush`, `Farewell`).

### Correspondence

*Numbers.*  Fan speeds and raw temperatures are the code's integers.  A smoothed
temperature is a whole number of `1/Res` degrees; every float expression of the
law is a quotient of integers and is rounded exactly (`RoundedRatio`).
`EwmaDt` moves the smoothed value a fraction `1 - exp(-dt/60)` of the way to the
reading and never arrives; in units it may stand still, arrive, or anything
between, and `SmoothTemp` allows all of that from the old value to the reading,
both included.  That a filter nears a reading that stays is a fact about the
exponential which a step in whole units cannot carry: `Settles` takes it as its
hypothesis `CaughtUp`, within one unit of the reading, on whichever side.
Scores are in thousandths, standard deviations and means in tenths, so ties are
exact where the floats of the code may break them by rounding.

*Commands* (`Bmc`).  One command is one `runner.Exec` with a deadline: `ok`,
`failed`, or `lateFailure` (the BMC obeyed, the answer did not come in time).
In auto mode a fan write is answered and ignored.  A revert clears the manual
setpoints.

*The cycle* (`FanController`).  `BeginCycle` is the engage, the reading with the
whole decision is one step (it touches memory only), then one `WriteFan` per
command.  `branch` records which way `Cycle` went; `EmergencyHold` is its early
return without a write.  `Init` is the state after a startup that did not scan;
after an aborted scan a fan may hold a scan level until the next complete fan
set.  The `held` and `failed` variables are history and enter no guard.

*The process* (`HostAgent`).  `phase` is the program counter of `main`, as the
diagram at its head shows.  A cycle is one step here; that this is sound is what
`FanController => Chassis` says: whatever the order of its commands, a cycle
drives some of the fans to its one setpoint.  `Reach` allows any subset of the
addressed fans to have been reached before an error, where the code reaches a
prefix.  The scan's fitted ramp and the learner's moves are choices from
`Comforts`; the laws behind them are in `LearnLaw` and `Learner`.  Configuration
is the same on each restart.  A crash keeps the files as they were (a killed
process, not a power loss), and `os.Rename` is atomic.  For `BoxRecord`,
`stored` is what `loadBaseline` makes of the file (of none, or of an older one:
an unscanned box with the profile's ramp), `working` the `scanned` and `comfort`
of `main`, and `running` says that they have been loaded.  `handback` (whether
the last handback sent had its effect), `lastExit` and `lost` are history.  The
legacy `base_speed` of a v1 state file is left out.

*The learner* (`Learner`).  One `Dwell` stands for all the cycles between two
learner ticks, long enough for the inner loop to settle (the two timescales the
design claims); it leaves one sample, because percentiles and deviation of equal
blocks are those of one sample per block.  `Window` is the window's minutes over
the tick's.  The plant is external: a class sits at its load's temperature less
what the shared fan removes, and the fan is the least one that satisfies every
curve.  `asked` is history, for the properties.  `Slide` is `Observer.Add` with
its sanity range; the inlet reset cannot happen (main passes inlet 0).

For the classes in `Drifting`, `Drift` is the reconciler's `Step` over the very
windows the ramps and targets brought about.  Its ticker and the learner's have
one period, and either may come first after a dwell.  The new target is in use
from the next dwell on; what may happen on the way is `Adaptive`'s subject.
Deadbands are left out: neither the learner nor the cycle reads them.  `Stats`
rounds mean and deviation to tenths.

*The reconciler* (`Adaptive`).  `Step` and `Persist` hold `r.mu`, `Set` and
`ApplyTo` the store's lock: each is one action, and the loop stages its actions
one by one, so a cycle can fall between two of them.  A `Step` may find any of
the given windows in the observer, whatever targets were in use: no property
relies on a friendly plant (`Learner` is the module with a plant).  Because
ticks are minutes apart and a shutdown takes seconds, at most one tick is still
waiting when the process is asked to stop.  For `Directive`, `decided`,
`offered` and `used` are the targets of `rec`, `staged` and `cfg` for the
classes that are not pinned.

*Readings* (`Sensing`).  Time is in ticks of the control interval.  A command
that answers or fails takes none; one that hangs takes its timeout, or what is
left of its caller's deadline, and under an expired deadline fails at once.  The
sources turn between readings, which covers turns within one, as each command
asks its own source once.  A temperature is one of three bands of its class (far
from, near, at the emergency temperature), the ones the scan tells apart.  Two
readings a whole number of ticks apart may be a moment less or more than that
apart: at equality the cache may count as fresh or not (`jitter`).  `Probe` may
list any of the drives and take a disk for an SSD (a `smartctl -i` that does not
answer).

Fan writes take time as well.  A scan re-asserts its level after each reading,
before it looks at its deadline, and each of the commands of that `SetFan` may
hang: the write of a scan takes any time up to `WriteTime` (`ScanReads`), and
the loop's test comes after it (`pc = "test"`).  Under a hung BMC the engage of
a cycle uses up a command's timeout before the first sensor is asked (`Begin`),
and a cycle's writes end with its deadline (`CycleWrites`).
`last` and `late` are history: whether the drive values that the level would end
with were measured at this level, and whether a reading of it came out after the
cache interval.  What a stalled cycle's writes leave undone is in
`FanController`.

*Settings* (`Config`).  A value is what its text parses to: absent, blank,
garbled or a number.  Lives follow one another with other environments and the
same `learned.json`; the box and its profile stay.  `FAN_GAIN` and `ADAPT_ALPHA`
are fixed-point.  Knobs that nothing validates and no later step touches are
left out: they take the same way through `Load`.


## 3. Runs

| run | module, cfg | question | result |
|---|---|---|---|
| `control_law` | `MCControlLaw` | do the pure laws compute what their comments say? | holds |
| `fan_controller` | `MCFanController` | does a cycle deliver its setpoint, never below the demand, and keep the promise of `Chassis`? | holds |
| `settle` | `MCFanController`, `MCSettle` | under constant readings, does the setpoint come to rest at the demand, or where a smoothing that never arrives leaves it? | holds |
| `host_agent` | `MCHostAgent` | do the lifecycle properties hold over every interleaving of signals, crashes, restarts, reverts, failed commands and failed saves? | holds |
| `learner` | `MCLearner` | does the learner come to rest, at its target, without a ratchet between classes? | holds |
| `two_loops` | `MCLearner`, `MCTwoLoops` | do ramps and drifting targets, chasing each other through one window, come to rest, each at the other? | holds |
| `adaptive` | `MCAdaptive` | are targets bounded, pinned, handed over and saved as promised? | holds |
| `sensing` | `MCSensing` | is what is decided on recent, of the right scan level and complete, whatever hangs or fails? | holds |
| `config` | `MCConfig` | is what runs safe and the operator's, over modes, profiles, bad values and inherited files? | holds |
| `emergency_hold` | `MCFanController`, `MCEmergencyHold` | "any class >= its EMERGENCY => fans = 100%" (`README.md:357`) | violated |
| `stranded` | `MCHostAgent`, `MCStranded` | "never stranded in manual mode" (`main.go:713`) | violated |
| `drift_past_emergency` | `MCDrift` | "The invariant is target < emergency" (`config.go:340`) | violated |

What the violated ones show:

* `emergency_hold`: the fan-set on entry to an emergency fails, or the BMC
  reverts in the same cycle; the setpoint is 100 already, so later cycles of the
  emergency take the early return and write nothing.  The engage of the later
  cycle puts the BMC back into manual mode without a full-speed write.
* `stranded`: the one handback of the monitor-only fallback fails (under a
  cancelled context it always does) and only the shutdown's handback is left.
* `drift_past_emergency`: `Validate` compares target and emergency once, at
  start-up; the reconciler bounds its drift by the envelope, to `MaxSafe - 1`,
  and does not know the emergency temperature.  On `default.env` (SSD emergency
  65, `MaxSafe` 70) idle SSDs in min-noise mode drift from 60 through 65.

### What each property says

`control_law`.  `CurveIsStretchedFloor`: the v3 curve equals the v2 proximity
floor with its window stretched over the ramp.  `GainIsBounded`: under the
minimum span one degree of noise moves the fan by at most its share.
`AssistSpansTheRange`: the boundary cases of the assist's division.
`FitHoldsTarget`: the ramp the scan places asks, at the target, for the fitted
fan to within a degree of ramp.  `SaturationRaises`: a saturated fan raises the
target in every mode but max-cool, wherever the mean lies; `BandAttracts`: a
calm window is not driven away from the preferred band.

`fan_controller`, `settle`.  `SetpointDelivered`, `NeverBelowDemand` and
`KeepsPromise` (the refinement of `Chassis`), as above; the type invariant says
in passing that no fan is ever told a percent outside the limits other than
exactly 100.  `Settles`: once the readings stay and the smoothing has caught up
with them to within a unit, the setpoint stops moving, between the demand of
the readings and that of temperatures one unit lower.  Where the curve value at
a reading is halfway between two percents these differ: approached from below,
the code rests a percent short of the demand for ever (ramp from 4 to 8 degrees,
reading 6, 95 to 98 %: 96 and not 97).  It never rests above, and no further
below.

`host_agent`.  `ManualIsAccountedFor` (a BMC in manual mode that no process
drives was left so by a handback that had no effect, by a process that was
killed or refused to start, or waits for the handback of a process just told to
stop: what the last process left, the probe, the opt-out and a SIGTERM that
swallows the fallback's handback come together here), `UnsavedIsDirty` (a ramp
in use that a restart would not resume is marked for saving; the exception is
the ramp of a scan whose own save failed, which the code does not mark),
`SafeSide` (nothing below the safe floor before a temperature was read),
`MonitorOnlyIsHandsOff`, `KeepsRecord` (the refinement of `BoxRecord`: a start
resumes the record on file, scan and ramp are saved only as they are in use and
both together, a scan on file is not taken back), `StopsWhenAsked`.

`learner`, `two_loops`.  `ReclaimsOnlyOwnFan` (the ratchet for which older
epochs of `learned.json` were discarded).  `ComesToRest`: once the load stays as
it is, neither ramps nor targets move any more.  `RestsAtTarget`: and then every
class whose readings the observer believes is near the target in force, or has
no fan left to gain or to give back.

`adaptive`.  The type invariant carries the envelope.  `PinIsKept`,
`LosesAtMostOneStep`, `DecisionsTakeEffect`; `KeepsDirective` is the refinement
of `Directive`: a target walks by a degree, or restarts at its mode's; a
decision is handed over before the next one is made; a cycle takes what is on
offer for all classes at once.

`sensing`.  `DriveReadingIsRecent`: what a cycle knows of the drives is at most
a minute old.  `OneStallLeavesTime`: one hung command leaves a cycle its fan
writes.  `PointIsOfItsLevel`: the drive temperatures that end a scan level were
measured at that level, although the cache is a minute old at worst and the
write after a reading may outlast the deadline, so that no later reading comes.
It holds if the dwell is as long as the cache interval and the longest write
together, and excludes one case that the code has: when no reading after the
cache interval succeeds, the level keeps the last one before
(`scan.go:127-129`).  A descent that a class near its emergency stops early ends
its level without the test.  `HotDriveIsSeen`: a drive that stays hot and keeps
answering is in every later decision, whatever the others do, as long as no more
than one source hangs.  `ScanEnds`.

`config`.  `RunsOnSafeSettings`: fan range, targets under emergencies, and ramps
of at least their span, whatever the environment, profile and an old
`learned.json` say.  `OperatorsNumbersHold`: a number in the environment is the
number in force (ramp starts excepted: learned ones come later).
`PinsFollowTheMode`: the classes the reconciler may move are those that start at
the mode's target.  `OnlyOverridesAreRefused`: every mode starts on every
shipped profile.

### Bounds, and why they are enough

* `control_law`: ramps of 0 to 9 degrees, three minimum and two maximum speeds,
  readings at half degrees, thresholds at, just below and far from 100.  The fit
  sees the code's 3 levels (`ScanFans`) and its margin of 5 (`ScanMargin`), and
  from level to level every change from 1 degree down, which is noise, to 3 up
  (`Rises`).  The scores see the processor's envelope and means from 5 degrees
  below to 5 above it.
* `fan_controller`: two fans addressed one by one (the first stale-fan case
  needs two), a 95..98 % range next to 100 so that slewing, clamping and
  emergency speed are all a step or two apart, gaps of 2 s (fall 1) and 15 s
  (fall 3), four readings covering cool, warm with an absent class, assist, and
  emergency, and a ramp that the learner moves beyond its cap.  `settle`
  (211,920 states) uses the broadcast dialect and quarter degrees, fine enough
  that no rounding boundary of its ramps lies between a reading and the unit
  above; one of its readings lies on a boundary.  Spans are a few degrees: the
  law is exercised at its real shape by `control_law`.
* `host_agent`: one fan (the cycle's per-fan behaviour is `fan_controller`'s),
  the code's three scan levels, its floor of 50 inside a 20..60 range so that
  both sides of the floor are met, two ramp starts.  Restarts, crashes and
  reverts are unbounded.
* `learner` (55,194 states): drives whose worst load no fan can cool and SSDs
  that may or may not be cooled by the drives' fan, window of two ticks (the
  code's default 20 minutes), profile ramps below, at and beyond the cap, a
  `Floor` of 32 instead of 20 to shorten the longest descent, a sanity range
  that idle drives fall out of (`MinSafe` raised to 25), and at most two
  disturbances (`MaxDisturbances`): enough for a class to fall silent and
  return, or for the load to rise and fall.
* `two_loops` (72,473 states): both classes drift from every target of their
  bands, in balanced mode, with one disturbance; the drives saturate under the
  higher load, so that the score and the curve pull in opposite directions.
  With `InMode` set to any of the three other modes the same run passes too.
* `adaptive` (237,088 states): two managed classes and a pinned one, bands of
  two targets so that both clamps are met, windows for each reason of
  `reconcileClass`, an inherited file that knows the pinned class and not the
  processor; the history counter `behind` saturates at 2, one beyond what the
  property permits.  (Within two targets a jump is a walk: that drifts walk is
  left to the proof.)
* `sensing` (1,140,796 states): two drives, the disk second so that another
  comes before it; per source the moods that matter there; the code's
  proportions: a timeout of 2 ticks, a deadline and a cache of 4; fan writes of
  up to two timeouts, one per fan; two levels, so that one follows another.  A
  dwell of 8 is two minutes, the shortest in whole minutes that holds the cache
  interval and such a write.
* `config` (196,524 states): the shipped `default.env`, the three kinds of
  shipped chassis profile and a box without one, every mode, unset and unknown;
  at most two knobs set at a time, since each property relates two of them, to
  numbers on either side of what the others ask for, to nothing, or to something
  that is no number; ramps learned at either end of their bounds.
* `drift_past_emergency`: the shipped numbers of one class.

### Fairness

* `FanController`: `WF(CycleStep)`.  The ticker keeps calling `Cycle` and every
  command has a deadline.
* `HostAgent`: `WF(AgentStep)`, because a running process goes on;
  `WF(ScanDeadline)`, because the dwell's timer fires; `SF(Flush)`, because Go's
  `select` chooses uniformly among ready cases, so a cancelled context that is
  ready at each turn of the loop is not passed over for ever.  Nothing forces a
  start, a signal or a crash.
* `Learner`: `WF(Dwell \/ LearnTick \/ Drift)`: the main loop and the goroutine
  run; which of two waiting ticks comes first is left open.
* `Adaptive`: `WF(ApplyTo)`, `WF(Stage)`: the main loop and the goroutine run.
  No fairness of `Step` or the ticker is needed.
* `Sensing`: `FairSpec` has `WF` of start-up, reading and caller: every command
  returns, by its answer or its deadline, and the tickers go on.  Nothing forces
  a source to turn.

`Chassis`, `Directive`, `BoxRecord`, and every safety property, is without
fairness.  Deadlock is checked in every run but the enumeration of
`control_law`, whose inputs run out.


## 4. Proofs

TLAPS checks these for every value of the constants that the modules' ASSUMEs
allow (`ResAssumption`, `FloorAssumption`, `ConfigAssumption` of
`FanController`, `LifeAssumption`, `LearnerAssumption`, `AdaptiveAssumption`,
`SensingAssumption`, `InputsAssumption`: what `config.Validate`,
`Envelope.Valid` and the readers guarantee, and, of an inherited
`adaptive.json`, that this version wrote it.  Beyond validation,
`InputsAssumption` takes the assist's threshold for a percent.
`ConfigAssumption` of `Config` demands types only, and `ShippedAssumption` says
what the files under `profiles/` have in common; only `OnlyOverrides` uses it).
TLC evaluates the same ASSUMEs in the runs.

* `ControlLawProofs`.  The laws of the cycle for all values: `SlewDownSound` and
  `MaxWinsSound`; the curve never falls with the temperature (`CurveMonotone`),
  is full from the emergency on (`CurveEndsFull`), rises by a bounded share per
  degree (`CurveGain`), never asks for more when its ramp begins later
  (`CurveRampMonotone`) and is the v2 floor stretched (`CurveStretchesFloor`);
  the assist spans its range (`AssistSpans`).  They rest on a few facts about a
  rounded ratio: its bounds, and that it keeps order, scale and gain.
* `MCControlLawProofs`.  Every property of the run `control_law`, for all inputs
  in place of the enumerated ones.  `FitHolds` speaks of any fitted line and any
  number of points; `FitHoldsAll` adds that the sums over three points make one,
  whatever the levels, the temperatures (falling ones too), the margin, the
  target and the range (the fold is unrolled: what it computes for any number of
  points would need induction over data).  `SaturationAlwaysRaises` and
  `BandAlwaysAttracts` speak of every envelope and every window: a degree up
  never raises a term of the score but the mean's, and takes more off the
  saturation's square than the mean can add.
* `FanControllerProofs`.  `TypeCorrect`.  `SetpointIsDelivered` by the inductive
  invariant `Delivery`: the property speaks of the end of a cycle only, so the
  induction needs what holds between two commands: the fans before `wr` already
  hold the setpoint as long as the BMC stayed in manual mode, and no command has
  failed while writing goes on.  `DemandIsMet` (an action property, from the
  type invariant and `DemandSound`).  `HeatIsMet` says the same of temperatures:
  with `SmoothTempLag` (smoothing delays, it invents nothing, however little it
  moves) and `CurveMonotone`
  no class gets less than its curve asks for at the lower of its reading and its
  smoothed history.  `ImplementsChassis`: initial states map to
  initial states and each step to `TakeOver`, `Drive`, `TakeBack`,
  `ChooseSetpoint` or a stutter, under the refinement `mode <- bmcMode,
  setpoint <- currentSpeed`, with the permitted falls those of the gaps `Dts`.
* `HostAgentProofs`.  `TypeCorrect` in three parts (BMC, process, files).  The
  inductive invariant `Life` ties phases to facts established earlier in the
  same life: the engage speed is above the floor until a temperature was read, a
  scan runs only under fan control and after a reading, a recorded scan is
  remembered past `Resume`, and until the main loop the ramp in use is the one
  on file.  From it: `ManualHasACause` (by `ManualStep`, one step per action,
  since each way into monitor-only mode must be shown to send a handback),
  `NothingLearnedIsForgotten` (but for the failed save after a scan, as in the
  property), `EngagesFromTheSafeSide`, `HandsOff`, and `ImplementsRecord`: each
  step is a start, a scan, a move of the ramp, an end or a stutter of
  `BoxRecord`. `ScanIsOneTime` then uses nothing of the agent but that promise:
  a record in use was on file or is of a later scan (`Kept`), so saving it loses
  no scan.
* `AdaptiveProofs`.  `TypeCorrect` (the envelope), `PinsAreKept`, `StoreAgrees`
  and `ShutdownSaves`, for every set of classes, pins, mode, envelopes, windows
  and inherited files.  They need each other: that what is staged is in its band
  follows because every entry still in `todo` carries the reconciler's own pair,
  which is what the inductive invariant `HandOff` says.  `HandOff` also says
  that a class on which store and reconciler disagree has an entry still to
  come, that no pinned class is ever staged, and that on the way out either no
  tick is waiting or nothing has been lost yet.  `ImplementsDirective` needs
  `HandOff`, the envelopes, and `OnOffer` (a managed class always has something
  staged while the process lives, so that no cycle keeps an older target): a
  `Step` starts with nothing to stage, hence with all of the last decision on
  offer, and moves each target by what `BestDelta` and the clamp allow
  (`ReconciledWalks`).
* `LearnerProofs`.  `TypeCorrect` and `ReclaimsOnlyOwn` for every plant, load,
  window, profile and mode, by `Types`, `Ramps`, `Plant` and `Loop`.  `Types`
  says of each sample that its demand is what the class itself asked for, or
  that it was silent.  On the way: a percentile is a member of the window, the
  least fan that satisfies every curve exists (`SteadyFan`), a step that raises
  a ramp found a demand above the minimum.  `ReclaimsOnlyOwn` has a hypothesis,
  that no profile starts a ramp below the learner's floor: from there the first
  move is up to the floor, whoever asked.  `OnlyCoolGiveBack` joins the two
  loops: by `CurveRampMonotone`, a class whose median is not below its target
  asks after a tick for at least as much as before, at every temperature.
* `SensingProofs`.  `TypeCorrect`, `ReadingsAreRecent`, `OneStall` and
  `PointsOfTheirLevel` for every list of drives, timeout, deadline, interval,
  write time and dwell, the last under the hypothesis that the dwell is at least
  the cache interval and the longest write.  The invariant relates the clocks:
  `Times` what one reading has spent to the commands that hung in it, `Aged` the
  age of the cache to the time since its round began, `Holding` both to the time
  a scan level has been held; `Points` says that a level's last reading, once
  one ended after the cache interval, is the level's own, and that before that no
  test finds the dwell over.
* `ConfigProofs`.  `TypeCorrect`, `SafeSettings`, `OperatorsNumbers` and
  `PinsFollow` for every profile, environment, file and mode: the invariant says
  of a running agent which settings are in force (`InForce`) and that the
  learner keeps the spans (`Spans`).  `OnlyOverrides` needs of a refused start
  that what was refused is what this environment and mode load (`Refusal`), and
  then that no mode makes a shipped profile invalid.

Every invariant and action property of a passing run is stated by a theorem.
Only model-checked: liveness (`Settles`, `StopsWhenAsked`, `ComesToRest`,
`RestsAtTarget`, `DecisionsTakeEffect`, `HotDriveIsSeen`, `ScanEnds`), since
ENABLED and fairness are beyond the prover.


## 5. Not modelled

* **Metrics, logging, shell services, deployment**: no decision reads them.
  The supervisor appears as `HostAgent.Start`.
* **Tool output**: the readers' parsers are abstracted to what they return.
  Active GPUs share the passive cards' command and are left out of `Sensing`;
  their assist is in `FanController`.
* **`Observer.SaveTo`, `LoadFrom` and `Reset`**: no production code calls them.
* **Power loss** (a rename without fsync), and the BMC's own watchdog.
* `ACTIVE_GPU_EMERGENCY`, which `Validate` does not check, is unconstrained in
  `FanController`'s assumption.

Met while modelling, and not stated as properties, because no document says
otherwise, or because the divergence is one of a comment's wording:

* A scan gate passed on a failed or empty reading is recorded as a finished scan
  (`GateSkip`, `main.go:395`).
* With `SCAN_DWELL_MINUTES=1` the write after a reading may outlast the dwell,
  and a level may end on drive temperatures of the level before.
* The ramp of a scan whose own save fails is in use and not marked dirty
  (`main.go:402`): a restart before the learner moves it scans again.
* `SetFan` returns at the first index that fails, so the fans after it keep an
  older percent in that cycle; `ipmi.go:113` speaks of all the remaining ones.
* A step that keeps the target but computes a new deadband reports "settled" and
  is passed over (`main.go:698`), while memory and file hold it.  Nothing reads
  the deadband.
* `README.md:304` and `docs/adaptive-controller-v2.md:111` give a default window
  of 120 minutes; the code's is 20, and twelve ticks of window make the learner
  swing around its target, as `main.go:562` says.
* Two commands that hang for their 30 s use up a cycle's 60 s and its writes.
* `HDD_READ_INTERVAL` is parsed, logged and not used: the cache is always 60 s.
* A blank `*_TARGET` variable counts as an override in `ApplyMode` and
  `perClassOverrides`, but not in `Load`: the profile's number is then pinned.
* With no mode set, drifting starts at the balanced targets and not at those the
  agent ran on.
* The documents bound a drifting target by `PreferredHigh`; the code by
  `MaxSafe - 1`.
* `Last*Temp` is -1 only before the first reading; afterwards a class that falls
  silent is sampled at its last reading and its ramp moves at every tick, where
  `learn_integration.go:190` speaks of passing over an absent class.
* A class colder than `MinSafe` keeps its old window, and the learner goes on
  acting on it.


## 6. Plan

Done, in order of importance: the law, the cycle with its abstract promise, the
lifecycle with its abstract record, the learner, the reconciler with its
abstract hand-off, the readings, the settings, the reconciler around the
learner; every invariant and action property as a theorem, and the laws for all
values.  What is left:

1. The safety core of `HotDriveIsSeen` as a theorem: what a round of readings
   finds of a drive that answers, by history of who hung during the round.
2. The measures behind `StopsWhenAsked` and `ScanEnds`: that each step of a
   cancelled process, and of a scan, brings the end nearer is a safety fact and
   within the prover's reach; that steps happen is not.
3. That what `Config` establishes implies the assumptions of the other modules,
   stated once, so that the proofs compose.
