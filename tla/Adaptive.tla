------------------------------ MODULE Adaptive ------------------------------
(***************************************************************************)
(* The optional intent layer (HOST_AGENT_ADAPTIVE_DRIFT=on): the           *)
(* reconciler of internal/adaptive drifting one target per class on its    *)
(* own goroutine, the hand-off internal/livetargets, the main goroutine    *)
(* that copies targets into its configuration before every cycle, and      *)
(* adaptive.json across restarts.                                          *)
(*                                                                         *)
(*   goroutine:  wait --Step--> stage, stage, ... --> wait | gone          *)
(*   main:       cycle* --SIGTERM--> stopping --Persist--> leaving --> down *)
(*                                                                         *)
(* Step and Persist hold r.mu, Set and ApplyTo hold the store's lock: each *)
(* is one action.  Each Step finds any window of Windows in the observer.    *)
(***************************************************************************)
EXTENDS ScoreLaw, Sequences, FiniteSets

CONSTANTS
  Order,            \* the managed classes, in the order Step visits them
  Pinned,           \* classes whose *_TARGET the operator set in the environment
  InMode,           \* HOST_AGENT_MODE
  Env,              \* per class, its envelope
  Windows,          \* per class, the windows the observer may hold
  PinnedPair,       \* per pinned class, the operator's target and deadband
  MaxDeadband,
  Inherited,        \* what an adaptive.json of this mode and version may hold
  Behind            \* bound: Steps counted since adaptive.json was current

Class == {Order[i] : i \in DOMAIN Order}
Pair  == [target : Int, deadband : Int]

\* What adaptive.json says: a pair for some of the classes.  A file that is
\* missing, unreadable or of another version or mode says nothing.
Nothing == [c \in {} |-> [target |-> 0, deadband |-> 0]]
Unset   == [target |-> 0, deadband |-> 0]   \* Set never called: set = false

Ceiling(c) == Env[c].safe - 1
Band(c) == Env[c].low .. Ceiling(c)

Initial == [c \in Class |-> InitialTarget(Env[c], InMode)]

InBand(pair, c) ==
  /\ pair.target \in Band(c)
  /\ pair.deadband \in Initial[c].deadband .. MaxDeadband

\* Envelope.Valid, and files this version wrote.
ASSUME AdaptiveAssumption ==
  /\ Order \in Seq(STRING)
  /\ \A i, j \in DOMAIN Order : Order[i] = Order[j] => i = j
  /\ Pinned \subseteq Class
  /\ InMode \in Mode
  /\ Env \in [Class -> [low : Nat, mid : Nat, high : Nat, safe : Nat]]
  /\ \A c \in Class :
       /\ 0 < Env[c].low /\ Env[c].low <= Env[c].mid
       /\ Env[c].mid <= Env[c].high /\ Env[c].high < Env[c].safe
  /\ \A c \in Class : \A w \in Windows[c] :
       w.full \in BOOLEAN /\ w.mean \in Nat /\ w.sd \in Nat /\ w.changes \in Nat /\ w.p90 \in 0 .. 100
  /\ MaxDeadband \in Nat
  /\ \A c \in Class : Initial[c].deadband <= MaxDeadband
  /\ PinnedPair \in [Class -> Pair]
  /\ \A f \in Inherited :
       /\ DOMAIN f \subseteq Class
       /\ \A c \in DOMAIN f : f[c] \in Pair /\ (c \notin Pinned => InBand(f[c], c))
  /\ Behind \in Nat

VARIABLES
  phase,            \* main goroutine: "down", "cycling", "stopping", "leaving"
  rec,              \* Reconciler.state: per class
  staged,           \* livetargets.Store: per class
  cfg,              \* cfg.*Target and cfg.*Deadband, read by cycle and learner
  todo,             \* the actions of the last Step not yet looked at
  looping,          \* the reconciler goroutine has not returned
  ticked,           \* a tick waits in its ticker's channel
  file,             \* adaptive.json
  behind            \* history: Steps since adaptive.json last held rec

vars == <<phase, rec, staged, cfg, todo, looping, ticked, file, behind>>

-----------------------------------------------------------------------------
(* One class's reconcile decision. *)

Drifted_Unclamped(c, target, delta) == target + delta

Drifted(c, target, delta) == Clamp(target + delta, Env[c].low, Ceiling(c))

\* reconcileClass: how a class's window w is judged, and its next state.
Reason(c, w) ==
  CASE c \in Pinned -> "skipped"
    [] c \notin Pinned /\ ~w.full -> "warming_up"
    [] c \notin Pinned /\ w.full /\ w.sd > VarianceReset -> "variance_reset"
    [] OTHER -> IF BestDelta(InMode, Env[c], w) = 0 THEN "settled" ELSE "drift"

Reconciled(c, w) ==
  CASE Reason(c, w) \in {"skipped", "warming_up"} -> rec[c]
    [] Reason(c, w) = "variance_reset" -> Initial[c]
    [] OTHER -> [target   |-> Drifted(c, rec[c].target, BestDelta(InMode, Env[c], w)),
                 deadband |-> Deadband(InMode, Env[c], w, MaxDeadband)]

\* A variance reset is passed over as well.
Quiet_Reset(c, w) ==
  Reason(c, w) \in {"skipped", "warming_up", "settled", "variance_reset"}

\* The reasons runAdaptiveLoop passes over.
Quiet(c, w) == Reason(c, w) \in {"skipped", "warming_up", "settled"}

-----------------------------------------------------------------------------
Init ==
  /\ phase = "down"
  /\ rec = Initial /\ cfg = Initial
  /\ staged = [c \in Class |-> Unset]
  /\ todo = <<>> /\ looping = FALSE /\ ticked = FALSE
  /\ file \in {Nothing} \cup Inherited
  /\ behind = 0

\* LoadState, and the mode's pair for every class the file says nothing of.
Loaded == [c \in Class |-> IF c \in DOMAIN file THEN file[c] ELSE Initial[c]]

\* seedLiveTargets: pinned classes are left alone.
Seeded_All(r) == [c \in Class |-> r[c]]

Seeded(r) == [c \in Class |-> IF c \in Pinned THEN Unset ELSE r[c]]

\* main: configuration from mode and environment, NewReconciler,
\* seedLiveTargets, go runAdaptiveLoop.
Boot ==
  /\ phase = "down"
  /\ phase' = "cycling"
  /\ cfg' = [c \in Class |-> IF c \in Pinned THEN PinnedPair[c] ELSE Initial[c]]
  /\ rec' = Loaded
  /\ staged' = Seeded(Loaded)
  /\ todo' = <<>> /\ looping' = TRUE /\ ticked' = FALSE
  /\ behind' = 0
  /\ UNCHANGED file

\* A class is copied only as long as it still has the mode's pair.
ApplyTo_Once ==
  /\ phase = "cycling"
  /\ cfg' = [c \in Class |->
       IF staged[c] = Unset \/ cfg[c] # Initial[c] THEN cfg[c] ELSE staged[c]]
  /\ UNCHANGED <<phase, rec, staged, todo, looping, ticked, file, behind>>

\* The store's lock is taken for one class after the other, and a cycle may
\* read cfg between two of them.
ApplyTo_ClassByClass ==
  /\ phase = "cycling"
  /\ \E c \in Class : staged[c] # Unset /\ cfg' = [cfg EXCEPT ![c] = staged[c]]
  /\ UNCHANGED <<phase, rec, staged, todo, looping, ticked, file, behind>>

\* ApplyTo, then the cycle reads cfg.
ApplyTo ==
  /\ phase = "cycling"
  /\ cfg' = [c \in Class |-> IF staged[c] = Unset THEN cfg[c] ELSE staged[c]]
  /\ UNCHANGED <<phase, rec, staged, todo, looping, ticked, file, behind>>

\* The ticker fires every ADAPTIVE_CYCLE_MINUTES, a shutdown takes seconds: of
\* the ticks around it only one is still to come, here the one that waits.
Tick ==
  /\ phase = "cycling" /\ ~ticked
  /\ ticked' = TRUE
  /\ UNCHANGED <<phase, rec, staged, cfg, todo, looping, file, behind>>

\* SaveState behind the checkpoint interval or at shutdown: the file holds the
\* state, or the write failed and it is as before.
Saved(r) == file' = r /\ behind' = 0

StepCount == Smaller(behind + 1, Behind)

\* Reconciler.Step over every class, under r.mu; a select with both channels
\* ready may take the tick although the context is cancelled.
Step ==
  /\ phase # "down" /\ looping /\ todo = <<>> /\ ticked
  /\ ticked' = FALSE
  /\ \E w \in [Class -> UNION {Windows[c] : c \in Class}] :
       /\ \A c \in Class : w[c] \in Windows[c]
       /\ rec' = [c \in Class |-> Reconciled(c, w[c])]
       /\ todo' = [i \in DOMAIN Order |->
            [class |-> Order[i], pair |-> rec'[Order[i]], quiet |-> Quiet(Order[i], w[Order[i]])]]
  /\ \/ Saved(rec')
     \/ UNCHANGED file /\ behind' = StepCount
  /\ UNCHANGED <<phase, staged, cfg, looping>>

\* One turn of the loop over the actions: quiet ones are passed over, others
\* are Set.
Stage ==
  /\ phase # "down" /\ todo # <<>>
  /\ LET a == Head(todo)
     IN  staged' = IF a.quiet THEN staged ELSE [staged EXCEPT ![a.class] = a.pair]
  /\ todo' = Tail(todo)
  /\ UNCHANGED <<phase, rec, cfg, looping, ticked, file, behind>>

LoopReturns ==
  /\ phase \in {"stopping", "leaving"} /\ looping /\ todo = <<>>
  /\ looping' = FALSE
  /\ UNCHANGED <<phase, rec, staged, cfg, todo, ticked, file, behind>>

Sigterm ==
  /\ phase = "cycling"
  /\ phase' = "stopping"
  /\ UNCHANGED <<rec, staged, cfg, todo, looping, ticked, file, behind>>

\* The shutdown path saves nothing.
Persist_Skipped ==
  /\ phase = "stopping" /\ phase' = "leaving"
  /\ UNCHANGED <<rec, staged, cfg, todo, looping, ticked, file, behind>>

Persist ==
  /\ phase = "stopping"
  /\ phase' = "leaving"
  /\ Saved(rec)
  /\ UNCHANGED <<rec, staged, cfg, todo, looping, ticked>>

\* The process ends, its memory with it.
Ends ==
  /\ phase' = "down"
  /\ rec' = Initial /\ cfg' = Initial
  /\ staged' = [c \in Class |-> Unset]
  /\ todo' = <<>> /\ looping' = FALSE /\ ticked' = FALSE
  /\ behind' = 0

\* The save fails (a warning is logged), and the process stops all the same.
PersistFails ==
  /\ phase = "stopping"
  /\ Ends
  /\ UNCHANGED file

\* main returns; the goroutine ends with the process, wherever it is.
Exit ==
  /\ phase = "leaving"
  /\ Ends
  /\ UNCHANGED file

Crash ==
  /\ phase # "down"
  /\ Ends
  /\ UNCHANGED file

Next ==
  \/ Boot \/ ApplyTo \/ Tick \/ Step \/ Stage \/ LoopReturns
  \/ Sigterm \/ Persist \/ PersistFails \/ Exit \/ Crash

Fairness == WF_vars(ApplyTo) /\ WF_vars(Stage)

Spec == Init /\ [][Next]_vars /\ Fairness

-----------------------------------------------------------------------------
(* Properties *)

Managed == Class \ Pinned

(***************************************************************************)
(* Every target on its way from the reconciler to the cycle, in memory, in *)
(* hand-off, in use or on disk, stays inside the class's envelope and      *)
(* under MaxSafe, over any series of drifts, resets, crashes and restarts. *)
(***************************************************************************)
TypeOK ==
  /\ phase \in {"down", "cycling", "stopping", "leaving"}
  /\ looping \in BOOLEAN /\ ticked \in BOOLEAN /\ behind \in 0 .. Behind
  /\ rec \in [Class -> Pair] /\ staged \in [Class -> Pair] /\ cfg \in [Class -> Pair]
  /\ todo \in Seq([class : Class, pair : Pair, quiet : BOOLEAN])
  /\ DOMAIN file \subseteq Class /\ \A c \in DOMAIN file : file[c] \in Pair
  /\ \A c \in Managed :
       /\ InBand(rec[c], c) /\ InBand(cfg[c], c)
       /\ staged[c] = Unset \/ InBand(staged[c], c)
       /\ c \in DOMAIN file => InBand(file[c], c)

(***************************************************************************)
(* What the operator pins is what the cycle uses, whatever adaptive.json   *)
(* of a time before the pin says and however the reconciler drifts the     *)
(* other classes ("so a pin isn't clobbered", main.go:663).                *)
(***************************************************************************)
PinIsKept == phase # "down" => \A c \in Pinned : cfg[c] = PinnedPair[c]

(***************************************************************************)
(* Between two Steps the hand-off holds the reconciler's own targets, so   *)
(* that what the metrics report as the target is what the cycle will use:  *)
(* no reason that moves a target is among those the loop passes over.      *)
(***************************************************************************)
TargetsAgree ==
  phase = "cycling" /\ todo = <<>> =>
    \A c \in Managed : staged[c].target = rec[c].target

(***************************************************************************)
(* A graceful shutdown whose save succeeded leaves on disk all but at most *)
(* the one Step that raced it: the goroutine may still take a tick after   *)
(* the context was cancelled and after Persist ran.                        *)
(***************************************************************************)
LosesAtMostOneStep == phase = "leaving" => behind <= 1

\* What every step preserves: between two turns of the staging loop an action
\* still to be looked at, unless it is a quiet one, carries the reconciler's
\* own pair, and a class the store disagrees on is among them; and on the way
\* out one tick at most is left to be taken.
HandOff ==
  /\ \A c \in Pinned : staged[c] = Unset
  /\ \A i \in DOMAIN todo : ~todo[i].quiet =>
       todo[i].class \in Managed /\ todo[i].pair = rec[todo[i].class]
  /\ phase # "down" => \A c \in Managed :
       staged[c].target = rec[c].target \/ \E i \in DOMAIN todo : todo[i].class = c /\ ~todo[i].quiet
  /\ phase = "leaving" => behind <= 1 /\ (ticked => behind = 0)
  /\ PinIsKept

(***************************************************************************)
(* While the agent keeps cycling, a target the reconciler decides comes    *)
(* into use, unless the next Step replaces it.                             *)
(***************************************************************************)
DecisionsTakeEffect ==
  \A c \in Managed : \A t \in Band(c) :
    (phase = "cycling" /\ rec[c].target = t)
      ~> (phase # "cycling" \/ rec[c].target # t \/ cfg[c].target = t)

(***************************************************************************)
(* Goroutine, store, main loop and files together implement the promise of *)
(* module Directive ("ApplyTo(cfg) immediately before each PID cycle to    *)
(* copy the latest targets into cfg", livetargets.go:9): no cycle uses     *)
(* half a copy, a target older than the last decision but one, or one that *)
(* jumped.                                                                 *)
(***************************************************************************)
TargetsOf(r) == [c \in Managed |-> r[c].target]

Promise == INSTANCE Directive WITH
  Class <- Managed, Envelope <- [c \in Managed |-> Band(c)], Start <- TargetsOf(Initial),
  up <- phase # "down",
  decided <- TargetsOf(rec), offered <- TargetsOf(staged), used <- TargetsOf(cfg)
KeepsDirective == Promise!Spec
=============================================================================
