--------------------------- MODULE AdaptiveProofs ---------------------------
(***************************************************************************)
(* Theorems of Adaptive for every set of classes, pins, mode, envelopes,   *)
(* observer windows and inherited files.                                   *)
(***************************************************************************)
EXTENDS Adaptive, ControlLawProofs

-----------------------------------------------------------------------------
(* One class's decision. *)

\* The constants, in the forms the proofs below use.
LEMMA Limits ==
  /\ MaxDeadband \in Nat /\ Behind \in Nat
  /\ Pinned \subseteq Class
  /\ Order \in Seq(STRING)
  /\ \A c \in Class : /\ Env[c].low \in Nat /\ Ceiling(c) \in Int /\ Env[c].low <= Ceiling(c)
                      /\ PinnedPair[c] \in Pair
<1>1. \A c \in Class : Env[c] \in [low : Nat, mid : Nat, high : Nat, safe : Nat]
  BY AdaptiveAssumption
<1>2. ASSUME NEW c \in Class
      PROVE  Env[c].low \in Nat /\ Ceiling(c) \in Int /\ Env[c].low <= Ceiling(c)
  <2>1. /\ Env[c].low \in Nat /\ Env[c].mid \in Nat /\ Env[c].high \in Nat /\ Env[c].safe \in Nat
        /\ Env[c].low <= Env[c].mid /\ Env[c].mid <= Env[c].high /\ Env[c].high < Env[c].safe
    BY <1>1, AdaptiveAssumption
  <2> QED BY <2>1 DEF Ceiling
<1>3. \A c \in Class : PinnedPair[c] \in Pair
  BY AdaptiveAssumption
<1> QED BY <1>2, <1>3, AdaptiveAssumption

\* The mode's pair is in the band of every valid envelope.
LEMMA InitialInBand ==
  ASSUME NEW c \in Class
  PROVE  /\ Initial[c] \in Pair
         /\ InBand(Initial[c], c)
<1>1. Env[c] \in [low : Nat, mid : Nat, high : Nat, safe : Nat]
  BY AdaptiveAssumption
<1>2. /\ Env[c].low \in Nat /\ Env[c].mid \in Nat /\ Env[c].high \in Nat /\ Env[c].safe \in Nat
      /\ Env[c].low <= Env[c].mid /\ Env[c].mid <= Env[c].high /\ Env[c].high < Env[c].safe
  BY <1>1, AdaptiveAssumption
<1>3. Initial[c] = InitialTarget(Env[c], InMode)
  BY DEF Initial
<1>4. InMode \in Mode
  BY AdaptiveAssumption
<1>5. Initial[c].deadband <= MaxDeadband /\ MaxDeadband \in Nat
  BY AdaptiveAssumption
<1>6. /\ Initial[c] \in Pair
      /\ Initial[c].target \in {Env[c].low, Env[c].mid, Env[c].high}
  BY <1>2, <1>3, <1>4 DEF InitialTarget, Mode, Pair
<1>7. Initial[c].deadband \in Int
  BY <1>6 DEF Pair
<1> QED BY <1>2, <1>5, <1>6, <1>7 DEF InBand, Band, Ceiling

\* A drift, however large, is cut to the band, and no drift changes nothing.
LEMMA DriftedInBand ==
  ASSUME NEW c \in Class, NEW target \in Int, NEW delta \in Int
  PROVE  /\ Drifted(c, target, delta) \in Band(c)
         /\ target \in Band(c) => Drifted(c, target, 0) = target
<1>1. Env[c].low \in Int /\ Ceiling(c) \in Int /\ Env[c].low <= Ceiling(c)
  BY Limits
<1> QED BY <1>1 DEF Drifted, Band, Clamp

\* The deadband lies between the mode's and the cap.
LEMMA DeadbandInRange ==
  ASSUME NEW c \in Class, NEW w, w.sd \in Nat
  PROVE  Deadband(InMode, Env[c], w, MaxDeadband) \in Initial[c].deadband .. MaxDeadband
<1>1. /\ Initial[c].deadband \in Int /\ MaxDeadband \in Int
      /\ Initial[c].deadband <= MaxDeadband
  BY InitialInBand, AdaptiveAssumption DEF Pair
<1>2. InitialTarget(Env[c], InMode) = Initial[c]
  BY DEF Initial
<1>3. (15 * w.sd + 99) \div 100 \in Int
  OBVIOUS
<1>4. Deadband(InMode, Env[c], w, MaxDeadband)
        = Smaller(Larger((15 * w.sd + 99) \div 100, Initial[c].deadband), MaxDeadband)
  BY <1>2 DEF Deadband
<1> DEFINE asked == (15 * w.sd + 99) \div 100
<1>5. Smaller(Larger(asked, Initial[c].deadband), MaxDeadband)
        \in Initial[c].deadband .. MaxDeadband
  <2> HIDE DEF asked
  <2>1. asked \in Int
    BY <1>3 DEF asked
  <2> QED BY <1>1, <2>1 DEF Smaller, Larger
<1> QED BY <1>4, <1>5

\* What reconcileClass makes of a class, whatever window it finds: a managed
\* class stays in its band, a pinned one is passed over, and a class that is
\* passed over keeps its target.
LEMMA ReconciledSound ==
  ASSUME TypeOK, NEW c \in Class, NEW w \in Windows[c]
  PROVE  /\ Reconciled(c, w) \in Pair
         /\ c \in Managed => InBand(Reconciled(c, w), c)
         /\ Quiet(c, w) => Reconciled(c, w).target = rec[c].target
         /\ Quiet(c, w) \in BOOLEAN
         /\ c \in Pinned => Quiet(c, w)
<1> DEFINE delta == BestDelta(InMode, Env[c], w)
           drift == [target   |-> Drifted(c, rec[c].target, delta),
                     deadband |-> Deadband(InMode, Env[c], w, MaxDeadband)]
<1>1. rec[c] \in Pair /\ (c \in Managed => InBand(rec[c], c))
  BY DEF TypeOK
<1>2. delta \in {-1, 0, 1}
  BY DEF BestDelta
<1>3. w.sd \in Nat
  BY AdaptiveAssumption
<1>4. /\ Drifted(c, rec[c].target, delta) \in Band(c)
      /\ rec[c].target \in Band(c) => Drifted(c, rec[c].target, 0) = rec[c].target
  BY <1>1, <1>2, DriftedInBand DEF Pair
<1>5. Deadband(InMode, Env[c], w, MaxDeadband) \in Initial[c].deadband .. MaxDeadband
  BY <1>3, DeadbandInRange
<1>6. InBand(drift, c)
  BY <1>4, <1>5 DEF InBand
<1>7. drift \in Pair
  <2>1. Env[c].low \in Int /\ Ceiling(c) \in Int /\ Initial[c].deadband \in Int /\ MaxDeadband \in Int
    BY Limits, InitialInBand DEF Pair
  <2> QED BY <1>4, <1>5, <2>1 DEF Pair, Band
<1> HIDE DEF drift, delta
<1>8. Reconciled(c, w) =
        CASE Reason(c, w) \in {"skipped", "warming_up"} -> rec[c]
          [] Reason(c, w) = "variance_reset" -> Initial[c]
          [] OTHER -> drift
  BY DEF Reconciled, drift, delta
<1>9. Reconciled(c, w) \in {rec[c], Initial[c], drift}
  BY <1>8
<1>10. Reconciled(c, w) \in Pair /\ (c \in Managed => InBand(Reconciled(c, w), c))
  BY <1>1, <1>6, <1>7, <1>9, InitialInBand
<1>11. ASSUME Quiet(c, w)
       PROVE  Reconciled(c, w).target = rec[c].target
  <2>1. CASE Reason(c, w) \in {"skipped", "warming_up"}
    BY <2>1, <1>8
  <2>2. CASE Reason(c, w) = "settled"
    <3>1. c \notin Pinned /\ delta = 0
      BY <2>2 DEF Reason, delta
    <3>2. rec[c].target \in Band(c)
      BY <3>1, <1>1 DEF Managed, InBand
    <3>3. Reconciled(c, w) = drift
      BY <2>2, <1>8
    <3> QED BY <3>1, <3>2, <3>3, <1>4 DEF drift
  <2> QED BY <1>11, <2>1, <2>2 DEF Quiet
<1>12. Quiet(c, w) \in BOOLEAN /\ (c \in Pinned => Quiet(c, w))
  BY DEF Quiet, Reason
<1> QED BY <1>10, <1>11, <1>12

-----------------------------------------------------------------------------
(* The type invariant: every target in its envelope. *)

\* A table of pairs that lies in the bands, and one that may also be unset.
Banded(r) == r \in [Class -> Pair] /\ \A c \in Managed : InBand(r[c], c)

Staged(s) == s \in [Class -> Pair] /\ \A c \in Managed : s[c] = Unset \/ InBand(s[c], c)

Readable(f) ==
  /\ DOMAIN f \subseteq Class
  /\ \A c \in DOMAIN f : f[c] \in Pair /\ (c \in Managed => InBand(f[c], c))

Pending == Seq([class : Class, pair : Pair, quiet : BOOLEAN])

LEMMA TypeParts ==
  TypeOK <=> /\ phase \in {"down", "cycling", "stopping", "leaving"}
             /\ looping \in BOOLEAN /\ ticked \in BOOLEAN /\ behind \in 0 .. Behind
             /\ Banded(rec) /\ Staged(staged) /\ Banded(cfg)
             /\ todo \in Pending
             /\ Readable(file)
  BY DEF TypeOK, Banded, Staged, Readable, Pending, Managed

LEMMA Tables ==
  /\ Banded(Initial)
  /\ Staged([c \in Class |-> Unset])
  /\ \A f \in {Nothing} \cup Inherited : Readable(f)
  /\ \A r : Banded(r) => Readable(r)
<1>1. Banded(Initial)
  <2>1. Initial = [c \in Class |-> InitialTarget(Env[c], InMode)]
    BY DEF Initial
  <2>2. \A c \in Class : InitialTarget(Env[c], InMode) \in Pair
    BY <2>1, InitialInBand
  <2>3. Initial \in [Class -> Pair]
    BY <2>1, <2>2
  <2> QED BY <2>3, InitialInBand DEF Banded, Managed
<1>2. Staged([c \in Class |-> Unset])
  BY DEF Staged, Unset, Pair, Managed
<1>3. Readable(Nothing)
  BY DEF Readable, Nothing
<1>4. \A f \in Inherited : Readable(f)
  BY AdaptiveAssumption DEF Readable, Managed
<1>5. \A r : Banded(r) => Readable(r)
  BY DEF Banded, Readable
<1> QED BY <1>1, <1>2, <1>3, <1>4, <1>5

LEMMA TypeInit == Init => TypeOK
<1> SUFFICES ASSUME Init PROVE TypeOK
  OBVIOUS
<1>1. todo \in Pending /\ behind \in 0 .. Behind
  BY Limits DEF Init, Pending
<1> QED BY <1>1, TypeParts, Tables DEF Init

\* What a restart makes of the file.
LEMMA LoadedBanded ==
  ASSUME Readable(file)
  PROVE  Banded(Loaded) /\ Staged(Seeded(Loaded))
<1>1. \A c \in Class : Loaded[c] \in Pair /\ (c \in Managed => InBand(Loaded[c], c))
  BY InitialInBand DEF Readable, Loaded
<1>2. Loaded \in [Class -> Pair]
  <2>1. Loaded = [c \in Class |-> Loaded[c]]
    BY DEF Loaded
  <2> QED BY <1>1, <2>1
<1>3. Banded(Loaded)
  BY <1>1, <1>2 DEF Banded, Managed
<1>4. Staged(Seeded(Loaded))
  BY <1>1, <1>2 DEF Staged, Seeded, Unset, Pair, Managed
<1> QED BY <1>3, <1>4

\* Entries of the staging list, and lists of them.
LEMMA EntryFields ==
  ASSUME NEW c, NEW p, NEW q
  PROVE  LET e == [class |-> c, pair |-> p, quiet |-> q]
         IN  /\ e.class = c /\ e.pair = p /\ e.quiet = q
             /\ c \in Class /\ p \in Pair /\ q \in BOOLEAN
                  => e \in [class : Class, pair : Pair, quiet : BOOLEAN]
  OBVIOUS

LEMMA ListOf ==
  ASSUME NEW S, NEW n \in Nat, NEW f, f = [i \in 1 .. n |-> f[i]], \A i \in 1 .. n : f[i] \in S
  PROVE  f \in Seq(S)
  OBVIOUS

\* What one Step leaves behind, seen class by class.
LEMMA StepEffect ==
  ASSUME TypeOK, Step
  PROVE  /\ Banded(rec')
         /\ todo' \in Pending
         /\ DOMAIN todo' = DOMAIN Order
         /\ \A i \in DOMAIN Order :
              /\ todo'[i].class = Order[i] /\ todo'[i].pair = rec'[Order[i]]
              /\ todo'[i].quiet => rec'[Order[i]].target = rec[Order[i]].target
              /\ Order[i] \in Pinned => todo'[i].quiet
<1>1. PICK w \in [Class -> UNION {Windows[c] : c \in Class}] :
        /\ \A c \in Class : w[c] \in Windows[c]
        /\ rec' = [c \in Class |-> Reconciled(c, w[c])]
        /\ todo' = [i \in DOMAIN Order |->
             [class |-> Order[i], pair |-> rec'[Order[i]], quiet |-> Quiet(Order[i], w[Order[i]])]]
  BY DEF Step
<1>2. \A c \in Class :
        /\ Reconciled(c, w[c]) \in Pair
        /\ c \in Managed => InBand(Reconciled(c, w[c]), c)
        /\ Quiet(c, w[c]) => Reconciled(c, w[c]).target = rec[c].target
        /\ Quiet(c, w[c]) \in BOOLEAN
        /\ c \in Pinned => Quiet(c, w[c])
  BY <1>1, ReconciledSound
<1>3. Banded(rec')
  BY <1>1, <1>2 DEF Banded, Managed
<1>4. \A i \in DOMAIN Order : Order[i] \in Class
  BY DEF Class
<1>5. DOMAIN Order = 1 .. Len(Order) /\ Len(Order) \in Nat
  BY Limits
<1>6. \A i \in DOMAIN Order :
        todo'[i] = [class |-> Order[i], pair |-> rec'[Order[i]], quiet |-> Quiet(Order[i], w[Order[i]])]
  BY <1>1
<1>7. \A i \in DOMAIN Order : rec'[Order[i]] = Reconciled(Order[i], w[Order[i]])
  BY <1>1, <1>4
<1>8. \A i \in DOMAIN Order :
        /\ todo'[i] \in [class : Class, pair : Pair, quiet : BOOLEAN]
        /\ todo'[i].class = Order[i] /\ todo'[i].pair = rec'[Order[i]]
        /\ todo'[i].quiet = Quiet(Order[i], w[Order[i]])
  <2> SUFFICES ASSUME NEW i \in DOMAIN Order
               PROVE  /\ todo'[i] \in [class : Class, pair : Pair, quiet : BOOLEAN]
                      /\ todo'[i].class = Order[i] /\ todo'[i].pair = rec'[Order[i]]
                      /\ todo'[i].quiet = Quiet(Order[i], w[Order[i]])
    OBVIOUS
  <2> DEFINE c == Order[i]
             p == rec'[Order[i]]
             q == Quiet(Order[i], w[Order[i]])
             e == [class |-> c, pair |-> p, quiet |-> q]
  <2>1. c \in Class /\ p \in Pair /\ q \in BOOLEAN
    BY <1>2, <1>4, <1>7
  <2>2. todo'[i] = e
    BY <1>6, Zenon
  <2> HIDE DEF c, p, q
  <2>3. /\ e.class = c /\ e.pair = p /\ e.quiet = q
        /\ e \in [class : Class, pair : Pair, quiet : BOOLEAN]
    BY <2>1, EntryFields
  <2> QED BY <2>2, <2>3 DEF c, p, q
<1>9. todo' \in Pending /\ DOMAIN todo' = DOMAIN Order
  <2>1. todo' = [i \in 1 .. Len(Order) |-> todo'[i]] /\ DOMAIN todo' = DOMAIN Order
    BY <1>1, <1>5
  <2> QED BY <2>1, <1>5, <1>8, ListOf DEF Pending
<1>10. \A i \in DOMAIN Order :
         /\ todo'[i].class = Order[i] /\ todo'[i].pair = rec'[Order[i]]
         /\ todo'[i].quiet => rec'[Order[i]].target = rec[Order[i]].target
         /\ Order[i] \in Pinned => todo'[i].quiet
  <2> SUFFICES ASSUME NEW i \in DOMAIN Order
               PROVE  /\ todo'[i].class = Order[i] /\ todo'[i].pair = rec'[Order[i]]
                      /\ todo'[i].quiet => rec'[Order[i]].target = rec[Order[i]].target
                      /\ Order[i] \in Pinned => todo'[i].quiet
    OBVIOUS
  <2> QED BY <1>2, <1>4, <1>7, <1>8, Zenon
<1> QED BY <1>3, <1>9, <1>10

\* What one turn of the staging loop does.
LEMMA StageEffect ==
  ASSUME TypeOK, Stage
  PROVE  /\ todo[1] \in [class : Class, pair : Pair, quiet : BOOLEAN]
         /\ Len(todo) \in Nat \ {0} /\ DOMAIN todo = 1 .. Len(todo)
         /\ staged' = IF todo[1].quiet THEN staged ELSE [staged EXCEPT ![todo[1].class] = todo[1].pair]
         /\ todo' \in Pending /\ DOMAIN todo' = 1 .. Len(todo) - 1
         /\ \A i \in DOMAIN todo' : todo'[i] = todo[i + 1]
<1>1. todo \in Pending /\ todo # <<>>
  BY TypeParts DEF Stage
<1> DEFINE Entry == [class : Class, pair : Pair, quiet : BOOLEAN]
<1>2. todo \in Seq(Entry)
  BY <1>1 DEF Pending
<1> HIDE DEF Entry
<1>3. /\ Len(todo) \in Nat \ {0} /\ DOMAIN todo = 1 .. Len(todo)
      /\ todo[1] \in Entry /\ Head(todo) = todo[1]
      /\ Tail(todo) \in Seq(Entry) /\ DOMAIN Tail(todo) = 1 .. Len(todo) - 1
      /\ \A i \in 1 .. Len(todo) - 1 : Tail(todo)[i] = todo[i + 1]
  BY <1>1, <1>2
<1>4. todo' = Tail(todo)
  BY DEF Stage
<1>5. staged' = IF todo[1].quiet THEN staged ELSE [staged EXCEPT ![todo[1].class] = todo[1].pair]
  BY <1>3 DEF Stage
<1> QED BY <1>3, <1>4, <1>5 DEF Entry, Pending

\* HandOff is needed: that the pairs still to be staged are in the band is not
\* said by their type, but they are the reconciler's own.
LEMMA TypeStep == TypeOK /\ HandOff /\ [Next]_vars => TypeOK'
<1> SUFFICES ASSUME TypeOK, HandOff, [Next]_vars PROVE TypeOK'
  OBVIOUS
<1> DEFINE Flags == /\ phase' \in {"down", "cycling", "stopping", "leaving"}
                    /\ looping' \in BOOLEAN /\ ticked' \in BOOLEAN /\ behind' \in 0 .. Behind
<1>0. TypeOK' <=> /\ phase' \in {"down", "cycling", "stopping", "leaving"}
                  /\ looping' \in BOOLEAN /\ ticked' \in BOOLEAN /\ behind' \in 0 .. Behind
                  /\ Banded(rec') /\ Staged(staged') /\ Banded(cfg')
                  /\ todo' \in Pending
                  /\ Readable(file')
  BY DEF TypeOK, Banded, Staged, Readable, Pending, Managed
<1>1. Behind \in Nat /\ <<>> \in Pending
  BY Limits DEF Pending
<1>2. StepCount \in 0 .. Behind
  BY <1>1, TypeParts DEF StepCount, Smaller
<1>3. CASE Boot
  <2>1. Banded([c \in Class |-> IF c \in Pinned THEN PinnedPair[c] ELSE Initial[c]])
    BY Limits, InitialInBand DEF Banded, Managed
  <2>2. /\ phase' = "cycling" /\ todo' = <<>> /\ looping' = TRUE /\ ticked' = FALSE /\ behind' = 0
        /\ cfg' = [c \in Class |-> IF c \in Pinned THEN PinnedPair[c] ELSE Initial[c]]
        /\ rec' = Loaded /\ staged' = Seeded(Loaded) /\ file' = file
    BY <1>3 DEF Boot
  <2>3. 0 \in 0 .. Behind
    BY <1>1
  <2>4. Banded(cfg') /\ Banded(rec') /\ Staged(staged') /\ Readable(file')
    BY <2>1, <2>2, TypeParts, LoadedBanded, Zenon
  <2> QED BY <1>0, <1>1, <2>2, <2>3, <2>4
<1>4. CASE ApplyTo
  <2>1. Staged(staged) /\ Banded(cfg)
    BY TypeParts
  <2>2. Banded([c \in Class |-> IF staged[c] = Unset THEN cfg[c] ELSE staged[c]])
    BY <2>1 DEF Banded, Staged, Managed
  <2> QED BY <1>0, <1>4, <2>2, TypeParts DEF ApplyTo
<1>5. CASE Tick \/ LoopReturns \/ Sigterm \/ UNCHANGED vars
  BY <1>0, <1>5, TypeParts DEF Tick, LoopReturns, Sigterm, vars
<1>6. CASE Step
  <2>1. Readable(file')
    BY <1>6, StepEffect, TypeParts, Tables DEF Step, Saved
  <2>2. behind' \in 0 .. Behind
    BY <1>1, <1>2, <1>6 DEF Step, Saved
  <2>3. /\ ticked' = FALSE
        /\ UNCHANGED <<phase, staged, cfg, looping>>
    BY <1>6 DEF Step
  <2> QED BY <1>0, <1>6, <2>1, <2>2, <2>3, TypeParts, StepEffect
<1>7. CASE Stage
  <2>1. Staged(staged)
    BY TypeParts
  <2>2. ASSUME ~todo[1].quiet
        PROVE  todo[1].class \in Managed /\ todo[1].pair = rec[todo[1].class]
    BY <1>7, <2>2, StageEffect DEF HandOff
  <2>3. ASSUME ~todo[1].quiet
        PROVE  InBand(todo[1].pair, todo[1].class)
    BY <2>2, <2>3, TypeParts DEF Banded
  <2>4. todo[1].class \in Class /\ todo[1].pair \in Pair
    BY <1>7, StageEffect
  <2>5. Staged(staged')
    <3>1. CASE todo[1].quiet
      BY <3>1, <2>1, <1>7, StageEffect
    <3>2. CASE ~todo[1].quiet
      <4>1. staged' = [staged EXCEPT ![todo[1].class] = todo[1].pair]
        BY <3>2, <1>7, StageEffect
      <4> QED BY <4>1, <3>2, <2>1, <2>3, <2>4 DEF Staged, Managed
    <3> QED BY <3>1, <3>2
  <2> QED BY <1>0, <1>7, <2>5, StageEffect, TypeParts DEF Stage
<1>8. CASE Persist
  BY <1>0, <1>1, <1>8, TypeParts, Tables DEF Persist, Saved
<1>9. CASE PersistFails \/ Exit \/ Crash
  <2>1. /\ phase' = "down" /\ todo' = <<>> /\ looping' = FALSE /\ ticked' = FALSE /\ behind' = 0
        /\ rec' = Initial /\ cfg' = Initial /\ staged' = [c \in Class |-> Unset] /\ file' = file
    BY <1>9 DEF PersistFails, Exit, Crash, Ends
  <2>2. 0 \in 0 .. Behind
    BY <1>1
  <2>3. Banded(cfg') /\ Banded(rec') /\ Staged(staged') /\ Readable(file')
    BY <2>1, TypeParts, Tables, Zenon
  <2> QED BY <1>0, <1>1, <2>1, <2>2, <2>3
<1> QED BY <1>3, <1>4, <1>5, <1>6, <1>7, <1>8, <1>9 DEF Next

-----------------------------------------------------------------------------
(* The hand-off. *)

LEMMA HandOffInit == Init => HandOff
  BY Limits DEF Init, HandOff, PinIsKept, Unset

\* Nothing is promised of a process that is gone.
LEMMA DownHandOff ==
  ASSUME phase' = "down", todo' = <<>>, staged' = [c \in Class |-> Unset]
  PROVE  HandOff'
<1>1. Pinned \subseteq Class
  BY Limits
<1> QED BY <1>1 DEF HandOff, PinIsKept

LEMMA HandOffStep == TypeOK /\ HandOff /\ [Next]_vars => HandOff'
<1> SUFFICES ASSUME TypeOK, HandOff, [Next]_vars PROVE HandOff'
  OBVIOUS
<1>1. Pinned \subseteq Class /\ Behind \in Nat /\ behind \in Nat
  BY Limits, TypeParts
<1>2. CASE Boot
  <2>1. /\ phase' = "cycling" /\ todo' = <<>>
        /\ cfg' = [c \in Class |-> IF c \in Pinned THEN PinnedPair[c] ELSE Initial[c]]
        /\ rec' = Loaded /\ staged' = Seeded(Loaded)
    BY <1>2 DEF Boot
  <2>2. \A c \in Managed : staged'[c] = rec'[c]
    BY <2>1 DEF Managed, Seeded
  <2>3. \A c \in Pinned : staged'[c] = Unset /\ cfg'[c] = PinnedPair[c]
    BY <1>1, <2>1 DEF Seeded
  <2> QED BY <2>1, <2>2, <2>3 DEF HandOff, PinIsKept
<1>3. CASE ApplyTo
  <2>1. /\ phase = "cycling" /\ cfg' = [c \in Class |-> IF staged[c] = Unset THEN cfg[c] ELSE staged[c]]
        /\ UNCHANGED <<phase, rec, staged, todo, ticked, behind>>
    BY <1>3 DEF ApplyTo
  <2>2. \A c \in Pinned : cfg'[c] = PinnedPair[c]
    BY <1>1, <2>1 DEF HandOff, PinIsKept
  <2> QED BY <2>1, <2>2 DEF HandOff, PinIsKept
<1>4. CASE Tick \/ LoopReturns \/ Sigterm \/ UNCHANGED vars
  BY <1>4 DEF Tick, LoopReturns, Sigterm, vars, HandOff, PinIsKept
<1>5. CASE Step
  <2>1. /\ phase # "down" /\ todo = <<>> /\ ticked /\ ticked' = FALSE
        /\ UNCHANGED <<phase, staged, cfg, looping>>
        /\ behind' \in {0, StepCount}
    BY <1>5 DEF Step, Saved
  <2>2. \A c \in Managed : staged[c].target = rec[c].target
    BY <2>1 DEF HandOff
  <2>3. /\ DOMAIN todo' = DOMAIN Order
        /\ \A i \in DOMAIN Order :
             /\ todo'[i].class = Order[i] /\ todo'[i].pair = rec'[Order[i]]
             /\ todo'[i].quiet => rec'[Order[i]].target = rec[Order[i]].target
             /\ Order[i] \in Pinned => todo'[i].quiet
    BY <1>5, StepEffect
  <2>4. ASSUME NEW i \in DOMAIN todo', ~todo'[i].quiet
        PROVE  todo'[i].class \in Managed /\ todo'[i].pair = rec'[todo'[i].class]
    BY <2>3, <2>4 DEF Managed, Class
  <2>5. ASSUME NEW c \in Managed
        PROVE  \/ staged'[c].target = rec'[c].target
               \/ \E i \in DOMAIN todo' : todo'[i].class = c /\ ~todo'[i].quiet
    <3>1. PICK i \in DOMAIN Order : Order[i] = c
      BY <2>5 DEF Managed, Class
    <3>2. CASE todo'[i].quiet
      BY <3>1, <3>2, <2>1, <2>2, <2>3
    <3>3. CASE ~todo'[i].quiet
      BY <3>1, <3>3, <2>3
    <3> QED BY <3>2, <3>3
  <2>6. phase' = "leaving" => behind' <= 1 /\ (ticked' => behind' = 0)
    BY <1>1, <2>1 DEF HandOff, StepCount, Smaller
  <2>7. (\A c \in Pinned : staged'[c] = Unset) /\ PinIsKept'
    BY <2>1 DEF HandOff, PinIsKept
  <2> QED BY <2>4, <2>5, <2>6, <2>7 DEF HandOff
<1>6. CASE Stage
  <2>1. UNCHANGED <<phase, rec, cfg, looping, ticked, file, behind>> /\ phase # "down"
    BY <1>6 DEF Stage
  <2>2. /\ Len(todo) \in Nat \ {0} /\ DOMAIN todo = 1 .. Len(todo)
        /\ DOMAIN todo' = 1 .. Len(todo) - 1
        /\ \A i \in DOMAIN todo' : todo'[i] = todo[i + 1]
    BY <1>6, StageEffect
  <2>3. staged' = IF todo[1].quiet THEN staged ELSE [staged EXCEPT ![todo[1].class] = todo[1].pair]
    BY <1>6, StageEffect
  <2>4. \A i \in DOMAIN todo : ~todo[i].quiet =>
          todo[i].class \in Managed /\ todo[i].pair = rec[todo[i].class]
    BY DEF HandOff
  <2>5. ASSUME NEW i \in DOMAIN todo', ~todo'[i].quiet
        PROVE  todo'[i].class \in Managed /\ todo'[i].pair = rec'[todo'[i].class]
    <3>1. i + 1 \in DOMAIN todo /\ todo'[i] = todo[i + 1]
      BY <2>2
    <3> QED BY <3>1, <2>1, <2>4, <2>5
  <2>6. 1 \in DOMAIN todo /\ staged \in [Class -> Pair]
    BY <2>2, TypeParts DEF Staged
  <2>7. ASSUME NEW c \in Pinned
        PROVE  staged'[c] = Unset
    <3>1. staged[c] = Unset /\ c \in Class
      BY <1>1 DEF HandOff
    <3>2. ~todo[1].quiet => todo[1].class # c
      BY <2>4, <2>6 DEF Managed
    <3> QED BY <3>1, <3>2, <2>3, <2>6
  <2>8. ASSUME NEW c \in Managed
        PROVE  \/ staged'[c].target = rec'[c].target
               \/ \E i \in DOMAIN todo' : todo'[i].class = c /\ ~todo'[i].quiet
    <3>0. c \in Class
      BY DEF Managed
    <3>1. CASE ~todo[1].quiet /\ todo[1].class = c
      BY <3>0, <3>1, <2>1, <2>3, <2>4, <2>6
    <3>2. CASE todo[1].quiet \/ todo[1].class # c
      <4>1. staged'[c] = staged[c]
        BY <3>0, <3>2, <2>3, <2>6
      <4>2. ASSUME NEW i \in DOMAIN todo, todo[i].class = c, ~todo[i].quiet
            PROVE  \E j \in DOMAIN todo' : todo'[j].class = c /\ ~todo'[j].quiet
        <5>1. i # 1
          BY <3>2, <4>2
        <5>2. i - 1 \in DOMAIN todo' /\ todo'[i - 1] = todo[i]
          BY <5>1, <2>2
        <5> QED BY <5>2, <4>2
      <4> QED BY <4>1, <4>2, <2>1 DEF HandOff
    <3> QED BY <3>1, <3>2
  <2>9. /\ phase' = "leaving" => behind' <= 1 /\ (ticked' => behind' = 0)
        /\ PinIsKept'
    BY <2>1 DEF HandOff, PinIsKept
  <2> QED BY <2>5, <2>7, <2>8, <2>9 DEF HandOff
<1>7. CASE Persist
  BY <1>7 DEF Persist, Saved, HandOff, PinIsKept
<1>8. CASE PersistFails \/ Exit \/ Crash
  BY <1>8, DownHandOff DEF PersistFails, Exit, Crash, Ends
<1> QED BY <1>2, <1>3, <1>4, <1>5, <1>6, <1>7, <1>8 DEF Next

LEMMA HandOffInvariant == Spec => [](TypeOK /\ HandOff)
<1>1. Init => TypeOK /\ HandOff
  BY TypeInit, HandOffInit
<1>2. TypeOK /\ HandOff /\ [Next]_vars => (TypeOK /\ HandOff)'
  BY TypeStep, HandOffStep
<1> QED BY <1>1, <1>2, PTL DEF Spec

-----------------------------------------------------------------------------
(* The properties. *)

\* Every managed target, in memory, in hand-off, in use or on disk, is in its
\* class's envelope after any series of steps, crashes and restarts
\* (reconcileClass, seedLiveTargets, ApplyTo, adaptive.json).
THEOREM TypeCorrect == Spec => []TypeOK
  BY HandOffInvariant, PTL

\* An operator's pin is what the cycle uses (seedLiveTargets, runAdaptiveLoop).
THEOREM PinsAreKept == Spec => []PinIsKept
<1>1. HandOff => PinIsKept
  BY DEF HandOff
<1> QED BY <1>1, HandOffInvariant, PTL

\* Between two Steps the store holds the reconciler's targets (runAdaptiveLoop).
THEOREM StoreAgrees == Spec => []TargetsAgree
<1>1. HandOff => TargetsAgree
  BY DEF HandOff, TargetsAgree
<1> QED BY <1>1, HandOffInvariant, PTL

\* A graceful shutdown loses at most the Step that raced it (Persist).
THEOREM ShutdownSaves == Spec => []LosesAtMostOneStep
<1>1. HandOff => LosesAtMostOneStep
  BY DEF HandOff, LosesAtMostOneStep
<1> QED BY <1>1, HandOffInvariant, PTL

-----------------------------------------------------------------------------
(* Adaptive implements Directive. *)

\* A managed target is always on offer while the process lives, so that no
\* cycle falls back to the configured one.
OnOffer == phase # "down" => \A c \in Managed : staged[c] # Unset

LEMMA BandedIsSet ==
  ASSUME NEW r, Banded(r), NEW c \in Managed
  PROVE  r[c] # Unset /\ r[c].target \in Band(c) /\ r[c].target \in Int
<1>1. c \in Class /\ r[c].target \in Band(c)
  BY DEF Banded, Managed, InBand
<1>2. Env[c].low \in Nat /\ 0 < Env[c].low /\ Ceiling(c) \in Int
  BY <1>1, Limits, AdaptiveAssumption
<1>3. r[c].target \in Int /\ r[c].target > 0
  BY <1>1, <1>2 DEF Band
<1>4. Unset.target = 0
  BY DEF Unset
<1> QED BY <1>1, <1>3, <1>4

LEMMA OnOfferStep == TypeOK /\ HandOff /\ OnOffer /\ [Next]_vars => OnOffer'
<1> SUFFICES ASSUME TypeOK, HandOff, OnOffer, [Next]_vars PROVE OnOffer'
  OBVIOUS
<1>1. CASE Boot
  <2>1. Banded(Loaded) /\ staged' = Seeded(Loaded)
    BY <1>1, TypeParts, LoadedBanded DEF Boot
  <2>2. \A c \in Managed : staged'[c] = Loaded[c]
    BY <2>1 DEF Seeded, Managed
  <2> QED BY <2>1, <2>2, BandedIsSet DEF OnOffer
<1>2. CASE Stage
  <2>1. phase # "down" /\ staged \in [Class -> Pair] /\ Banded(rec)
    BY <1>2, TypeParts DEF Stage, Staged
  <2>2. staged' = IF todo[1].quiet THEN staged ELSE [staged EXCEPT ![todo[1].class] = todo[1].pair]
    BY <1>2, StageEffect
  <2>3. ~todo[1].quiet => todo[1].class \in Managed /\ todo[1].pair = rec[todo[1].class]
    BY <1>2, StageEffect DEF HandOff
  <2>4. ASSUME NEW c \in Managed
        PROVE  staged'[c] # Unset
    <3>1. staged[c] # Unset /\ c \in Class /\ rec[c] # Unset
      BY <2>1, BandedIsSet DEF OnOffer, Managed
    <3>2. staged'[c] = staged[c] \/ staged'[c] = rec[c]
      BY <2>1, <2>2, <2>3, <3>1
    <3> QED BY <3>1, <3>2
  <2> QED BY <2>4 DEF OnOffer
<1>3. CASE ApplyTo \/ Tick \/ Step \/ LoopReturns \/ Sigterm \/ Persist \/ UNCHANGED vars
  BY <1>3 DEF ApplyTo, Tick, Step, LoopReturns, Sigterm, Persist, vars, OnOffer
<1>4. CASE PersistFails \/ Exit \/ Crash
  BY <1>4 DEF PersistFails, Exit, Crash, Ends, OnOffer
<1> QED BY <1>1, <1>2, <1>3, <1>4 DEF Next

\* A decision moves a target by a degree at most, or back to the mode's.
LEMMA ReconciledWalks ==
  ASSUME TypeOK, NEW c \in Managed, NEW w \in Windows[c]
  PROVE  \/ Reconciled(c, w).target - rec[c].target \in -1 .. 1
         \/ Reconciled(c, w).target = Initial[c].target
<1> DEFINE delta == BestDelta(InMode, Env[c], w)
           old   == rec[c].target
           pair  == [target   |-> Drifted(c, old, delta),
                     deadband |-> Deadband(InMode, Env[c], w, MaxDeadband)]
<1>1. old \in Band(c) /\ old \in Int
  BY TypeParts, BandedIsSet
<1>2. Env[c].low \in Int /\ Ceiling(c) \in Int
  BY Limits DEF Managed
<1>3. delta \in {-1, 0, 1}
  BY DEF BestDelta
<1>4. Drifted(c, old, delta) - old \in -1 .. 1
  <2> HIDE DEF old, delta
  <2> QED BY <1>1, <1>2, <1>3 DEF Drifted, Band, Clamp
<1>5. pair.target = Drifted(c, old, delta)
  OBVIOUS
<1>6. Reconciled(c, w) = rec[c] \/ Reconciled(c, w) = Initial[c] \/ Reconciled(c, w) = pair
  BY DEF Reconciled
<1>7. old - old = 0
  BY <1>1
<1> HIDE DEF pair, delta
<1> QED BY <1>4, <1>5, <1>6, <1>7

LEMMA PromiseStep ==
  TypeOK /\ HandOff /\ OnOffer /\ TypeOK' /\ [Next]_vars => [Promise!Next]_(Promise!vars)
<1> SUFFICES ASSUME TypeOK, HandOff, OnOffer, TypeOK', [Next]_vars
             PROVE  [Promise!Next]_(Promise!vars)
  OBVIOUS
<1> DEFINE Alive == (phase # "down")' = (phase # "down")
           Same  == Alive /\ UNCHANGED <<TargetsOf(rec), TargetsOf(staged), TargetsOf(cfg)>>
<1>1. ASSUME Same
      PROVE  [Promise!Next]_(Promise!vars)
  BY <1>1 DEF Promise!vars
<1>2. Banded(rec) /\ Banded(cfg) /\ Banded(rec)' /\ Banded(cfg)'
  BY DEF TypeOK, Banded, Managed
<1>3. /\ TargetsOf(rec) = [c \in Managed |-> rec[c].target]
      /\ TargetsOf(staged) = [c \in Managed |-> staged[c].target]
      /\ TargetsOf(cfg) = [c \in Managed |-> cfg[c].target]
      /\ TargetsOf(rec)' = [c \in Managed |-> rec'[c].target]
      /\ TargetsOf(staged)' = [c \in Managed |-> staged'[c].target]
      /\ TargetsOf(cfg)' = [c \in Managed |-> cfg'[c].target]
  BY DEF TargetsOf, Managed
<1>4. CASE Boot
  <2>1. /\ phase = "down" /\ phase' = "cycling"
        /\ \A c \in Managed : staged'[c] = rec'[c]
    BY <1>4 DEF Boot, Seeded, Managed
  <2>2. TargetsOf(staged)' = TargetsOf(rec)'
    BY <1>3, <2>1
  <2>3. /\ \A c \in Managed : TargetsOf(rec)'[c] \in Band(c)
        /\ \A c \in Managed : TargetsOf(cfg)'[c] \in Band(c)
    BY <1>2, <1>3 DEF Banded, InBand
  <2>4. DOMAIN TargetsOf(rec)' = Managed /\ DOMAIN TargetsOf(cfg)' = Managed
    BY <1>3
  <2>5. Promise!Begin
    BY <2>1, <2>2, <2>3, <2>4 DEF Promise!Begin, Promise!Permitted
  <2> QED BY <2>5 DEF Promise!Next
<1>5. CASE ApplyTo
  <2>1. /\ phase # "down"
        /\ UNCHANGED <<phase, rec, staged>>
        /\ cfg' = [c \in Class |-> IF staged[c] = Unset THEN cfg[c] ELSE staged[c]]
    BY <1>5 DEF ApplyTo
  <2>2. \A c \in Managed : cfg'[c] = staged[c]
    BY <2>1 DEF OnOffer, Managed
  <2>3. TargetsOf(cfg)' = TargetsOf(staged)
    BY <1>3, <2>2
  <2>4. UNCHANGED <<TargetsOf(rec), TargetsOf(staged)>> /\ Alive
    BY <2>1 DEF TargetsOf
  <2>5. Promise!Use
    BY <2>1, <2>3, <2>4 DEF Promise!Use
  <2> QED BY <2>5 DEF Promise!Next
<1>6. CASE Step
  <2>1. phase # "down" /\ todo = <<>> /\ UNCHANGED <<phase, staged, cfg>>
    BY <1>6 DEF Step
  <2>2. \A c \in Managed : staged[c].target = rec[c].target
    BY <2>1 DEF HandOff
  <2>3. TargetsOf(staged) = TargetsOf(rec)
    BY <1>3, <2>2
  <2>4. ASSUME NEW c \in Managed
        PROVE  \/ rec'[c].target - rec[c].target \in -1 .. 1
               \/ rec'[c].target = Initial[c].target
    <3>1. PICK w \in [Class -> UNION {Windows[k] : k \in Class}] :
            /\ \A k \in Class : w[k] \in Windows[k]
            /\ rec' = [k \in Class |-> Reconciled(k, w[k])]
      BY <1>6 DEF Step
    <3>2. c \in Class /\ rec'[c] = Reconciled(c, w[c]) /\ w[c] \in Windows[c]
      BY <3>1 DEF Managed
    <3> QED BY <3>2, ReconciledWalks
  <2>5. \A c \in Managed : /\ TargetsOf(rec)'[c] = rec'[c].target
                           /\ TargetsOf(rec)[c] = rec[c].target
                           /\ TargetsOf(Initial)[c] = Initial[c].target
                           /\ rec'[c].target \in Band(c)
    BY <1>2, <1>3 DEF TargetsOf, Banded, InBand
  <2>6. DOMAIN TargetsOf(rec)' = Managed
    BY <1>3
  <2>7. UNCHANGED <<TargetsOf(staged), TargetsOf(cfg)>> /\ Alive
    BY <2>1 DEF TargetsOf
  <2>8. Promise!Decide
    BY <2>1, <2>3, <2>4, <2>5, <2>6, <2>7 DEF Promise!Decide, Promise!Permitted
  <2> QED BY <2>8 DEF Promise!Next
<1>7. CASE Stage
  <2>1. phase # "down" /\ UNCHANGED <<phase, rec, cfg>>
    BY <1>7 DEF Stage
  <2>2. staged' = IF todo[1].quiet THEN staged ELSE [staged EXCEPT ![todo[1].class] = todo[1].pair]
    BY <1>7, StageEffect
  <2>3. UNCHANGED <<TargetsOf(rec), TargetsOf(cfg)>> /\ Alive
    BY <2>1 DEF TargetsOf
  <2>4. CASE todo[1].quiet
    <3>1. UNCHANGED TargetsOf(staged)
      BY <2>2, <2>4 DEF TargetsOf
    <3> QED BY <1>1, <2>3, <3>1
  <2>5. CASE ~todo[1].quiet
    <3> DEFINE c == todo[1].class
    <3>1. c \in Managed /\ todo[1].pair = rec[c] /\ c \in Class /\ staged \in [Class -> Pair]
      BY <1>7, <2>5, StageEffect, TypeParts DEF HandOff, Managed, Staged
    <3>2. staged' = [staged EXCEPT ![c] = rec[c]]
      BY <2>2, <2>5, <3>1
    <3> HIDE DEF c
    <3>3. \A k \in Managed : staged'[k].target = IF k = c THEN rec[c].target ELSE staged[k].target
      BY <3>1, <3>2 DEF Managed
    <3>4. TargetsOf(staged)' = [TargetsOf(staged) EXCEPT ![c] = TargetsOf(rec)[c]]
      BY <1>3, <3>1, <3>3
    <3>5. Promise!HandOver(c)
      BY <2>1, <2>3, <3>4 DEF Promise!HandOver
    <3> QED BY <3>1, <3>5 DEF Promise!Next
  <2> QED BY <2>4, <2>5
<1>8. CASE Tick \/ LoopReturns \/ Sigterm \/ Persist \/ UNCHANGED vars
  <2>1. UNCHANGED <<rec, staged, cfg>>
    BY <1>8 DEF Tick, LoopReturns, Sigterm, Persist, vars
  <2>2. Alive
    BY <1>8 DEF Tick, LoopReturns, Sigterm, Persist, vars
  <2>3. Same
    BY <2>1, <2>2 DEF TargetsOf
  <2> QED BY <1>1, <2>3
<1>9. CASE PersistFails \/ Exit \/ Crash
  <2>1. phase # "down" /\ phase' = "down"
    BY <1>9 DEF PersistFails, Exit, Crash, Ends
  <2> QED BY <2>1 DEF Promise!Next, Promise!End
<1> QED BY <1>4, <1>5, <1>6, <1>7, <1>8, <1>9 DEF Next

\* Reconciler, store, main loop and file together implement Directive: targets
\* walk, are handed over before the next decision, and are taken all at once,
\* through every interleaving, shutdown, crash and restart.
THEOREM ImplementsDirective == Spec => KeepsDirective
<1>1. Init => Promise!Init
  BY DEF Init, Promise!Init
<1>2. Init => OnOffer
  BY DEF Init, OnOffer
<1> QED
  BY <1>1, <1>2, OnOfferStep, PromiseStep, HandOffInvariant, PTL
  DEF Spec, KeepsDirective, Promise!Spec
=============================================================================
