--------------------------- MODULE LearnerProofs ---------------------------
(***************************************************************************)
(* Theorems of Learner for every set of classes, plant, window length and  *)
(* profile.                                                                *)
(***************************************************************************)
EXTENDS Learner, ControlLawProofs, FiniteSetTheorems, SequenceTheorems,
        WellFoundedInduction, TLAPS

-----------------------------------------------------------------------------
(* Least and greatest elements. *)

\* A nonempty set of natural numbers has a least one.
LEMMA LeastNat ==
  ASSUME NEW T \in SUBSET Nat, T # {}
  PROVE  \E m \in T : \A n \in T : m <= n
<1>1. \E m \in T : \A n \in T : ~ (<<n, m>> \in OpToRel(<, Nat))
  BY WFMin, NatLessThanWellFounded
<1>2. ASSUME NEW m \in T, NEW n \in T, <<n, m>> \notin OpToRel(<, Nat)
      PROVE  m <= n
  BY <1>2 DEF OpToRel
<1> QED BY <1>1, <1>2

\* Of numbers at finitely many places, one is the largest: the one that has the
\* fewest larger ones.
Numbers(s, T) == \A i \in T : s[i] \in Int
HasPeak(s, T) == \E i \in T : \A j \in T : s[j] <= s[i]

LEMMA Peak ==
  ASSUME NEW s, NEW T, IsFiniteSet(T), T # {}, Numbers(s, T)
  PROVE  HasPeak(s, T)
<1> USE DEF Numbers, HasPeak
<1> DEFINE Above(i) == {j \in T : s[j] > s[i]}
           Ranks    == {Cardinality(Above(i)) : i \in T}
<1>2. \A i \in T : IsFiniteSet(Above(i)) /\ Cardinality(Above(i)) \in Nat
  <2>1. \A i \in T : Above(i) \in SUBSET T
    OBVIOUS
  <2> QED BY <2>1, FS_Subset, FS_CardinalityType
<1>3. PICK i \in T : \A j \in T : Cardinality(Above(i)) <= Cardinality(Above(j))
  <2>1. Ranks \in SUBSET Nat /\ Ranks # {}
    BY <1>2
  <2>2. PICK m \in Ranks : \A k \in Ranks : m <= k
    <3> HIDE DEF Ranks
    <3> QED BY <2>1, LeastNat
  <2> HIDE DEF Above
  <2>3. PICK i \in T : m = Cardinality(Above(i))
    OBVIOUS
  <2> QED BY <2>2, <2>3
<1>4. ASSUME NEW j \in T, s[j] > s[i]
      PROVE  FALSE
  <2>1. /\ Above(j) \in SUBSET Above(i)
        /\ j \in Above(i) /\ j \notin Above(j)
    <3>1. \A k \in T : s[k] > s[j] => s[k] > s[i]
      BY <1>4
    <3>2. ~(s[j] > s[j])
      OBVIOUS
    <3> QED BY <1>4, <3>1, <3>2
  <2>2. Cardinality(Above(j)) <= Cardinality(Above(i)) /\ Cardinality(Above(i)) # Cardinality(Above(j))
    <3> HIDE DEF Above
    <3> QED BY <1>2, <2>1, FS_Subset
  <2> HIDE DEF Above
  <2> QED BY <1>2, <1>3, <2>2
<1> QED BY <1>4

-----------------------------------------------------------------------------
(* The window statistics. *)

\* The nearest rank is a place of the window.
LEMMA RankInRange ==
  ASSUME NEW n \in Nat, n > 0, NEW p \in {50, 90}
  PROVE  Rank(p, n) \in 0 .. n - 1
  BY DEF Rank, RoundedRatio

\* A percentile of a nonempty window is one of its members.
LEMMA PercentileIsMember ==
  ASSUME NEW n \in Nat, n > 0, NEW s \in [1 .. n -> Int], Len(s) = n, NEW p \in {50, 90}
  PROVE  \E i \in 1 .. n : Percentile(p, s) = s[i]
<1> DEFINE k     == Rank(p, n)
           LE(v) == {i \in 1 .. n : s[i] <= v}
           LT(v) == {i \in 1 .. n : s[i] < v}
           G     == {i \in 1 .. n : Cardinality(LE(s[i])) > k}
<1>1. /\ IsFiniteSet(1 .. n) /\ Cardinality(1 .. n) = n
      /\ k \in Nat /\ k < n
  <2>1. IsFiniteSet(1 .. n) /\ Cardinality(1 .. n) = n
    BY FS_Interval
  <2>2. k \in 0 .. n - 1
    BY RankInRange
  <2> HIDE DEF k
  <2> QED BY <2>1, <2>2
<1>2. \A v \in Int : Cardinality(LE(v)) \in Nat /\ Cardinality(LT(v)) \in Nat
  <2>1. \A v \in Int : LE(v) \in SUBSET (1 .. n) /\ LT(v) \in SUBSET (1 .. n)
    OBVIOUS
  <2> HIDE DEF LE, LT
  <2> QED BY <1>1, <2>1, FS_Subset, FS_CardinalityType
<1>3. G # {}
  <2>1. PICK i \in 1 .. n : \A j \in 1 .. n : s[j] <= s[i]
    <3>1. Numbers(s, 1 .. n) /\ 1 \in 1 .. n
      BY DEF Numbers
    <3>2. HasPeak(s, 1 .. n)
      <4> HIDE DEF LE, LT, G, k
      <4> QED BY <1>1, <3>1, Peak
    <3> QED BY <3>2 DEF HasPeak
  <2>2. LE(s[i]) = 1 .. n
    BY <2>1
  <2>3. Cardinality(LE(s[i])) > k
    <3> HIDE DEF k
    <3> QED BY <1>1, <2>2
  <2> QED BY <2>3
<1>4. PICK i \in G : \A j \in G : s[i] <= s[j]
  <2> DEFINE neg == [j \in 1 .. n |-> -s[j]]
  <2>1. G \in SUBSET (1 .. n) /\ \A j \in 1 .. n : neg[j] \in Int
    OBVIOUS
  <2>2. PICK i \in G : \A j \in G : neg[j] <= neg[i]
    <3> HIDE DEF neg, G
    <3>1. IsFiniteSet(G) /\ Numbers(neg, G)
      BY <1>1, <2>1, FS_Subset DEF Numbers
    <3>2. HasPeak(neg, G)
      BY <1>3, <3>1, Peak
    <3> QED BY <3>2 DEF HasPeak
  <2>3. \A j \in 1 .. n : neg[j] = -s[j] /\ s[j] \in Int
    OBVIOUS
  <2> HIDE DEF neg
  <2> HIDE DEF G
  <2>4. \A j \in G : s[i] <= s[j]
    BY <2>1, <2>2, <2>3
  <2> QED BY <2>2, <2>4
<1>5. i \in 1 .. n /\ s[i] \in Int /\ Cardinality(LE(s[i])) > k
  OBVIOUS
<1>6. Cardinality(LT(s[i])) <= k
  <2> HIDE DEF k
  <2>1. CASE LT(s[i]) = {}
    <3>1. Cardinality(LT(s[i])) = 0
      <4> HIDE DEF LT
      <4> QED BY <2>1, FS_EmptySet
    <3> QED BY <1>1, <3>1
  <2>2. CASE LT(s[i]) # {}
    <3>1. LT(s[i]) \in SUBSET (1 .. n) /\ \A j \in 1 .. n : s[j] \in Int
      OBVIOUS
    <3>2. PICK u \in LT(s[i]) : \A j \in LT(s[i]) : s[j] <= s[u]
      <4> HIDE DEF LT
      <4>1. IsFiniteSet(LT(s[i])) /\ Numbers(s, LT(s[i]))
        BY <1>1, <3>1, FS_Subset DEF Numbers
      <4>2. HasPeak(s, LT(s[i]))
        BY <2>2, <4>1, Peak
      <4> QED BY <4>2 DEF HasPeak
    <3>3. u \in 1 .. n /\ s[u] \in Int /\ s[u] < s[i]
      BY <1>5
    <3>4. LT(s[i]) = LE(s[u])
      <4>1. \A j \in 1 .. n : s[j] \in Int
        OBVIOUS
      <4>2. \A j \in 1 .. n : s[j] < s[i] <=> s[j] <= s[u]
        BY <1>5, <3>2, <3>3, <4>1
      <4> QED BY <4>2
    <3>5. u \notin G
      <4> HIDE DEF G
      <4> QED BY <1>4, <1>5, <3>3
    <3>6. ~ (Cardinality(LE(s[u])) > k)
      BY <3>3, <3>5
    <3> HIDE DEF LE, LT
    <3>7. Cardinality(LE(s[u])) \in Nat
      BY <1>2, <3>3
    <3> QED BY <1>1, <3>4, <3>6, <3>7
  <2> QED BY <2>1, <2>2
<1> DEFINE Members == {s[j] : j \in DOMAIN s}
           Right(v) == /\ Cardinality({j \in DOMAIN s : s[j] < v}) <= Rank(p, Len(s))
                       /\ Cardinality({j \in DOMAIN s : s[j] <= v}) > Rank(p, Len(s))
<1>7. DOMAIN s = 1 .. n
  OBVIOUS
<1>8. s[i] \in Members /\ Right(s[i])
  BY <1>5, <1>6, <1>7
<1>9. Percentile(p, s) = CHOOSE v \in Members : Right(v)
  BY DEF Percentile
<1>10. Percentile(p, s) \in Members
  <2> HIDE DEF Members, Right
  <2> QED BY <1>8, <1>9
<1> QED BY <1>7, <1>10

-----------------------------------------------------------------------------
(* The settled box. *)

\* A record of the window whose demand is what the class's own curve asked for,
\* unless the class was silent.
Sample ==
  {r \in [temp : Int, demand : 0 .. 100, asked : -1 .. 100] :
     r.asked = Silent \/ r.asked = r.demand}

\* The constants, in the forms the proofs below use.
LEMMA Limits ==
  /\ MinFan \in Nat /\ MaxFan \in Nat /\ 0 < MinFan /\ MinFan <= MaxFan /\ MaxFan <= 100
  /\ Window \in Nat /\ Window > 0 /\ MaxDisturbances \in Nat
  /\ Floor \in Nat
  /\ \A c \in Class : /\ Target[c] \in Int /\ Emergency[c] \in Int /\ Cap(c) \in Int
                      /\ Cooling[c] \in Nat
                      /\ Profile[c] \subseteq Int /\ Heats[c] \subseteq Nat
                      /\ Targets(c) \subseteq Int
<1>1. \A c \in Class : /\ Target[c] \in Int /\ Emergency[c] \in Int /\ MinCurveSpan[c] \in Nat
                       /\ Cooling[c] \in Nat /\ Profile[c] \subseteq Int /\ Heats[c] \subseteq Nat
  BY LearnerAssumption
<1>2. \A c \in Class : Cap(c) \in Int
  BY <1>1 DEF Cap, MaxRampStart
<1>3. \A c \in Class : Targets(c) \subseteq Int
  <2>1. \A c \in Class : Env[c].low .. Env[c].safe - 1 \subseteq Int /\ {Target[c]} \subseteq Int
    BY <1>1
  <2> QED BY <2>1 DEF Targets
<1> QED BY <1>1, <1>2, <1>3, LearnerAssumption, FloorAssumption

LEMMA SteadyTempInt ==
  ASSUME NEW c \in Class, heat[c] \in Nat, NEW f \in Nat
  PROVE  SteadyTemp(c, f) \in Int
<1>1. Cooling[c] \in Nat
  BY Limits
<1>2. Cooling[c] * f \in Nat
  BY <1>1, ProductNat
<1>3. RoundedRatio(Cooling[c] * f, 100) \in Nat
  BY <1>2, RoundedRatioNat
<1> QED BY <1>3 DEF SteadyTemp

\* No curve asks for more than MaxFan.
LEMMA CurveAtRange ==
  ASSUME NEW c \in Class, heat[c] \in Nat, comfort[c] \in Int, NEW f \in Nat
  PROVE  CurveAt(c, f) \in 0 .. MaxFan
<1> DEFINE t    == Res * SteadyTemp(c, f)
           ramp == Smaller(comfort[c], Cap(c))
<1>1. t \in Int
  BY SteadyTempInt, ResAssumption
<1>2. ramp \in Int /\ Emergency[c] \in Int /\ MinFan \in Nat /\ MaxFan \in Nat /\ MinFan <= MaxFan
  BY Limits DEF Smaller
<1>3. CurveAt(c, f) = CurveF(t, ramp, Emergency[c], MinFan, MaxFan)
  BY DEF CurveAt
<1> HIDE DEF t, ramp
<1>4. CurveF(t, ramp, Emergency[c], MinFan, MaxFan) \in {0} \cup (MinFan .. MaxFan)
  BY <1>1, <1>2, CurveFRange
<1> QED BY <1>2, <1>3, <1>4

\* There is a fan the inner loop comes to rest at: MaxFan exceeds no curve, and
\* the least one that does is it.
LEMMA SteadyFanRange ==
  ASSUME comfort \in [Class -> Int], heat \in [Class -> Nat], awake \subseteq Class
  PROVE  SteadyFan \in MinFan .. MaxFan
<1> DEFINE Enough(f) == \A c \in awake : CurveAt(c, f) <= f
           Speeds    == MinFan .. MaxFan
           F         == {f \in Speeds : Enough(f)}
           Rest(f)   == Enough(f) /\ (f = MinFan \/ \E c \in awake : CurveAt(c, f - 1) > f - 1)
<1>1. /\ MaxFan \in Speeds /\ Speeds \in SUBSET Nat
      /\ \A f \in Speeds : f = MinFan \/ (f - 1 \in Speeds /\ ~(f <= f - 1))
      /\ \A f \in Speeds : f \in Nat
  BY Limits
<1>2. \A c \in awake, f \in Nat : CurveAt(c, f) \in Int /\ CurveAt(c, f) <= MaxFan
  <2>1. ASSUME NEW c \in awake, NEW f \in Nat
        PROVE  CurveAt(c, f) \in Int /\ CurveAt(c, f) <= MaxFan
    <3>1. c \in Class /\ heat[c] \in Nat /\ comfort[c] \in Int
      OBVIOUS
    <3>2. CurveAt(c, f) \in 0 .. MaxFan
      BY <3>1, CurveAtRange
    <3> QED BY <3>2, Limits
  <2> QED BY <2>1
<1>3. PICK m \in F : \A f \in F : m <= f
  <2>1. MaxFan \in F
    BY <1>1, <1>2
  <2>2. F \in SUBSET Nat
    BY <1>1
  <2> HIDE DEF F
  <2> QED BY <2>1, <2>2, LeastNat
<1>4. m \in Speeds /\ Rest(m)
  <2>1. CASE m = MinFan
    BY <2>1
  <2>2. CASE m # MinFan
    <3>1. m - 1 \in Speeds /\ m - 1 \notin F
      <4> HIDE DEF Speeds, Enough
      <4>1. m \in Speeds
        OBVIOUS
      <4> HIDE DEF F
      <4> QED BY <1>1, <1>3, <2>2, <4>1
    <3>2. m - 1 \in Nat
      BY <1>1, <3>1
    <3>3. PICK c \in awake : ~(CurveAt(c, m - 1) <= m - 1)
      BY <3>1
    <3> QED BY <1>2, <3>2, <3>3
  <2> QED BY <2>1, <2>2
<1>5. SteadyFan = CHOOSE f \in Speeds : Rest(f)
  BY DEF SteadyFan
<1> HIDE DEF Speeds, Rest
<1>6. SteadyFan \in Speeds
  BY <1>4, <1>5
<1> QED BY <1>6 DEF Speeds

-----------------------------------------------------------------------------
(* One class's decision. *)

\* Appending to a full window evicts its oldest record.
LEMMA SlideSound ==
  ASSUME NEW buf \in Seq(Sample), Len(buf) <= Window, NEW r \in Sample, NEW sane
  PROVE  Slide(buf, r, sane) \in Seq(Sample) /\ Len(Slide(buf, r, sane)) <= Window
<1> HIDE DEF Sample
<1>0. CASE r.temp \notin sane
  BY <1>0 DEF Slide
<1>1. CASE r.temp \in sane /\ Len(buf) >= Window
  <2>1. buf # <<>>
    BY <1>1, Limits
  <2>2. Tail(buf) \in Seq(Sample) /\ Len(Tail(buf)) = Len(buf) - 1 /\ Len(buf) \in Nat
    BY <2>1, HeadTailProperties, LenProperties
  <2>3. /\ Append(Tail(buf), r) \in Seq(Sample)
        /\ Len(Append(Tail(buf), r)) = Len(Tail(buf)) + 1
    BY <2>2, AppendProperties
  <2> QED BY <1>1, <2>2, <2>3, Limits DEF Slide
<1>2. CASE r.temp \in sane /\ ~(Len(buf) >= Window)
  <2>1. /\ Append(buf, r) \in Seq(Sample) /\ Len(Append(buf, r)) = Len(buf) + 1
        /\ Len(buf) \in Nat
    BY AppendProperties, LenProperties
  <2> QED BY <1>2, <2>1, Limits DEF Slide
<1> QED BY <1>0, <1>1, <1>2

\* What a tick reads of a class's window: two of its records.
LEMMA WindowRead ==
  ASSUME NEW c \in Class, window[c] \in Seq(Sample), window[c] # <<>>
  PROVE  /\ Percentile(50, Temps(c)) \in Int
         /\ \E i \in DOMAIN window[c] : Percentile(90, Demands(c)) = window[c][i].demand
<1> DEFINE n == Len(window[c])
<1>1. /\ n \in Nat /\ n > 0 /\ DOMAIN window[c] = 1 .. n
      /\ \A i \in 1 .. n : window[c][i] \in Sample
  <2>1. /\ n \in Nat /\ DOMAIN window[c] = 1 .. n
        /\ \A i \in 1 .. n : window[c][i] \in Sample
    BY LenProperties
  <2>2. n # 0
    BY EmptySeq
  <2> QED BY <2>1, <2>2
<1>2. \A i \in 1 .. n : window[c][i].temp \in Int /\ window[c][i].demand \in Int
  <2> HIDE DEF n
  <2>1. ASSUME NEW r \in Sample
        PROVE  r.temp \in Int /\ r.demand \in Int
    <3>1. r \in [temp : Int, demand : 0 .. 100, asked : -1 .. 100]
      BY DEF Sample
    <3>2. r.temp \in Int
      BY <3>1
    <3>3. r.demand \in 0 .. 100
      BY <3>1
    <3>4. \A d \in 0 .. 100 : d \in Int
      OBVIOUS
    <3> QED BY <3>2, <3>3, <3>4
  <2> QED BY <1>1, <2>1
<1> HIDE DEF n
<1>3. /\ Temps(c) = [i \in 1 .. n |-> window[c][i].temp]
      /\ Demands(c) = [i \in 1 .. n |-> window[c][i].demand]
  BY <1>1 DEF Temps, Demands
<1>4. /\ Temps(c) \in [1 .. n -> Int] /\ Demands(c) \in [1 .. n -> Int]
      /\ \A i \in 1 .. n : Temps(c)[i] \in Int /\ Demands(c)[i] = window[c][i].demand
  BY <1>2, <1>3
<1>5. Len(Temps(c)) = n /\ Len(Demands(c)) = n
  <2>1. \A s \in [1 .. n -> Int] : s \in Seq(Int) /\ DOMAIN s = 1 .. n
    BY <1>1, SeqDef
  <2>2. \A s \in [1 .. n -> Int] : Len(s) = n
    BY <1>1, <2>1, LenProperties
  <2> QED BY <1>4, <2>2
<1>6. \E i \in 1 .. n : Percentile(50, Temps(c)) = Temps(c)[i]
  BY <1>1, <1>4, <1>5, PercentileIsMember
<1>7. \E i \in 1 .. n : Percentile(90, Demands(c)) = Demands(c)[i]
  BY <1>1, <1>4, <1>5, PercentileIsMember
<1> QED BY <1>1, <1>4, <1>6, <1>7

\* The ramp start a tick gives a class that learns is unchanged or between the
\* floor and the cap, and it is higher only if the class is cooler than it need
\* be and asked for fan that is left to be given back, or started below the floor.
LEMMA TickSound ==
  ASSUME NEW p50 \in Int, NEW p90, NEW settled, NEW ramp \in Int, NEW want \in Int,
         NEW cap \in Int, Floor <= cap, NEW minFan
  PROVE  LET r == TargetSeek(p50, p90, settled, ramp, want, cap, minFan)
         IN  /\ r = ramp \/ r \in Floor .. cap
             /\ r > ramp => p90 > minFan \/ ramp < Floor
             /\ r > ramp => p50 - want <= -ToleranceCool \/ ramp < Floor
<1>1. Floor \in Int
  BY Limits
<1>2. StepFor(p50 - want) = 1 /\ StepFor(-(p50 - want)) = 1
  BY DEF StepFor, MaxStep, Clamp
<1>3. Clamp(ramp - 1, Floor, cap) \in Floor .. cap /\ Clamp(ramp + 1, Floor, cap) \in Floor .. cap
  BY <1>1 DEF Clamp
<1>4. ramp >= Floor => Clamp(ramp - 1, Floor, cap) <= ramp
  BY <1>1 DEF Clamp
<1> DEFINE A == settled /\ p50 - want > ToleranceHot /\ p90 < SaturatedAt
           B == settled /\ p50 - want <= -ToleranceCool /\ p90 > minFan
           r == TargetSeek(p50, p90, settled, ramp, want, cap, minFan)
<1>5. ~(A /\ B)
  BY DEF ToleranceHot, ToleranceCool
<1>6. /\ A => r = Clamp(ramp - 1, Floor, cap)
      /\ B => r = Clamp(ramp + 1, Floor, cap)
      /\ ~A /\ ~B => r = ramp
  BY <1>2, <1>5 DEF TargetSeek
<1>7. B => p90 > minFan /\ p50 - want <= -ToleranceCool
  OBVIOUS
<1> HIDE DEF A, B, r
<1>8. r = ramp \/ r \in Floor .. cap
  BY <1>3, <1>6
<1>9. r > ramp => (p90 > minFan /\ p50 - want <= -ToleranceCool) \/ ramp < Floor
  <2>1. CASE A
    BY <1>1, <1>3, <1>4, <1>6, <2>1
  <2>2. CASE B
    BY <1>7, <2>2
  <2>3. CASE ~A /\ ~B
    BY <1>6, <2>3
  <2> QED BY <2>1, <2>2, <2>3
<1> QED BY <1>8, <1>9 DEF r

\* Whatever the window shows, a class that drifts stays in its band.
LEMMA ReconciledWithin ==
  ASSUME NEW c \in Drifting, target[c] \in Int
  PROVE  Reconciled(c) \in Targets(c)
<1> DEFINE low  == Env[c].low
           high == Env[c].safe - 1
           t    == target[c] + BestDelta(InMode, Env[c], Stats(c))
<1>1. /\ Env[c].low \in Nat /\ Env[c].mid \in Nat /\ Env[c].high \in Nat /\ Env[c].safe \in Nat
      /\ Env[c].low <= Env[c].mid /\ Env[c].mid <= Env[c].high /\ Env[c].high < Env[c].safe
  BY LearnerAssumption
<1>2. InMode \in Mode
  BY LearnerAssumption
<1>3. InitialTarget(Env[c], InMode).target \in {Env[c].low, Env[c].mid, Env[c].high}
  BY <1>2 DEF InitialTarget, Mode
<1>4. InitialTarget(Env[c], InMode).target \in low .. high
  BY <1>1, <1>3
<1>5. low \in Int /\ high \in Int /\ low <= high
  BY <1>1
<1>6. BestDelta(InMode, Env[c], Stats(c)) \in {-1, 0, 1}
  BY DEF BestDelta
<1>7. t \in Int
  BY <1>6
<1>8. Clamp(t, low, high) \in low .. high
  <2> HIDE DEF t, low, high
  <2> QED BY <1>5, <1>7 DEF Clamp
<1>9. \/ Reconciled(c) = InitialTarget(Env[c], InMode).target
      \/ Reconciled(c) = Clamp(t, low, high)
  BY DEF Reconciled
<1>10. Targets(c) = low .. high
  BY DEF Targets
<1> HIDE DEF t, low, high
<1> QED BY <1>4, <1>8, <1>9, <1>10

-----------------------------------------------------------------------------
(* The inductive invariant. *)

\* The variables as functions, and windows of honest records.
Types ==
  /\ comfort \in [Class -> Int] /\ target \in [Class -> Int]
  /\ heat \in [Class -> Nat]
  /\ last \in [Class -> [temp : Int, demand : 0 .. 100]]
  /\ window \in [Class -> Seq(Sample)]

Ramps ==
  \A c \in Class : /\ comfort[c] <= Cap(c)
                   /\ comfort[c] >= Smaller(Floor, Cap(c)) \/ comfort[c] \in Profile[c]

Plant ==
  /\ \A c \in Class : heat[c] \in Heats[c]
  /\ awake \subseteq Class /\ Class \ awake \subseteq Sleeper
  /\ disturbed \in 0 .. MaxDisturbances

Loop ==
  /\ fan \in MinFan .. MaxFan
  /\ due \subseteq {"learn", "drift"}
  /\ \A c \in Class : Len(window[c]) <= Window /\ target[c] \in Targets(c)

IInv == Types /\ Ramps /\ Plant /\ Loop

LEMMA Starts == Init => IInv
<1> SUFFICES ASSUME Init PROVE IInv
  OBVIOUS
<1>1. PICK p \in [Class -> UNION {Profile[c] : c \in Class}] :
        /\ \A c \in Class : p[c] \in Profile[c]
        /\ comfort = [c \in Class |-> Smaller(p[c], Cap(c))]
  BY DEF Init
<1>2. \A c \in Class : /\ p[c] \in Profile[c] /\ p[c] \in Int /\ Cap(c) \in Int
                       /\ comfort[c] = Smaller(p[c], Cap(c))
  BY <1>1, Limits
<1>3. \A c \in Class : comfort[c] \in Int
  BY <1>2 DEF Smaller
<1>4. comfort \in [Class -> Int]
  BY <1>1, <1>3
<1>5. Ramps
  BY <1>2, Limits DEF Ramps, Smaller
<1>6. \A c \in Class : heat[c] \in Heats[c] /\ heat[c] \in Nat
  BY Limits DEF Init
<1>7. heat \in [Class -> Nat]
  BY <1>6 DEF Init
<1>8. last \in [Class -> [temp : Int, demand : 0 .. 100]]
  BY DEF Init
<1>9. window \in [Class -> Seq(Sample)] /\ \A c \in Class : Len(window[c]) <= Window
  <2>1. <<>> \in Seq(Sample) /\ Len(<<>>) = 0
    BY EmptySeq
  <2> QED BY <2>1, Limits DEF Init
<1>10. Plant
  <2>1. 0 \in 0 .. MaxDisturbances
    BY Limits
  <2> QED BY <1>6, <2>1 DEF Init, Plant
<1>11. target \in [Class -> Int] /\ \A c \in Class : target[c] \in Targets(c)
  <2>1. PICK t \in [Class -> UNION {Targets(c) : c \in Class}] :
          (\A c \in Class : t[c] \in Targets(c)) /\ target = t
    BY DEF Init
  <2>2. \A c \in Class : t[c] \in Int
    BY <2>1, Limits
  <2> QED BY <2>1, <2>2
<1>12. Loop
  <2>1. fan \in MinFan .. MaxFan
    BY Limits DEF Init
  <2>2. due \subseteq {"learn", "drift"}
    BY DEF Init
  <2> QED BY <1>9, <1>11, <2>1, <2>2 DEF Loop
<1> QED BY <1>4, <1>5, <1>7, <1>8, <1>9, <1>10, <1>11, <1>12 DEF IInv, Types

LEMMA DwellStays ==
  ASSUME IInv, Dwell
  PROVE  IInv'
<1> USE DEF IInv
<1>1. /\ comfort \in [Class -> Int] /\ heat \in [Class -> Nat] /\ awake \subseteq Class
  BY DEF Types, Plant
<1>2. /\ fan' \in MinFan .. MaxFan /\ fan' \in Nat
      /\ last' = [c \in Class |-> LastOf(c, fan')]
      /\ window' = [c \in Class |-> Sampled(c, fan')]
  BY <1>1, SteadyFanRange, Limits DEF Dwell
<1>3. ASSUME NEW c \in Class
      PROVE  /\ SteadyTemp(c, fan') \in Int
             /\ CurveAt(c, fan') \in 0 .. 100
  <2>1. heat[c] \in Nat /\ comfort[c] \in Int
    BY <1>1
  <2>2. CurveAt(c, fan') \in 0 .. MaxFan
    BY <1>2, <2>1, CurveAtRange
  <2>3. MaxFan \in Nat /\ MaxFan <= 100
    BY Limits
  <2>4. CurveAt(c, fan') \in 0 .. 100
    BY <2>2, <2>3
  <2> QED BY <1>2, <2>1, <2>4, SteadyTempInt
<1>4. ASSUME NEW c \in Class
      PROVE  LastOf(c, fan') \in [temp : Int, demand : 0 .. 100]
  <2>1. last[c] \in [temp : Int, demand : 0 .. 100]
    BY DEF Types
  <2>2. CASE c \in Measured
    BY <1>3, <2>2 DEF LastOf
  <2>3. CASE c \notin Measured
    BY <2>1, <2>3 DEF LastOf
  <2> QED BY <2>2, <2>3
<1>5. ASSUME NEW c \in Class
      PROVE  Sampled(c, fan') \in Seq(Sample) /\ Len(Sampled(c, fan')) <= Window
  <2> DEFINE l == LastOf(c, fan')
             a == IF c \in Measured THEN CurveAt(c, fan') ELSE Silent
             r == [temp |-> l.temp, demand |-> l.demand, asked |-> a]
  <2>1. window[c] \in Seq(Sample) /\ Len(window[c]) <= Window
    BY DEF Types, Loop
  <2>2. l.temp \in Int /\ l.demand \in 0 .. 100
    BY <1>4
  <2>3. a \in -1 .. 100 /\ (a = Silent \/ a = l.demand)
    <3>1. CASE c \in Measured
      <4>1. a = CurveAt(c, fan') /\ l.demand = CurveAt(c, fan')
        BY <3>1 DEF LastOf
      <4> HIDE DEF a, l
      <4> QED BY <1>3, <4>1
    <3>2. CASE c \notin Measured
      BY <3>2 DEF Silent
    <3> QED BY <3>1, <3>2
  <2>4. r \in Sample
    <3> HIDE DEF l, a
    <3> QED BY <2>2, <2>3 DEF Sample
  <2>5. Slide(window[c], r, Sane[c]) \in Seq(Sample) /\ Len(Slide(window[c], r, Sane[c])) <= Window
    <3> HIDE DEF r
    <3> QED BY <2>1, <2>4, SlideSound
  <2>6. Sampled(c, fan') = window[c] \/ Sampled(c, fan') = Slide(window[c], r, Sane[c])
    BY DEF Sampled
  <2> HIDE DEF r
  <2> QED BY <2>1, <2>5, <2>6
<1>6. Types'
  BY <1>1, <1>2, <1>4, <1>5 DEF Dwell, plant, Types
<1>7. Loop'
  <2>1. due' \subseteq {"learn", "drift"}
    BY DEF Dwell
  <2> QED BY <1>2, <1>5, <2>1 DEF Dwell, Loop, Targets
<1>8. Ramps' /\ Plant'
  BY DEF Dwell, plant, Ramps, Plant
<1> QED BY <1>6, <1>7, <1>8

\* Where a tick puts a ramp start.
LEMMA TickMoves ==
  ASSUME IInv, LearnTick, NEW c \in Class
  PROVE  /\ comfort'[c] = comfort[c] \/ (Floor <= Cap(c) /\ comfort'[c] \in Floor .. Cap(c))
         /\ comfort'[c] > comfort[c] =>
              \/ comfort[c] < Floor /\ Floor <= Cap(c)
              \/ /\ \E i \in DOMAIN window[c] : window[c][i].demand > MinFan
                 /\ Percentile(50, Temps(c)) - target[c] <= -ToleranceCool
<1> DEFINE p50 == Percentile(50, Temps(c))
           p90 == Percentile(90, Demands(c))
           settled == Settled(Temps(c))
           r == TargetSeek(p50, p90, settled, comfort[c], target[c], Cap(c), MinFan)
<1>1. comfort[c] \in Int /\ Cap(c) \in Int /\ target[c] \in Int /\ window[c] \in Seq(Sample)
  BY Limits DEF IInv, Types
<1>2. comfort'[c] = IF ~Learns(c) THEN comfort[c] ELSE r
  BY DEF LearnTick
<1>3. CASE ~Learns(c)
  BY <1>1, <1>2, <1>3
<1>4. CASE Learns(c)
  <2>1. Floor <= Cap(c) /\ window[c] # <<>>
    BY <1>1, <1>4, Limits DEF Learns
  <2>2. /\ p50 \in Int
        /\ \E i \in DOMAIN window[c] : p90 = window[c][i].demand
    BY <1>1, <2>1, WindowRead
  <2>3. comfort'[c] = r
    BY <1>2, <1>4
  <2>4. /\ r = comfort[c] \/ r \in Floor .. Cap(c)
        /\ r > comfort[c] => p90 > MinFan \/ comfort[c] < Floor
        /\ r > comfort[c] => p50 - target[c] <= -ToleranceCool \/ comfort[c] < Floor
    <3> HIDE DEF p50, p90, settled
    <3> QED BY <1>1, <2>1, <2>2, TickSound
  <2> HIDE DEF p90, r
  <2>5. p90 > MinFan => \E i \in DOMAIN window[c] : window[c][i].demand > MinFan
    BY <2>2
  <2> QED BY <2>1, <2>3, <2>4, <2>5
<1> QED BY <1>3, <1>4

LEMMA TickStays ==
  ASSUME IInv, LearnTick
  PROVE  IInv'
<1> USE DEF IInv
<1>1. ASSUME NEW c \in Class
      PROVE  /\ comfort'[c] \in Int /\ comfort'[c] <= Cap(c)
             /\ comfort'[c] >= Smaller(Floor, Cap(c)) \/ comfort'[c] \in Profile[c]
  <2>1. /\ comfort[c] \in Int /\ comfort[c] <= Cap(c) /\ Cap(c) \in Int /\ Floor \in Int
        /\ comfort[c] >= Smaller(Floor, Cap(c)) \/ comfort[c] \in Profile[c]
    BY Limits DEF Types, Ramps
  <2>2. CASE comfort'[c] = comfort[c]
    BY <2>1, <2>2
  <2>3. CASE Floor <= Cap(c) /\ comfort'[c] \in Floor .. Cap(c)
    BY <2>1, <2>3 DEF Smaller
  <2> QED BY <2>2, <2>3, TickMoves
<1>2. DOMAIN comfort' = Class /\ comfort' = [c \in Class |-> comfort'[c]]
  BY DEF LearnTick
<1>3. comfort' \in [Class -> Int]
  BY <1>1, <1>2
<1>4. Types'
  BY <1>3 DEF LearnTick, plant, Types
<1>5. Ramps'
  BY <1>1 DEF Ramps
<1>6. Plant'
  BY DEF LearnTick, plant, Plant
<1>7. Loop'
  <2>1. due' \subseteq {"learn", "drift"}
    BY DEF LearnTick, Loop
  <2> QED BY <2>1 DEF LearnTick, Loop, Targets
<1> QED BY <1>4, <1>5, <1>6, <1>7

LEMMA DriftStays ==
  ASSUME IInv, Drift
  PROVE  IInv'
<1> USE DEF IInv
<1>1. ASSUME NEW c \in Class
      PROVE  target'[c] \in Targets(c) /\ target'[c] \in Int
  <2>1. target[c] \in Targets(c) /\ target[c] \in Int /\ Targets(c) \subseteq Int
    BY Limits DEF Types, Loop
  <2>2. CASE c \in Drifting /\ Len(window[c]) = Window
    <3>1. target'[c] = Reconciled(c)
      BY <2>2 DEF Drift
    <3> QED BY <2>1, <2>2, <3>1, ReconciledWithin
  <2>3. CASE ~(c \in Drifting /\ Len(window[c]) = Window)
    <3>1. target'[c] = target[c]
      BY <2>3 DEF Drift
    <3> QED BY <2>1, <3>1
  <2> QED BY <2>2, <2>3
<1>2. target' = [c \in Class |-> target'[c]]
  BY DEF Drift
<1>3. target' \in [Class -> Int]
  BY <1>1, <1>2
<1>4. UNCHANGED <<fan, comfort, last, window, heat, awake, disturbed>>
  BY DEF Drift, plant
<1>5. due' \subseteq {"learn", "drift"}
  BY DEF Drift, Loop
<1>6. Types'
  BY <1>3, <1>4 DEF Types
<1>7. Loop'
  BY <1>1, <1>4, <1>5 DEF Loop, Targets
<1>8. Ramps' /\ Plant'
  BY <1>4 DEF Ramps, Plant
<1> QED BY <1>6, <1>7, <1>8

LEMMA DisturbStays ==
  ASSUME IInv, ShiftHeat \/ FallSilent \/ Return
  PROVE  IInv'
<1> USE DEF IInv
<1>1. Disturb
  BY DEF ShiftHeat, FallSilent, Return
<1>2. UNCHANGED <<fan, comfort, target, last, window, due>>
  BY <1>1 DEF Disturb
<1>3. disturbed' \in 0 .. MaxDisturbances
  BY <1>1, Limits DEF Disturb, Plant
<1>4. Ramps' /\ Loop'
  BY <1>2 DEF Ramps, Loop, Targets
<1>5. /\ heat' \in [Class -> Nat]
      /\ \A c \in Class : heat'[c] \in Heats[c]
  <2>1. CASE ShiftHeat
    <3>1. PICK c \in Class : \E h \in Heats[c] : heat' = [heat EXCEPT ![c] = h]
      BY <2>1 DEF ShiftHeat
    <3>2. PICK h \in Heats[c] : heat' = [heat EXCEPT ![c] = h]
      BY <3>1
    <3>3. h \in Nat
      BY <3>1, Limits
    <3> QED BY <3>2, <3>3 DEF Types, Plant
  <2>2. CASE FallSilent \/ Return
    BY <2>2 DEF FallSilent, Return, Types, Plant
  <2> QED BY <2>1, <2>2
<1>6. awake' \subseteq Class /\ Class \ awake' \subseteq Sleeper
  <2>1. CASE ShiftHeat
    BY <2>1 DEF ShiftHeat, Plant
  <2>2. CASE FallSilent
    BY <2>2 DEF FallSilent, Plant
  <2>3. CASE Return
    BY <2>3 DEF Return, Plant
  <2> QED BY <2>1, <2>2, <2>3
<1>7. Types'
  BY <1>2, <1>5 DEF Types
<1>8. Plant'
  BY <1>3, <1>5, <1>6 DEF Plant
<1> QED BY <1>4, <1>7, <1>8

LEMMA Stays == IInv /\ [Next]_vars => IInv'
<1> SUFFICES ASSUME IInv, [Next]_vars PROVE IInv'
  OBVIOUS
<1>1. CASE Dwell
  BY <1>1, DwellStays
<1>2. CASE LearnTick
  BY <1>2, TickStays
<1>3. CASE ShiftHeat \/ FallSilent \/ Return
  BY <1>3, DisturbStays
<1>4. CASE Drift
  BY <1>4, DriftStays
<1>5. CASE UNCHANGED vars
  BY <1>5 DEF vars, IInv, Types, Ramps, Plant, Loop, Targets
<1> QED BY <1>1, <1>2, <1>3, <1>4, <1>5 DEF Next

THEOREM Invariance == Spec => []IInv
BY Starts, Stays, PTL DEF Spec

-----------------------------------------------------------------------------
(* What holds of every behaviour. *)

\* Every ramp start keeps its class's minimum span, and the learner's floor
\* unless the profile put it lower; fan and window stay within their limits.
THEOREM TypeCorrect == Spec => []TypeOK
<1>1. IInv => TypeOK
  <2> SUFFICES ASSUME IInv PROVE TypeOK
    OBVIOUS
  <2> USE DEF IInv
  <2>1. ASSUME NEW c \in Class
        PROVE  /\ comfort[c] \in Int /\ comfort[c] <= Cap(c)
               /\ comfort[c] >= Smaller(Floor, Cap(c)) \/ comfort[c] \in Profile[c]
               /\ Len(window[c]) <= Window
               /\ last[c] \in [temp : Int, demand : 0 .. 100]
               /\ heat[c] \in Heats[c] /\ target[c] \in Targets(c)
    BY DEF Types, Ramps, Plant, Loop
  <2>2. ASSUME NEW c \in Class
        PROVE  window[c] \in Seq([temp : Int, demand : 0 .. 100, asked : -1 .. 100])
    <3> DEFINE kept == window[c]
               any  == [temp : Int, demand : 0 .. 100, asked : -1 .. 100]
    <3>1. kept \in Seq(Sample) /\ Sample \subseteq any
      BY DEF Types, Sample
    <3>2. kept \in Seq(any)
      <4> HIDE DEF kept, any, IInv
      <4> QED BY <3>1, SeqMonotonic
    <3> QED BY <3>2
  <2> QED BY <2>1, <2>2 DEF TypeOK, Plant, Loop
<1> QED BY <1>1, Invariance, PTL

\* No class is made to start cooling later unless it asked for fan itself,
\* whatever the box and the other classes do, if no profile starts a ramp below
\* the learner's floor (from there the first move is up to the floor).
THEOREM ReclaimsOnlyOwn ==
  ASSUME \A c \in Class : \A p \in Profile[c] : p >= Floor
  PROVE  Spec => ReclaimsOnlyOwnFan
<1> DEFINE Fair(c) ==
      comfort'[c] > comfort[c] =>
        \E i \in DOMAIN window[c] : window[c][i].asked > MinFan \/ window[c][i].asked = Silent
<1>1. IInv /\ [Next]_vars => [\A c \in Class : Fair(c)]_vars
  <2> SUFFICES ASSUME IInv, Next, NEW c \in Class, comfort'[c] > comfort[c]
               PROVE  \E i \in DOMAIN window[c] :
                        window[c][i].asked > MinFan \/ window[c][i].asked = Silent
    OBVIOUS
  <2>1. comfort[c] \in Int /\ window[c] \in Seq(Sample)
    BY DEF IInv, Types
  <2>2. LearnTick
    <3>1. comfort' # comfort
      BY <2>1
    <3> QED BY <3>1 DEF Next, Dwell, Drift, ShiftHeat, FallSilent, Return, Disturb
  <2>3. ~(comfort[c] < Floor /\ Floor <= Cap(c))
    <3>1. comfort[c] >= Smaller(Floor, Cap(c)) \/ comfort[c] >= Floor
      BY DEF IInv, Ramps
    <3> QED BY <2>1, <3>1, Limits DEF Smaller
  <2>4. PICK i \in DOMAIN window[c] : window[c][i].demand > MinFan
    BY <2>2, <2>3, TickMoves
  <2>5. window[c][i] \in Sample
    BY <2>1, LenProperties
  <2>6. window[c][i].asked = Silent \/ window[c][i].asked = window[c][i].demand
    BY <2>5 DEF Sample
  <2> QED BY <2>4, <2>6
<1>2. Spec => [][\A c \in Class : Fair(c)]_vars
  BY <1>1, Invariance, PTL DEF Spec
<1> QED BY <1>2 DEF ReclaimsOnlyOwnFan

-----------------------------------------------------------------------------
\* The fan a class's curve asks for at a temperature, at ramp starts cf.
AsksFor(c, t, cf) == CurveF(t, Smaller(cf[c], Cap(c)), Emergency[c], MinFan, MaxFan)

\* A class loses fan to a tick only if its window says it is cooler than its
\* target: otherwise its new curve asks, at every temperature, for at least as
\* much as its old one.
HotLosesNoFan ==
  [][\A c \in Class :
       Percentile(50, Temps(c)) - target[c] > -ToleranceCool =>
         \A t \in Int : AsksFor(c, t, comfort') >= AsksFor(c, t, comfort)]_vars

\* What the outer loop does to the inner one: only classes below their target
\* are ever cooled less (learn.go TargetSeek, control.go CurveF), if no profile
\* starts a ramp below the learner's floor.
THEOREM OnlyCoolGiveBack ==
  ASSUME \A c \in Class : \A p \in Profile[c] : p >= Floor
  PROVE  Spec => HotLosesNoFan
<1> DEFINE Fair(c) ==
      Percentile(50, Temps(c)) - target[c] > -ToleranceCool =>
        \A t \in Int : AsksFor(c, t, comfort') >= AsksFor(c, t, comfort)
<1>1. IInv /\ [Next]_vars => [\A c \in Class : Fair(c)]_vars
  <2> SUFFICES ASSUME IInv, IInv', Next, NEW c \in Class, NEW t \in Int,
                      Percentile(50, Temps(c)) - target[c] > -ToleranceCool
               PROVE  AsksFor(c, t, comfort') >= AsksFor(c, t, comfort)
    BY Stays
  <2>1. /\ comfort[c] \in Int /\ comfort'[c] \in Int /\ Cap(c) \in Int /\ Emergency[c] \in Int
        /\ MinFan \in Nat /\ MaxFan \in Nat /\ MinFan <= MaxFan
    BY Limits DEF IInv, Types
  <2>2. ~(comfort[c] < Floor /\ Floor <= Cap(c))
    <3>1. comfort[c] >= Smaller(Floor, Cap(c)) \/ comfort[c] >= Floor
      BY DEF IInv, Ramps
    <3> QED BY <2>1, <3>1, Limits DEF Smaller
  <2>3. comfort'[c] <= comfort[c]
    <3>1. CASE LearnTick
      <4>1. SUFFICES ASSUME comfort'[c] > comfort[c] PROVE FALSE
        BY <2>1
      <4>2. /\ \E i \in DOMAIN window[c] : window[c][i].demand > MinFan
            /\ Percentile(50, Temps(c)) - target[c] <= -ToleranceCool
        BY <2>2, <3>1, <4>1, TickMoves
      <4>3. window[c] \in Seq(Sample) /\ window[c] # <<>> /\ target[c] \in Int
        BY <4>2, Limits DEF IInv, Types
      <4>4. Percentile(50, Temps(c)) \in Int
        BY <4>3, WindowRead
      <4> QED BY <4>2, <4>3, <4>4 DEF ToleranceCool
    <3>2. CASE ~LearnTick
      BY <2>1, <3>2 DEF Next, Dwell, Drift, ShiftHeat, FallSilent, Return, Disturb
    <3> QED BY <3>1, <3>2
  <2>4. Smaller(comfort'[c], Cap(c)) <= Smaller(comfort[c], Cap(c))
        /\ Smaller(comfort'[c], Cap(c)) \in Int /\ Smaller(comfort[c], Cap(c)) \in Int
    BY <2>1, <2>3 DEF Smaller
  <2> QED BY <2>1, <2>4, CurveRampMonotone DEF AsksFor
<1>2. Spec => [][\A c \in Class : Fair(c)]_vars
  BY <1>1, Invariance, PTL DEF Spec
<1> QED BY <1>2 DEF HotLosesNoFan
=============================================================================
