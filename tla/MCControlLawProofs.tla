------------------------- MODULE MCControlLawProofs -------------------------
(***************************************************************************)
(* The pure laws' properties for every fan range, ramp, threshold, span    *)
(* and resolution: each is an instance of a theorem about the operators,   *)
(* for the curve and the assist in ControlLawProofs, for the fit and the   *)
(* scores below.                                                           *)
(***************************************************************************)
EXTENDS MCControlLaw, ControlLawProofs

Types ==
  /\ minFan \in MinFans /\ maxFan \in MaxFans /\ threshold \in Thresholds
  /\ comfort \in Nat /\ emergency \in Nat

LEMMA Typing == Spec => []Types
<1>1. Init => Types
  BY InputsAssumption DEF Init, Types
<1>2. Types /\ [Next]_vars => Types'
  BY DEF Types, Next, RaiseComfort, RaiseEmergency, vars
<1> QED BY <1>1, <1>2, PTL DEF Spec

LEMMA Inputs ==
  ASSUME Types
  PROVE  /\ minFan \in Nat \ {0} /\ maxFan \in Nat /\ minFan <= maxFan /\ maxFan <= 100
         /\ threshold \in 0 .. 100 /\ comfort \in Nat /\ emergency \in Nat
         /\ MaxTemp \in Nat /\ MinSpan \in Nat \ {0} /\ Res \in Nat \ {0}
         /\ ScanFans \in [1 .. 3 -> Int] /\ Rises \subseteq Int /\ ScanMargin \in Int
BY InputsAssumption, ResAssumption DEF Types

-----------------------------------------------------------------------------
\* The curve is the v2 proximity floor with the window stretched over the
\* whole ramp (control.go Curve), whatever the resolution and the fan limits.
THEOREM StretchedFloor == Spec => []CurveIsStretchedFloor
<1>1. Types => CurveIsStretchedFloor
  <2> SUFFICES ASSUME Types, NEW temp \in 1 .. MaxTemp
               PROVE  CurveF(Res * temp, comfort, emergency, minFan, maxFan)
                        = ProximityFloor(temp, emergency, emergency - comfort, minFan, maxFan)
    BY DEF CurveIsStretchedFloor
  <2>1. temp \in Nat \ {0} /\ comfort \in Int /\ emergency \in Int
        /\ minFan \in Nat /\ maxFan \in Nat /\ minFan <= maxFan
    BY Inputs
  <2> QED BY <2>1, CurveStretchesFloor
<1> QED BY <1>1, Typing, PTL

\* Wherever the learner or a profile put the ramp start, the capped curve moves
\* the fan by at most its share of the minimum span for a degree of noise
\* (control.go MaxRampStart, CurveF).
THEOREM BoundedGain == Spec => []GainIsBounded
<1>1. Types => GainIsBounded
  <2> SUFFICES ASSUME Types, NEW t \in Res .. Res * MaxTemp
               PROVE  LET ramp == Smaller(comfort, MaxRampStart(MinSpan, emergency))
                      IN  CurveF(t + Res, ramp, emergency, minFan, maxFan)
                            - CurveF(t, ramp, emergency, minFan, maxFan)
                            \in 0 .. ((maxFan - minFan) \div MinSpan) + 1
    BY DEF GainIsBounded
  <2> DEFINE ramp == Smaller(comfort, MaxRampStart(MinSpan, emergency))
  <2>1. ramp \in Int /\ ramp + MinSpan <= emergency
    BY Inputs DEF Smaller, MaxRampStart
  <2>2. Res * MaxTemp \in Nat
    BY Inputs, ProductNat
  <2>3. t \in Nat \ {0}
    BY Inputs, <2>2
  <2> HIDE DEF ramp
  <2>4. CurveF(t + Res, ramp, emergency, minFan, maxFan)
          - CurveF(t, ramp, emergency, minFan, maxFan)
          \in 0 .. ((maxFan - minFan) \div MinSpan) + 1
    <3>1. emergency \in Int /\ minFan \in Nat /\ maxFan \in Nat /\ minFan <= maxFan
          /\ MinSpan \in Nat \ {0}
      BY Inputs
    <3> QED BY <2>1, <2>3, <3>1, CurveGain
  <2> QED BY <2>4 DEF ramp
<1> QED BY <1>1, Typing, PTL

\* The assist of an active GPU wakes at its threshold with minFan, climbs with
\* the card's own fan and ends at maxFan (control.go ActiveGPUAssist).
THEOREM AssistSpansAll == Spec => []AssistSpansTheRange
<1>1. Types => AssistSpansTheRange
  <2> SUFFICES ASSUME Types PROVE AssistSpansTheRange
    OBVIOUS
  <2>1. ASSUME NEW own \in 0 .. 110
        PROVE  /\ ActiveGPUAssist(own, threshold, minFan, maxFan)
                    <= ActiveGPUAssist(own + 1, threshold, minFan, maxFan)
               /\ own >= 100 => ActiveGPUAssist(own, threshold, minFan, maxFan) = maxFan
               /\ threshold < 100 =>
                    ActiveGPUAssist(threshold, threshold, minFan, maxFan) = minFan
    <3>1. own \in Int /\ threshold \in Int /\ threshold <= 100
          /\ minFan \in Nat /\ maxFan \in Nat /\ minFan <= maxFan
      BY Inputs
    <3> QED BY <3>1, AssistSpans
  <2>2. threshold \in 0 .. 110
    BY Inputs
  <2> DEFINE assist == [own \in 0 .. 110 |-> ActiveGPUAssist(own, threshold, minFan, maxFan)]
  <2>3. \A own \in 0 .. 109 : assist[own] <= assist[own + 1]
    BY <2>1
  <2>4. \A own \in 100 .. 110 : assist[own] = maxFan
    BY <2>1
  <2>5. threshold < 100 => assist[threshold] = minFan
    BY <2>1, <2>2
  <2> QED BY <2>3, <2>4, <2>5 DEF AssistSpansTheRange
<1> QED BY <1>1, Typing, PTL

-----------------------------------------------------------------------------
(* The scan's fit. *)

\* The library's fold over three elements is their sum.
LEMMA SumOfThree ==
  ASSUME NEW f, DOMAIN f = 1 .. 3, f[1] \in Int, f[2] \in Int, f[3] \in Int
  PROVE  SumFunction(f) = f[1] + f[2] + f[3]
<1> DEFINE S == DOMAIN f
           At(s, i) == IF i \in s THEN f[i] ELSE 0
           Pick(s) == CHOOSE x \in s : TRUE
           G(s, g) == IF s = {} THEN 0 ELSE f[Pick(s)] + g[s \ {Pick(s)}]
           Sum == [s \in SUBSET S |-> At(s, 1) + At(s, 2) + At(s, 3)]
           iter == CHOOSE g : g = [s \in SUBSET S |-> G(s, g)]
<1>1. SumFunction(f) = iter[S]
  BY DEF SumFunction, SumFunctionOnSet, FoldFunctionOnSet, MapThenFoldSet
<1>2. ASSUME NEW s \in SUBSET S
      PROVE  Sum[s] = G(s, Sum)
  <2>1. CASE s = {}
    BY <2>1
  <2>2. CASE s # {}
    <3>1. Pick(s) \in s
      BY <2>2
    <3> DEFINE p == Pick(s)
    <3>2. p \in s /\ s \ {p} \in SUBSET S
      BY <3>1
    <3> HIDE DEF p
    <3>3. p = 1 \/ p = 2 \/ p = 3
      BY <3>2
    <3>4. At(s, 1) + At(s, 2) + At(s, 3) = f[p] + (At(s \ {p}, 1) + At(s \ {p}, 2) + At(s \ {p}, 3))
      BY <3>2, <3>3
    <3>5. Sum[s] = f[p] + Sum[s \ {p}]
      BY <3>2, <3>4
    <3> QED BY <2>2, <3>5 DEF p
  <2> QED BY <2>1, <2>2
<1>3. Sum = [s \in SUBSET S |-> G(s, Sum)]
  BY <1>2
<1>4. iter = [s \in SUBSET S |-> G(s, iter)]
  BY <1>3
<1> HIDE DEF iter, Sum
<1>5. ASSUME NEW s \in SUBSET S
      PROVE  iter[s] = G(s, iter)
  BY <1>4
<1>6. iter[{}] = 0
  BY <1>5
<1>7. ASSUME NEW s \in SUBSET S, s # {}
      PROVE  \E p \in s : iter[s] = f[p] + iter[s \ {p}]
  BY <1>5, <1>7
<1> HIDE DEF Pick, G
<1>8. ASSUME NEW i \in S
      PROVE  iter[{i}] = f[i]
  <2>1. PICK p \in {i} : iter[{i}] = f[p] + iter[{i} \ {p}]
    BY <1>7
  <2>2. p = i /\ {i} \ {p} = {}
    BY <2>1
  <2>3. f[i] \in Int
    OBVIOUS
  <2> QED BY <1>6, <2>1, <2>2, <2>3
<1>9. ASSUME NEW i \in S, NEW j \in S, i # j
      PROVE  iter[{i, j}] = f[i] + f[j]
  <2>1. PICK p \in {i, j} : iter[{i, j}] = f[p] + iter[{i, j} \ {p}]
    BY <1>7
  <2>2. f[i] \in Int /\ f[j] \in Int
    OBVIOUS
  <2>3. CASE p = i
    <3>1. {i, j} \ {p} = {j}
      BY <1>9, <2>3
    <3>2. iter[{i, j} \ {p}] = f[j]
      BY <1>8, <3>1
    <3> QED BY <2>1, <2>3, <3>2
  <2>4. CASE p = j
    <3>1. {i, j} \ {p} = {i}
      BY <1>9, <2>4
    <3>2. iter[{i, j} \ {p}] = f[i]
      BY <1>8, <3>1
    <3> QED BY <2>1, <2>2, <2>4, <3>2
  <2> QED BY <2>1, <2>3, <2>4
<1>10. PICK p \in S : iter[S] = f[p] + iter[S \ {p}]
  BY <1>7
<1>11. ASSUME NEW q \in S, NEW i \in S, NEW j \in S, i # j, q # i, q # j, p = q
       PROVE  iter[S] = f[q] + (f[i] + f[j])
  <2>1. S \ {p} = {i, j}
    BY <1>11
  <2>2. iter[S \ {p}] = f[i] + f[j]
    BY <1>9, <1>11, <2>1
  <2> QED BY <1>10, <1>11, <2>2
<1>12. 1 \in S /\ 2 \in S /\ 3 \in S /\ (p = 1 \/ p = 2 \/ p = 3)
  OBVIOUS
<1>13. iter[S] = f[1] + (f[2] + f[3]) \/ iter[S] = f[2] + (f[1] + f[3])
       \/ iter[S] = f[3] + (f[1] + f[2])
  BY <1>11, <1>12
<1> QED BY <1>1, <1>13

\* The curve on whole degrees, cut at the top.
LEMMA WholeDegrees ==
  ASSUME NEW temp \in Nat \ {0}, NEW c \in Int, NEW e \in Int, c < e,
         NEW lo \in Nat, NEW hi \in Nat, lo <= hi
  PROVE  LET q == RoundedRatio((temp - c) * (hi - lo), e - c)
             f == CurveF(Res * temp, c, e, lo, hi)
         IN  IF temp <= c THEN f = lo ELSE q \in Nat /\ f = Smaller(hi, lo + q)
<1> DEFINE q == RoundedRatio((temp - c) * (hi - lo), e - c)
<1>1. CurveF(Res * temp, c, e, lo, hi) = ProximityFloor(temp, e, e - c, lo, hi)
  BY CurveStretchesFloor
<1>2. CASE temp <= c
  BY <1>1, <1>2 DEF ProximityFloor
<1>3. CASE temp > c
  <2>1. ProximityFloor(temp, e, e - c, lo, hi) = Clamp(lo + q, lo, hi)
    <3>1. temp - (e - (e - c)) = temp - c
      OBVIOUS
    <3> QED BY <1>3, <3>1 DEF ProximityFloor
  <2>2. q \in Nat
    <3>1. (temp - c) * (hi - lo) \in Nat /\ e - c \in Nat \ {0}
      BY <1>3, ProductNat
    <3> QED BY <3>1, RoundedRatioNat
  <2>3. Clamp(lo + q, lo, hi) = Smaller(hi, lo + q)
    <3> HIDE DEF q
    <3> QED BY <2>2 DEF Clamp, Smaller
  <2> QED BY <1>1, <1>3, <2>1, <2>2, <2>3
<1> QED BY <1>2, <1>3

\* A common factor does not change the order, either way.
LEMMA RatioOrder ==
  ASSUME NEW a \in Int, NEW b \in Int, NEW w \in Nat \ {0}, w * a < w * b
  PROVE  a < b
<1>1. SUFFICES ASSUME b <= a PROVE FALSE
  OBVIOUS
<1>2. w * b <= w * a
  BY <1>1, TimesMonotone
<1>3. w * a \in Int /\ w * b \in Int
  OBVIOUS
<1> QED BY <1>2, <1>3

LEMMA TimesStrict ==
  ASSUME NEW a \in Int, NEW b \in Int, NEW k \in Nat \ {0}, a < b
  PROVE  k * a < k * b
<1>1. k * (a + 1) <= k * b
  BY TimesMonotone
<1>2. k * (a + 1) = k * a + k /\ k * a \in Int /\ k * b \in Int
  OBVIOUS
<1> QED BY <1>1, <1>2

\* A ramp begun where, or below where, the share of the fan range needed at the
\* target is reached asks there for at least that share.
LEMMA RampAbove ==
  ASSUME NEW num \in Int, NEW den \in Nat \ {0}, NEW lo \in Nat, NEW hi \in Nat, lo <= hi,
         NEW target \in Nat \ {0}, NEW e \in Int, target < e,
         NEW share \in Nat, num - lo * den <= share,
         NEW c \in Int, c < e, c <= target,
         share * (e - c) <= ((hi - lo) * den) * (target - c)
  PROVE  LET f == CurveF(Res * target, c, e, lo, hi)
         IN  f = hi \/ (2 * f + 1) * den >= 2 * num
<1> DEFINE w == e - c
           x == target - c
           range == hi - lo
           q == RoundedRatio(x * range, w)
           f == CurveF(Res * target, c, e, lo, hi)
<1>1. w \in Nat \ {0} /\ x \in Nat /\ range \in Nat
  OBVIOUS
<1>2. share * w <= (range * den) * x
  OBVIOUS
<1>3. CASE x = 0
  <2>1. f = lo
    BY <1>3, WholeDegrees
  <2>2. share * w <= 0
    <3> HIDE DEF w, range
    <3> QED BY <1>1, <1>2, <1>3
  <2>3. share <= 0
    <3>1. w * share < w * 0 + w
      <4> HIDE DEF w
      <4> QED BY <1>1, <2>2
    <3> HIDE DEF w
    <3> QED BY <1>1, <3>1, TimesCancels
  <2>4. (2 * lo + 1) * den = 2 * (lo * den) + den /\ lo * den \in Int
    OBVIOUS
  <2>5. (2 * lo + 1) * den >= 2 * num
    BY <2>3, <2>4
  <2> QED BY <2>1, <2>5
<1>4. CASE x > 0
  <2>1. q \in Nat /\ f = Smaller(hi, lo + q)
    BY <1>4, WholeDegrees
  <2>2. f = hi \/ f = lo + q
    <3> HIDE DEF q, f
    <3> QED BY <2>1 DEF Smaller
  <2>3. 2 * (x * range) + w < 2 * (w * q) + 2 * w
    <3>1. x * range \in Int
      <4> HIDE DEF x, range
      <4> QED BY <1>1
    <3> HIDE DEF x, range, w
    <3> QED BY <1>1, <3>1, RoundedRatioBounds
  <2> HIDE DEF q, w, x, range, f
  <2>4. 2 * (x * range) < w * (2 * q + 1)
    <3>1. w * (2 * q + 1) = 2 * (w * q) + w /\ w * q \in Int /\ x * range \in Int
      BY <1>1, <2>1
    <3> QED BY <1>1, <2>3, <3>1
  <2>5. den * (2 * (x * range)) < den * (w * (2 * q + 1))
    <3>1. 2 * (x * range) \in Int /\ w * (2 * q + 1) \in Int
      BY <1>1, <2>1
    <3> QED BY <2>4, <3>1, TimesStrict
  <2>6. w * (2 * share) < w * ((2 * q + 1) * den)
    <3>1. /\ w * (2 * share) = 2 * (share * w)
          /\ den * (2 * (x * range)) = 2 * ((range * den) * x)
          /\ w * ((2 * q + 1) * den) = den * (w * (2 * q + 1))
      BY <1>1, <2>1
    <3>2. share * w \in Int /\ (range * den) * x \in Int
      BY <1>1
    <3>3. 2 * (share * w) <= 2 * ((range * den) * x)
      BY <1>2, <3>2
    <3>4. w * (2 * share) \in Int /\ w * ((2 * q + 1) * den) \in Int
      BY <1>1, <2>1
    <3> QED BY <2>5, <3>1, <3>2, <3>3, <3>4
  <2>7. 2 * share < (2 * q + 1) * den
    <3>1. 2 * share \in Int /\ (2 * q + 1) * den \in Int
      BY <2>1
    <3> QED BY <1>1, <2>6, <3>1, RatioOrder
  <2>8. (2 * (lo + q) + 1) * den = 2 * (lo * den) + (2 * q + 1) * den
        /\ lo * den \in Int /\ (2 * q + 1) * den \in Int
    BY <2>1
  <2>9. (2 * (lo + q) + 1) * den >= 2 * num
    BY <2>7, <2>8
  <2> QED BY <2>2, <2>9 DEF f
<1> QED BY <1>1, <1>3, <1>4

\* A ramp begun above where the share is reached asks at the target for no more
\* than that share.
LEMMA RampBelow ==
  ASSUME NEW num \in Int, NEW den \in Nat \ {0}, NEW lo \in Nat, NEW hi \in Nat, lo <= hi,
         NEW target \in Nat \ {0}, NEW e \in Int, target < e,
         NEW share \in Nat, share > 0 => share <= num - lo * den,
         NEW c \in Int, c < e,
         ((hi - lo) * den) * (target - c) < share * (e - c)
  PROVE  LET f == CurveF(Res * target, c, e, lo, hi)
         IN  f = lo \/ (2 * f - 1) * den <= 2 * num
<1> DEFINE w == e - c
           x == target - c
           range == hi - lo
           q == RoundedRatio(x * range, w)
           f == CurveF(Res * target, c, e, lo, hi)
<1>1. w \in Nat \ {0} /\ x \in Int /\ range \in Nat
  OBVIOUS
<1>2. (range * den) * x < share * w
  OBVIOUS
<1>3. CASE x <= 0
  BY <1>3, WholeDegrees
<1>4. CASE x > 0
  <2>1. q \in Nat /\ f = Smaller(hi, lo + q)
    BY <1>4, WholeDegrees
  <2>2. f \in Int /\ f <= lo + q
    <3> HIDE DEF q, f
    <3> QED BY <2>1 DEF Smaller
  <2>3. 2 * (w * q) <= 2 * (x * range) + w
    <3>1. x * range \in Int
      <4> HIDE DEF x, range
      <4> QED BY <1>1
    <3> HIDE DEF x, range, w
    <3> QED BY <1>1, <3>1, RoundedRatioBounds
  <2> HIDE DEF q, w, x, range, f
  <2>4. w * (2 * q - 1) <= 2 * (x * range)
    <3>1. w * (2 * q - 1) = 2 * (w * q) - w /\ w * q \in Int /\ x * range \in Int
      BY <1>1, <2>1
    <3> QED BY <1>1, <2>3, <3>1
  <2>5. den * (w * (2 * q - 1)) <= den * (2 * (x * range))
    <3>1. 2 * (x * range) \in Int /\ w * (2 * q - 1) \in Int
      BY <1>1, <2>1
    <3> QED BY <2>4, <3>1, TimesMonotone
  <2>6. w * ((2 * q - 1) * den) < w * (2 * share)
    <3>1. /\ w * (2 * share) = 2 * (share * w)
          /\ den * (2 * (x * range)) = 2 * ((range * den) * x)
          /\ w * ((2 * q - 1) * den) = den * (w * (2 * q - 1))
      BY <1>1, <2>1
    <3>2. share * w \in Int /\ (range * den) * x \in Int
      BY <1>1
    <3>3. 2 * ((range * den) * x) < 2 * (share * w)
      BY <1>2, <3>2
    <3>4. w * (2 * share) \in Int /\ w * ((2 * q - 1) * den) \in Int
      BY <1>1, <2>1
    <3> QED BY <2>5, <3>1, <3>2, <3>3, <3>4
  <2>7. (2 * q - 1) * den < 2 * share
    <3>1. 2 * share \in Int /\ (2 * q - 1) * den \in Int
      BY <2>1
    <3> QED BY <1>1, <2>6, <3>1, RatioOrder
  <2>8. share > 0
    <3>1. (range * den) * x \in Nat
      BY <1>1, <1>4, ProductNat
    <3>2. w * 0 < w * share
      BY <1>1, <1>2, <3>1
    <3> QED BY <1>1, <3>2, RatioOrder
  <2>9. (2 * f - 1) * den <= (2 * (lo + q) - 1) * den
    <3>1. den * (2 * f - 1) <= den * (2 * (lo + q) - 1)
      BY <2>1, <2>2, TimesMonotone
    <3> QED BY <2>1, <2>2, <3>1
  <2>10. (2 * (lo + q) - 1) * den = 2 * (lo * den) + (2 * q - 1) * den
         /\ lo * den \in Int /\ (2 * q - 1) * den \in Int
    BY <2>1
  <2>11. (2 * f - 1) * den \in Int
    BY <2>2
  <2>12. (2 * f - 1) * den <= 2 * num
    BY <2>7, <2>8, <2>9, <2>10, <2>11
  <2> QED BY <2>12 DEF f
<1> QED BY <1>1, <1>3, <1>4

\* The share of the fan range the line asks for at the target, cut to the range.
LEMMA ShareIs ==
  ASSUME NEW pts, NEW target \in Int, NEW lo \in Nat, NEW hi \in Nat, lo <= hi,
         HoldNum(pts, target) \in Int, HoldDen(pts) \in Nat \ {0}
  PROVE  LET share == ShareNum(pts, target, lo, hi)
             of    == ShareDen(pts, lo, hi)
             above == HoldNum(pts, target) - lo * HoldDen(pts)
         IN  /\ of = (hi - lo) * HoldDen(pts) /\ of \in Nat /\ (lo < hi => of > 0)
             /\ share \in 0 .. of
             /\ share > 0 => share <= above
             /\ share < of => above <= share
<1> DEFINE num == HoldNum(pts, target)
           den == HoldDen(pts)
           of == (hi - lo) * den
           above == num - lo * den
<1>1. num \in Int /\ den \in Nat \ {0}
  OBVIOUS
<1> HIDE DEF num, den
<1>2. lo * den \in Int /\ of \in Nat
  BY <1>1, ProductNat
<1>3. lo < hi => of > 0
  <2> SUFFICES ASSUME lo < hi PROVE of > 0
    OBVIOUS
  <2>1. den * 1 <= den * (hi - lo)
    BY <1>1, TimesMonotone
  <2>2. den * 1 = den /\ den * (hi - lo) = of
    BY <1>1
  <2> QED BY <1>1, <2>1, <2>2
<1>4. ShareNum(pts, target, lo, hi) = Clamp(above, 0, of) /\ ShareDen(pts, lo, hi) = of
  BY DEF ShareNum, ShareDen, num, den
<1>5. above \in Int
  BY <1>1, <1>2
<1> HIDE DEF above, of
<1>6. /\ Clamp(above, 0, of) \in 0 .. of
      /\ Clamp(above, 0, of) > 0 => Clamp(above, 0, of) <= above
      /\ Clamp(above, 0, of) < of => above <= Clamp(above, 0, of)
  BY <1>2, <1>5 DEF Clamp
<1> QED BY <1>2, <1>3, <1>4, <1>6 DEF num, den, above, of

\* A ramp placed by the scan's fit (scan.go FitComfort) holds the target on the
\* fitted line, whatever the line and the number of points it was fitted
\* through: begun one degree earlier its curve asks at the target for at least
\* the fitted fan, begun one degree later for no more, up to the percent's
\* rounding, unless the ramp or the fan is at a limit.
THEOREM FitHolds ==
  ASSUME NEW pts, Informative(pts), NEW target \in Nat \ {0}, NEW e \in Nat, target < e,
         NEW lo \in Nat, NEW hi \in Nat, lo <= hi, hi <= 100,
         NEW margin \in Int, NEW span \in Nat \ {0},
         HoldNum(pts, target) \in Int, HoldDen(pts) \in Nat \ {0}
  PROVE  LET ramp    == FitComfort(pts, target, e, lo, hi, margin, span)
             earlier == CurveF(Res * target, ramp - 1, e, lo, hi)
             later   == CurveF(Res * target, ramp + 1, e, lo, hi)
         IN  /\ \/ ramp = Floor \/ earlier = hi
                \/ (2 * earlier + 1) * HoldDen(pts) >= 2 * HoldNum(pts, target)
             /\ \/ ramp >= e - span \/ later = lo
                \/ (2 * later - 1) * HoldDen(pts) <= 2 * HoldNum(pts, target)
<1> DEFINE num == HoldNum(pts, target)
           den == HoldDen(pts)
           share == ShareNum(pts, target, lo, hi)
           of == ShareDen(pts, lo, hi)
           top == e - span
           n == target * of - share * e
           d == of - share
           v == RoundedRatio(n, d)
           ramp == FitComfort(pts, target, e, lo, hi, margin, span)
           Curve(c) == CurveF(Res * target, c, e, lo, hi)
<1>0. /\ num \in Int /\ den \in Nat \ {0}
      /\ of = (hi - lo) * den /\ of \in Nat /\ (lo < hi => of > 0)
      /\ share \in 0 .. of
      /\ share > 0 => share <= num - lo * den
      /\ share < of => num - lo * den <= share
  <2>1. target \in Int
    OBVIOUS
  <2> QED BY <2>1, ShareIs
<1>1. top \in Int /\ top < e /\ e - Larger(span, 1) = top
  BY DEF Larger
<1>2. Floor \in Nat \ {0} /\ Res \in Nat \ {0} /\ Res * target \in Nat \ {0}
  BY FloorAssumption, ResAssumption
<1>3. \A c \in Int : Curve(c) \in lo .. hi
  <2> DEFINE t == Res * target
  <2>1. t \in Int /\ t > 0 /\ e \in Int
    BY <1>2
  <2> HIDE DEF t
  <2>2. \A c \in Int : CurveF(t, c, e, lo, hi) \in lo .. hi
    BY <2>1, CurveFRange
  <2> QED BY <2>2 DEF t
<1>4. CASE hi = lo
  <2>1. ramp = Clamp(target - margin, Floor, top)
    BY <1>1, <1>4 DEF FitComfort
  <2>2. ramp \in Int
    BY <1>1, <1>2, <2>1 DEF Clamp
  <2> HIDE DEF ramp
  <2>3. Curve(ramp - 1) = hi /\ Curve(ramp + 1) = lo
    BY <1>3, <1>4, <2>2
  <2> QED BY <2>3 DEF ramp
<1>5. CASE lo < hi /\ 1000 * share >= 999 * of
  <2>1. ramp = Floor
    BY <1>5 DEF FitComfort
  <2>2. share > 0 /\ share <= num - lo * den
    <3> HIDE DEF num, den, share, of
    <3> QED BY <1>0, <1>5
  <2> DEFINE f == Curve(ramp + 1)
  <2>3. f \in lo .. hi
    <3>1. ramp + 1 \in Int
      BY <1>2, <2>1
    <3> HIDE DEF ramp
    <3> QED BY <1>3, <3>1
  <2>4. (2 * f - 1) * den <= (2 * hi - 1) * den
    <3> HIDE DEF f, num, den, share, of
    <3>1. 2 * f - 1 \in Int /\ 2 * f - 1 <= 2 * hi - 1 /\ den \in Nat
      BY <1>0, <2>3
    <3>2. den * (2 * f - 1) <= den * (2 * hi - 1)
      BY <3>1, TimesMonotone
    <3> QED BY <1>0, <2>3, <3>2
  <2>5. (2 * hi - 1) * den <= 2 * num
    <3> HIDE DEF num, den, share, of
    <3> DEFINE p == lo * den
    <3>1. (2 * hi - 1) * den = 2 * p + 2 * of - den
      BY <1>0
    <3>2. of <= 100 * den
      <4>1. den * (hi - lo) <= den * 100
        BY <1>0, TimesMonotone
      <4> QED BY <1>0, <4>1
    <3>3. p \in Int
      BY <1>0
    <3> HIDE DEF p
    <3>4. share <= num - p
      BY <2>2 DEF p
    <3> QED BY <1>0, <1>5, <3>1, <3>2, <3>3, <3>4
  <2>6. (2 * f - 1) * den <= 2 * num
    <3> HIDE DEF f, num, den
    <3>1. (2 * f - 1) * den \in Int /\ (2 * hi - 1) * den \in Int
      BY <1>0, <2>3
    <3> QED BY <1>0, <2>4, <2>5, <3>1
  <2> QED BY <2>1, <2>6
<1>6. CASE lo < hi /\ 1000 * share < 999 * of
  <2>1. ramp = Clamp(v, Floor, top)
    <3>1. ~(1000 * share >= 999 * of) /\ hi # lo
      <4> HIDE DEF share, of
      <4> QED BY <1>0, <1>6
    <3>2. ramp = Clamp(v, Floor, e - Larger(span, 1))
      BY <3>1, ZenonT(40) DEF FitComfort
    <3> QED BY <1>1, <3>2
  <2>2. d \in Nat \ {0} /\ share < of
    <3> HIDE DEF share, of
    <3> QED BY <1>0, <1>6
  <2>3. n \in Int
    <3> HIDE DEF share, of
    <3> QED BY <1>0
  <2>4. v \in Int /\ 2 * (d * v) <= 2 * n + d /\ 2 * n + d < 2 * (d * v) + 2 * d
    <3> HIDE DEF n, d
    <3> QED BY <2>2, <2>3, RoundedRatioBounds
  <2>5. /\ ramp = Floor \/ (ramp <= v /\ ramp <= top)
        /\ ramp >= top \/ v <= ramp
        /\ ramp \in Int
    <3> HIDE DEF v, top, ramp
    <3> QED BY <1>1, <1>2, <2>1, <2>4 DEF Clamp
  <2>6. ASSUME NEW c \in Int
        PROVE  /\ d * c <= n => share * (e - c) <= of * (target - c)
               /\ n < d * c => of * (target - c) < share * (e - c)
    <3> HIDE DEF share, of
    <3>1. d * c = of * c - share * c /\ n = of * target - share * e
      BY <1>0
    <3>2. share * (e - c) = share * e - share * c /\ of * (target - c) = of * target - of * c
      BY <1>0
    <3>3. share * e \in Int /\ share * c \in Int /\ of * target \in Int /\ of * c \in Int
      BY <1>0
    <3> HIDE DEF n, d
    <3> QED BY <3>1, <3>2, <3>3
  <2> DEFINE Above(f) == f = hi \/ (2 * f + 1) * den >= 2 * num
             Below(f) == f = lo \/ (2 * f - 1) * den <= 2 * num
  <2>7. ASSUME ramp # Floor PROVE Above(Curve(ramp - 1))
    <3> DEFINE c == ramp - 1
    <3>1. c \in Int /\ c <= v - 1 /\ c < e
      <4> HIDE DEF ramp, v, top
      <4> QED BY <1>1, <2>4, <2>5, <2>7
    <3> HIDE DEF c
    <3>2. d * c <= n
      <4> HIDE DEF n, d, v
      <4>1. d * c <= d * (v - 1)
        BY <2>2, <2>4, <3>1, TimesMonotone
      <4>2. d * (v - 1) = d * v - d /\ d * v \in Int /\ d * c \in Int
        BY <2>2, <2>4, <3>1
      <4> QED BY <2>2, <2>3, <2>4, <4>1, <4>2
    <3>3. share * (e - c) <= of * (target - c)
      BY <2>6, <3>1, <3>2
    <3> HIDE DEF num, den, share, of, n, d, v, ramp
    <3>4. c <= target
      <4>1. share * (e - c) \in Nat
        BY <1>0, <3>1, ProductNat
      <4>2. of * c < of * target + of
        <5>1. of * (target - c) = of * target - of * c /\ of * target \in Int /\ of * c \in Int
          BY <1>0, <3>1
        <5> QED BY <1>0, <1>6, <3>3, <4>1, <5>1
      <4> QED BY <1>0, <1>6, <3>1, <4>2, TimesCancels
    <3>5. /\ share \in Nat /\ num - lo * den <= share
          /\ share * (e - c) <= ((hi - lo) * den) * (target - c)
      BY <1>0, <2>2, <3>3
    <3>6. Above(Curve(c))
      <4>1. /\ num \in Int /\ den \in Nat \ {0} /\ e \in Int /\ share \in Nat
            /\ c \in Int /\ c < e
        BY <1>0, <3>1
      <4> QED BY <4>1, <3>4, <3>5, RampAbove
    <3> QED BY <3>6 DEF c
  <2>8. ASSUME ~(ramp >= top) PROVE Below(Curve(ramp + 1))
    <3> DEFINE c == ramp + 1
    <3>1. c \in Int /\ v + 1 <= c /\ c < e
      <4> HIDE DEF ramp, v, top
      <4> QED BY <1>1, <2>4, <2>5, <2>8
    <3> HIDE DEF c
    <3>2. n < d * c
      <4> HIDE DEF n, d, v
      <4>1. d * (v + 1) <= d * c
        BY <2>2, <2>4, <3>1, TimesMonotone
      <4>2. d * (v + 1) = d * v + d /\ d * v \in Int /\ d * c \in Int
        BY <2>2, <2>4, <3>1
      <4> QED BY <2>2, <2>3, <2>4, <4>1, <4>2
    <3>3. of * (target - c) < share * (e - c)
      BY <2>6, <3>1, <3>2
    <3> HIDE DEF num, den, share, of, n, d, v, ramp
    <3>4. /\ share \in Nat /\ (share > 0 => share <= num - lo * den)
          /\ ((hi - lo) * den) * (target - c) < share * (e - c)
      BY <1>0, <3>3
    <3>5. Below(Curve(c))
      <4>1. /\ num \in Int /\ den \in Nat \ {0} /\ e \in Int /\ share \in Nat
            /\ c \in Int /\ c < e
        BY <1>0, <3>1
      <4> QED BY <4>1, <3>4, RampBelow
    <3> QED BY <3>5 DEF c
  <2> QED BY <2>7, <2>8
<1> QED BY <1>0, <1>4, <1>5, <1>6

\* Any three points have a line in whole numbers.
LEMMA ThreePoints ==
  ASSUME NEW pts \in [1 .. 3 -> [fan : Int, temp : Int]], Len(pts) = 3, NEW target \in Int,
         Informative(pts)
  PROVE  HoldNum(pts, target) \in Int /\ HoldDen(pts) \in Nat \ {0}
<1>1. \A i \in 1 .. 3 : pts[i].fan \in Int /\ pts[i].temp \in Int
  OBVIOUS
<1>2. /\ DOMAIN FanOf(pts) = 1 .. 3 /\ DOMAIN TempOf(pts) = 1 .. 3
      /\ \A i \in 1 .. 3 : FanOf(pts)[i] \in Int /\ TempOf(pts)[i] \in Int
  BY <1>1 DEF FanOf, TempOf
<1>3. SumFunction(FanOf(pts)) \in Int /\ SumFunction(TempOf(pts)) \in Int
  BY <1>2, SumOfThree
<1>4. ASSUME NEW f, NEW g, DOMAIN f = 1 .. 3, \A i \in 1 .. 3 : f[i] \in Int /\ g[i] \in Int
      PROVE  SumProducts(f, g) \in Int
  <2> DEFINE h == [i \in DOMAIN f |-> f[i] * g[i]]
  <2>1. DOMAIN h = 1 .. 3 /\ h[1] \in Int /\ h[2] \in Int /\ h[3] \in Int
    BY <1>4
  <2> HIDE DEF h
  <2>2. SumFunction(h) \in Int
    BY <2>1, SumOfThree
  <2> QED BY <2>2 DEF SumProducts, h
<1>5. SumProducts(FanOf(pts), FanOf(pts)) \in Int /\ SumProducts(FanOf(pts), TempOf(pts)) \in Int
  BY <1>2, <1>4
<1>6. Spread(pts) \in Int /\ Slope(pts) \in Int
  BY <1>3, <1>5 DEF Spread, Slope
<1>7. HoldNum(pts, target) \in Int
  BY <1>3, <1>6 DEF HoldNum
<1>8. HoldDen(pts) \in Nat \ {0}
  BY <1>6 DEF HoldDen, Informative
<1> QED BY <1>7, <1>8

\* The fit of a scan of three levels (scan.go FitComfort) holds the target,
\* whatever the fan speeds of the levels and the temperatures settled at them,
\* the margin of the fallback, the fan limits, the emergency and the span.
THEOREM FitHoldsAll == Spec => []FitHoldsTarget
<1>1. Types => FitHoldsTarget
  <2> SUFFICES ASSUME Types, NEW cold \in 1 .. MaxTemp, NEW rise1 \in Rises,
                      NEW rise2 \in Rises, NEW target \in 2 .. emergency - 1
               PROVE  LET pts == << [fan |-> ScanFans[1], temp |-> cold],
                                    [fan |-> ScanFans[2], temp |-> cold + rise1],
                                    [fan |-> ScanFans[3], temp |-> cold + rise1 + rise2] >>
                          ramp == FitComfort(pts, target, emergency, minFan, maxFan, ScanMargin, MinSpan)
                          earlier == CurveF(Res * target, ramp - 1, emergency, minFan, maxFan)
                          later   == CurveF(Res * target, ramp + 1, emergency, minFan, maxFan)
                      IN  Informative(pts) =>
                            /\ \/ ramp = Floor \/ earlier = maxFan
                               \/ (2 * earlier + 1) * HoldDen(pts) >= 2 * HoldNum(pts, target)
                            /\ \/ ramp >= emergency - MinSpan \/ later = minFan
                               \/ (2 * later - 1) * HoldDen(pts) <= 2 * HoldNum(pts, target)
    BY DEF FitHoldsTarget
  <2> DEFINE pts == << [fan |-> ScanFans[1], temp |-> cold],
                       [fan |-> ScanFans[2], temp |-> cold + rise1],
                       [fan |-> ScanFans[3], temp |-> cold + rise1 + rise2] >>
  <2>0. /\ ScanFans[1] \in Int /\ ScanFans[2] \in Int /\ ScanFans[3] \in Int
        /\ rise1 \in Int /\ rise2 \in Int /\ cold \in Int
    BY Inputs
  <2>1. pts \in [1 .. 3 -> [fan : Int, temp : Int]] /\ Len(pts) = 3
    BY <2>0
  <2>2. target \in Nat \ {0} /\ target < emergency /\ emergency \in Nat /\ ScanMargin \in Int
        /\ minFan \in Nat /\ maxFan \in Nat /\ minFan <= maxFan /\ maxFan <= 100
        /\ MinSpan \in Nat \ {0}
    BY Inputs
  <2> HIDE DEF pts
  <2>3. Informative(pts) => HoldNum(pts, target) \in Int /\ HoldDen(pts) \in Nat \ {0}
    BY <2>1, <2>2, ThreePoints
  <2>4. Informative(pts) =>
          LET ramp    == FitComfort(pts, target, emergency, minFan, maxFan, ScanMargin, MinSpan)
              earlier == CurveF(Res * target, ramp - 1, emergency, minFan, maxFan)
              later   == CurveF(Res * target, ramp + 1, emergency, minFan, maxFan)
          IN  /\ \/ ramp = Floor \/ earlier = maxFan
                 \/ (2 * earlier + 1) * HoldDen(pts) >= 2 * HoldNum(pts, target)
              /\ \/ ramp >= emergency - MinSpan \/ later = minFan
                 \/ (2 * later - 1) * HoldDen(pts) <= 2 * HoldNum(pts, target)
    BY <2>2, <2>3, FitHolds
  <2> QED BY <2>4 DEF pts
<1> QED BY <1>1, Typing, PTL

-----------------------------------------------------------------------------
(* The scores. *)

Envelope == [low : Int, mid : Int, high : Int, safe : Int]
Window   == [full : BOOLEAN, mean : Int, sd : Nat, changes : Nat, p90 : 0 .. 100]

\* A square does not shrink with its root.
LEMMA SquareMonotone ==
  ASSUME NEW a \in Nat, NEW b \in Nat, a <= b
  PROVE  a * a \in Nat /\ b * b \in Nat /\ a * a <= b * b
<1>1. a * a <= a * b /\ b * a <= b * b
  BY TimesMonotone
<1> QED BY <1>1

\* The drift's effect on a restless window (mode.go's variance terms).
LEMMA Relieved ==
  ASSUME NEW sd \in Nat
  PROVE  LET less == Larger(0, sd - VarianceRelief)
             more == sd + VarianceRelief
         IN  /\ sd * sd \in Nat /\ less * less \in Nat /\ more * more \in Nat
             /\ less * less <= sd * sd /\ sd * sd <= more * more
             /\ sd <= 48 => sd * sd - less * less <= 279
<1> DEFINE less == Larger(0, sd - VarianceRelief)
           more == sd + VarianceRelief
<1>1. less \in Nat /\ more \in Nat /\ less <= sd /\ sd <= more
  BY DEF Larger, VarianceRelief
<1>2. sd <= 48 => sd * sd - less * less <= 279
  <2>1. CASE sd < 3
    <3>1. less = 0 /\ (sd = 0 \/ sd = 1 \/ sd = 2)
      BY <2>1 DEF Larger, VarianceRelief
    <3> QED BY <3>1
  <2>2. CASE sd >= 3
    <3>1. less = sd - 3
      BY <2>2 DEF Larger, VarianceRelief
    <3>2. (sd - 3) * (sd - 3) = sd * sd - 6 * sd + 9
      OBVIOUS
    <3>3. sd * sd \in Int
      OBVIOUS
    <3> HIDE DEF less
    <3> QED BY <3>1, <3>2, <3>3
  <2> QED BY <2>1, <2>2
<1> HIDE DEF less, more
<1>3. less * less <= sd * sd /\ sd * sd <= more * more
      /\ sd * sd \in Nat /\ less * less \in Nat /\ more * more \in Nat
  BY <1>1, SquareMonotone
<1> QED BY <1>2, <1>3 DEF less, more

\* The drift's effect on a saturated fan: a fall of at least a point.
LEMMA SaturationFalls ==
  ASSUME NEW p \in 0 .. 100
  PROVE  LET less == Saturation(Larger(0, p - DemandRelief))
             more == Saturation(Smaller(100, p + DemandRelief))
         IN  /\ Saturation(p) \in Nat /\ less \in Nat /\ more \in Nat
             /\ less <= Saturation(p) /\ Saturation(p) <= more
             /\ p > 90 => Saturation(p) - less >= 1000
             /\ p <= 85 => Saturation(p) = 0 /\ less = 0
<1> DEFINE x == Larger(0, p - 90)
           y == Larger(0, Larger(0, p - DemandRelief) - 90)
           z == Larger(0, Smaller(100, p + DemandRelief) - 90)
<1>1. /\ x \in 0 .. 10 /\ y \in 0 .. 10 /\ z \in 0 .. 10 /\ y <= x /\ x <= z
      /\ p > 90 => y < x
      /\ p <= 85 => x = 0 /\ y = 0
  BY DEF Larger, Smaller, DemandRelief
<1>2. /\ Saturation(p) = 1000 * x * x
      /\ Saturation(Larger(0, p - DemandRelief)) = 1000 * y * y
      /\ Saturation(Smaller(100, p + DemandRelief)) = 1000 * z * z
  BY DEF Saturation
<1> HIDE DEF x, y, z
<1>3. 1000 * x * x = 1000 * (x * x) /\ 1000 * y * y = 1000 * (y * y) /\ 1000 * z * z = 1000 * (z * z)
  BY <1>1
<1>4. x * x \in Nat /\ y * y \in Nat /\ z * z \in Nat /\ y * y <= x * x /\ x * x <= z * z
  BY <1>1, SquareMonotone
<1>5. y < x => y * y + 1 <= x * x
  <2> SUFFICES ASSUME y < x PROVE y * y + 1 <= x * x
    OBVIOUS
  <2>1. (y + 1) * (y + 1) <= x * x
    BY <1>1, SquareMonotone
  <2>2. (y + 1) * (y + 1) = y * y + 2 * y + 1
    BY <1>1
  <2> QED BY <1>1, <1>4, <2>1, <2>2
<1>6. p <= 85 => x * x = 0 /\ y * y = 0
  BY <1>1
<1> QED BY <1>1, <1>2, <1>3, <1>4, <1>5, <1>6

\* The distance from the band moves by at most the degrees.
LEMMA MeanMoves ==
  ASSUME NEW mean \in Int, NEW bound \in Int
  PROVE  /\ Short(mean, bound) \in Nat /\ Excess(mean, bound) \in Nat
         /\ Short(mean + 10, bound) \in Nat /\ Excess(mean + 10, bound) \in Nat
         /\ Short(mean - 10, bound) \in Nat /\ Excess(mean - 10, bound) \in Nat
         /\ Short(mean + 10, bound) <= Short(mean, bound)
         /\ Short(mean, bound) <= Short(mean - 10, bound)
         /\ Excess(mean + 10, bound) <= Excess(mean, bound) + 10
         /\ Excess(mean, bound) <= Excess(mean - 10, bound) + 10
         /\ mean >= 10 * bound => Excess(mean + 10, bound) = Excess(mean, bound) + 10
                                  /\ Short(mean, bound) = 0
         /\ mean <= 10 * bound => Excess(mean, bound) = 0
         /\ mean < 10 * bound => Short(mean + 10, bound) < Short(mean, bound)
         /\ mean <= 10 * bound - 10 => Excess(mean + 10, bound) = 0
BY DEF Short, Excess, Larger

\* The scores of the balanced and the quiet modes, as sums of their terms.
BalancedSum(short, excess, sq, changes, sat) ==
  100 * (short + excess) + 3 * sq + 30 * changes + 5 * sat

QuietSum(short, excess, sq, changes, sat) ==
  100 * short + 500 * excess + 200 * changes + 5 * sq + 10 * sat

LEMMA Scores ==
  ASSUME NEW env \in Envelope, NEW s, s.sd \in Int
  PROVE  /\ Score("balanced", env, s)
              = BalancedSum(Short(s.mean, env.low), Excess(s.mean, env.high), s.sd * s.sd,
                            s.changes, Saturation(s.p90))
         /\ \A mode \in {"min-noise", "eco"} :
              Score(mode, env, s)
                = QuietSum(Short(s.mean, env.high), Excess(s.mean, env.high), s.sd * s.sd,
                           s.changes, Saturation(s.p90))
<1>1. 3 * s.sd * s.sd = 3 * (s.sd * s.sd) /\ 5 * s.sd * s.sd = 5 * (s.sd * s.sd)
  OBVIOUS
<1>2. Score("balanced", env, s)
        = BalancedSum(Short(s.mean, env.low), Excess(s.mean, env.high), s.sd * s.sd,
                      s.changes, Saturation(s.p90))
  BY <1>1 DEF Score, BalancedSum
<1>3. ASSUME NEW mode \in {"min-noise", "eco"}
      PROVE  Score(mode, env, s)
               = QuietSum(Short(s.mean, env.high), Excess(s.mean, env.high), s.sd * s.sd,
                          s.changes, Saturation(s.p90))
  BY <1>1 DEF Score, QuietSum
<1> QED BY <1>2, <1>3

\* What a degree of drift makes of a window.
LEMMA Projections ==
  ASSUME NEW s \in Window
  PROVE  /\ Raised(s).mean = s.mean + 10
         /\ Raised(s).sd = Larger(0, s.sd - VarianceRelief) /\ Raised(s).sd \in Int
         /\ Raised(s).changes \in Nat /\ Raised(s).changes <= s.changes
         /\ s.changes <= Raised(s).changes + 5
         /\ Raised(s).p90 = Larger(0, s.p90 - DemandRelief)
         /\ Lowered(s).mean = s.mean - 10
         /\ Lowered(s).sd = s.sd + VarianceRelief /\ Lowered(s).sd \in Int
         /\ Lowered(s).changes \in Nat /\ s.changes <= Lowered(s).changes
         /\ Lowered(s).p90 = Smaller(100, s.p90 + DemandRelief)
BY DEF Window, Raised, Lowered, Larger, Smaller, VarianceRelief, FanRelief, DemandRelief

\* The terms of a window's score and of its two projections, in one place.
LEMMA Terms ==
  ASSUME NEW s \in Window, NEW bound \in Int
  PROVE  LET up == Raised(s)
             down == Lowered(s)
         IN  /\ s.sd * s.sd \in Nat /\ up.sd * up.sd \in Nat /\ down.sd * down.sd \in Nat
             /\ up.sd * up.sd <= s.sd * s.sd /\ s.sd * s.sd <= down.sd * down.sd
             /\ s.sd <= 48 => s.sd * s.sd - up.sd * up.sd <= 279
             /\ Saturation(s.p90) \in Nat /\ Saturation(up.p90) \in Nat
             /\ Saturation(down.p90) \in Nat
             /\ Saturation(up.p90) <= Saturation(s.p90)
             /\ Saturation(s.p90) <= Saturation(down.p90)
             /\ s.p90 > 90 => Saturation(s.p90) - Saturation(up.p90) >= 1000
             /\ s.p90 <= 85 => Saturation(s.p90) = 0 /\ Saturation(up.p90) = 0
             /\ s.changes \in Nat /\ up.changes \in Nat /\ down.changes \in Nat
             /\ up.changes <= s.changes /\ s.changes <= down.changes
             /\ s.changes <= up.changes + 5
<1>1. s.sd \in Nat /\ s.p90 \in 0 .. 100 /\ s.changes \in Nat
  BY DEF Window
<1>2. Raised(s).sd = Larger(0, s.sd - VarianceRelief) /\ Lowered(s).sd = s.sd + VarianceRelief
      /\ Raised(s).p90 = Larger(0, s.p90 - DemandRelief)
      /\ Lowered(s).p90 = Smaller(100, s.p90 + DemandRelief)
  BY Projections
<1>3. Raised(s).changes \in Nat /\ Lowered(s).changes \in Nat
      /\ Raised(s).changes <= s.changes /\ s.changes <= Lowered(s).changes
      /\ s.changes <= Raised(s).changes + 5
  BY Projections
<1>4. /\ s.sd * s.sd \in Nat /\ Raised(s).sd * Raised(s).sd \in Nat
      /\ Lowered(s).sd * Lowered(s).sd \in Nat
      /\ Raised(s).sd * Raised(s).sd <= s.sd * s.sd /\ s.sd * s.sd <= Lowered(s).sd * Lowered(s).sd
      /\ s.sd <= 48 => s.sd * s.sd - Raised(s).sd * Raised(s).sd <= 279
  BY <1>1, <1>2, Relieved
<1>5. /\ Saturation(s.p90) \in Nat /\ Saturation(Raised(s).p90) \in Nat
      /\ Saturation(Lowered(s).p90) \in Nat
      /\ Saturation(Raised(s).p90) <= Saturation(s.p90)
      /\ Saturation(s.p90) <= Saturation(Lowered(s).p90)
      /\ s.p90 > 90 => Saturation(s.p90) - Saturation(Raised(s).p90) >= 1000
      /\ s.p90 <= 85 => Saturation(s.p90) = 0 /\ Saturation(Raised(s).p90) = 0
  BY <1>1, <1>2, SaturationFalls
<1> QED BY <1>1, <1>3, <1>4, <1>5

\* The choice among the three scores.
LEMMA BestIs ==
  ASSUME NEW mode, NEW env, NEW s,
         Score(mode, env, s) \in Int, Score(mode, env, Raised(s)) \in Int,
         Score(mode, env, Lowered(s)) \in Int
  PROVE  /\ Score(mode, env, Raised(s)) < Score(mode, env, s)
              /\ Score(mode, env, Raised(s)) <= Score(mode, env, Lowered(s))
              => BestDelta(mode, env, s) = 1
         /\ Score(mode, env, s) <= Score(mode, env, Raised(s)) => BestDelta(mode, env, s) \in {-1, 0}
         /\ Score(mode, env, s) <= Score(mode, env, Lowered(s)) => BestDelta(mode, env, s) \in {0, 1}
BY DEF BestDelta, Smaller

\* "Any sustained fan saturation drives target up regardless of where mean sits
\* in the band" (mode.go scoreBalanced), for every envelope and every window a
\* fan near its limit can leave, and in every mode but max-cool.
THEOREM SaturationAlwaysRaises ==
  ASSUME NEW mode \in Mode \ {"max-cool"}, NEW env \in Envelope, NEW s \in Window, s.p90 > 90
  PROVE  BestDelta(mode, env, s) = 1
<1> DEFINE up == Raised(s)
           down == Lowered(s)
<1>1. /\ s.mean \in Int /\ s.sd \in Int /\ up.sd \in Int /\ down.sd \in Int
      /\ up.mean = s.mean + 10 /\ down.mean = s.mean - 10
      /\ env.low \in Int /\ env.high \in Int
  <2>1. s.mean \in Int /\ s.sd \in Int /\ env.low \in Int /\ env.high \in Int
    BY DEF Window, Envelope
  <2> QED BY <2>1, Projections
<1> DEFINE sq == s.sd * s.sd  upSq == up.sd * up.sd  downSq == down.sd * down.sd
           sat == Saturation(s.p90)  upSat == Saturation(up.p90)  downSat == Saturation(down.p90)
<1>2. /\ sq \in Nat /\ upSq \in Nat /\ downSq \in Nat /\ upSq <= sq /\ sq <= downSq
      /\ sat \in Nat /\ upSat \in Nat /\ downSat \in Nat /\ sat <= downSat /\ upSat + 1000 <= sat
      /\ s.changes \in Nat /\ up.changes \in Nat /\ down.changes \in Nat
      /\ up.changes <= s.changes /\ s.changes <= down.changes
  <2>1. 0 \in Int
    OBVIOUS
  <2>2. /\ sq \in Nat /\ upSq \in Nat /\ downSq \in Nat /\ upSq <= sq /\ sq <= downSq
        /\ sat \in Nat /\ upSat \in Nat /\ downSat \in Nat /\ sat <= downSat /\ sat - upSat >= 1000
        /\ s.changes \in Nat /\ up.changes \in Nat /\ down.changes \in Nat
        /\ up.changes <= s.changes /\ s.changes <= down.changes
    BY <2>1, Terms
  <2> HIDE DEF sq, upSq, downSq, sat, upSat, downSat
  <2> QED BY <2>2
<1> DEFINE S(m) == Short(m, env.low)
           E(m) == Excess(m, env.high)
           H(m) == Short(m, env.high)
<1>3. /\ S(s.mean) \in Nat /\ S(up.mean) \in Nat /\ S(down.mean) \in Nat
      /\ S(up.mean) <= S(s.mean) /\ S(s.mean) <= S(down.mean)
  BY <1>1, MeanMoves
<1>4. /\ H(s.mean) \in Nat /\ H(up.mean) \in Nat /\ H(down.mean) \in Nat
      /\ H(up.mean) <= H(s.mean) /\ H(s.mean) <= H(down.mean)
      /\ E(s.mean) \in Nat /\ E(up.mean) \in Nat /\ E(down.mean) \in Nat
      /\ E(up.mean) <= E(s.mean) + 10 /\ E(s.mean) <= E(down.mean) + 10
  BY <1>1, MeanMoves
<1>5. CASE mode = "balanced"
  <2>1. /\ Score(mode, env, s) = BalancedSum(S(s.mean), E(s.mean), sq, s.changes, sat)
        /\ Score(mode, env, up) = BalancedSum(S(up.mean), E(up.mean), upSq, up.changes, upSat)
        /\ Score(mode, env, down)
             = BalancedSum(S(down.mean), E(down.mean), downSq, down.changes, downSat)
    BY <1>1, <1>5, Scores
  <2> HIDE DEF sq, upSq, downSq, sat, upSat, downSat, S, E, H, up, down
  <2>2. /\ Score(mode, env, s) \in Int /\ Score(mode, env, up) \in Int
        /\ Score(mode, env, down) \in Int
        /\ Score(mode, env, up) < Score(mode, env, s)
        /\ Score(mode, env, up) <= Score(mode, env, down)
    BY <1>2, <1>3, <1>4, <2>1 DEF BalancedSum
  <2> QED BY <2>2, BestIs DEF up, down
<1>6. CASE mode \in {"min-noise", "eco"}
  <2>1. /\ Score(mode, env, s) = QuietSum(H(s.mean), E(s.mean), sq, s.changes, sat)
        /\ Score(mode, env, up) = QuietSum(H(up.mean), E(up.mean), upSq, up.changes, upSat)
        /\ Score(mode, env, down)
             = QuietSum(H(down.mean), E(down.mean), downSq, down.changes, downSat)
    BY <1>1, <1>6, Scores
  <2> HIDE DEF sq, upSq, downSq, sat, upSat, downSat, S, E, H, up, down
  <2>2. /\ Score(mode, env, s) \in Int /\ Score(mode, env, up) \in Int
        /\ Score(mode, env, down) \in Int
        /\ Score(mode, env, up) < Score(mode, env, s)
        /\ Score(mode, env, up) <= Score(mode, env, down)
    BY <1>2, <1>3, <1>4, <2>1 DEF QuietSum
  <2> QED BY <2>2, BestIs DEF up, down
<1> QED BY <1>5, <1>6 DEF Mode

\* With fan to spare and a window that is not restless, the balanced mode drives
\* no class away from its preferred band and returns one from below it (mode.go
\* scoreBalanced), wherever the envelope puts that band.
THEOREM BandAlwaysAttracts ==
  ASSUME NEW env \in Envelope, env.low < env.high,
         NEW s \in Window, s.p90 <= 85, s.sd <= 48
  PROVE  /\ s.mean >= 10 * env.high => BestDelta("balanced", env, s) \in {-1, 0}
         /\ s.mean <= 10 * env.high => BestDelta("balanced", env, s) \in {0, 1}
         /\ s.mean < 10 * env.low => BestDelta("balanced", env, s) = 1
<1> DEFINE up == Raised(s)
           down == Lowered(s)
<1>1. /\ s.mean \in Int /\ s.sd \in Int /\ up.sd \in Int /\ down.sd \in Int
      /\ up.mean = s.mean + 10 /\ down.mean = s.mean - 10
      /\ env.low \in Int /\ env.high \in Int
  <2>1. s.mean \in Int /\ s.sd \in Int /\ env.low \in Int /\ env.high \in Int
    BY DEF Window, Envelope
  <2> QED BY <2>1, Projections
<1> DEFINE sq == s.sd * s.sd  upSq == up.sd * up.sd  downSq == down.sd * down.sd
           sat == Saturation(s.p90)  upSat == Saturation(up.p90)  downSat == Saturation(down.p90)
<1>2. /\ sq \in Nat /\ upSq \in Nat /\ downSq \in Nat /\ upSq <= sq /\ sq <= downSq
      /\ sq <= upSq + 279
      /\ sat = 0 /\ upSat = 0 /\ downSat \in Nat
      /\ s.changes \in Nat /\ up.changes \in Nat /\ down.changes \in Nat
      /\ up.changes <= s.changes /\ s.changes <= down.changes /\ s.changes <= up.changes + 5
  <2>1. 0 \in Int
    OBVIOUS
  <2>2. /\ sq \in Nat /\ upSq \in Nat /\ downSq \in Nat /\ upSq <= sq /\ sq <= downSq
        /\ sq - upSq <= 279
        /\ sat = 0 /\ upSat = 0 /\ downSat \in Nat
        /\ s.changes \in Nat /\ up.changes \in Nat /\ down.changes \in Nat
        /\ up.changes <= s.changes /\ s.changes <= down.changes /\ s.changes <= up.changes + 5
    BY <2>1, Terms
  <2> HIDE DEF sq, upSq, downSq, sat, upSat, downSat
  <2> QED BY <2>2
<1> DEFINE S(m) == Short(m, env.low)
           E(m) == Excess(m, env.high)
<1>3. /\ S(s.mean) \in Nat /\ S(up.mean) \in Nat /\ S(down.mean) \in Nat
      /\ S(up.mean) <= S(s.mean) /\ S(s.mean) <= S(down.mean)
      /\ s.mean < 10 * env.low => S(up.mean) < S(s.mean)
      /\ s.mean >= 10 * env.low => S(s.mean) = 0
  BY <1>1, MeanMoves
<1>4. /\ E(s.mean) \in Nat /\ E(up.mean) \in Nat /\ E(down.mean) \in Nat
      /\ s.mean >= 10 * env.high => E(up.mean) = E(s.mean) + 10
      /\ s.mean <= 10 * env.high => E(s.mean) = 0
      /\ s.mean <= 10 * env.high - 10 => E(up.mean) = 0
  <2>1. /\ E(s.mean) \in Nat /\ E(s.mean + 10) \in Nat /\ E(s.mean - 10) \in Nat
        /\ s.mean >= 10 * env.high => E(s.mean + 10) = E(s.mean) + 10
        /\ s.mean <= 10 * env.high => E(s.mean) = 0
        /\ s.mean <= 10 * env.high - 10 => E(s.mean + 10) = 0
    BY <1>1, MeanMoves
  <2> HIDE DEF E, up, down
  <2> QED BY <1>1, <2>1
<1>5. /\ Score("balanced", env, s) = BalancedSum(S(s.mean), E(s.mean), sq, s.changes, sat)
      /\ Score("balanced", env, up) = BalancedSum(S(up.mean), E(up.mean), upSq, up.changes, upSat)
      /\ Score("balanced", env, down)
           = BalancedSum(S(down.mean), E(down.mean), downSq, down.changes, downSat)
  BY <1>1, Scores
<1> HIDE DEF sq, upSq, downSq, sat, upSat, downSat, S, E, up, down
<1>6. /\ Score("balanced", env, s) \in Int /\ Score("balanced", env, up) \in Int
      /\ Score("balanced", env, down) \in Int
  BY <1>2, <1>3, <1>4, <1>5 DEF BalancedSum
<1>7. s.mean >= 10 * env.high => Score("balanced", env, s) <= Score("balanced", env, up)
  BY <1>1, <1>2, <1>3, <1>4, <1>5 DEF BalancedSum
<1>8. s.mean <= 10 * env.high => Score("balanced", env, s) <= Score("balanced", env, down)
  BY <1>1, <1>2, <1>3, <1>4, <1>5 DEF BalancedSum
<1>9. s.mean < 10 * env.low => /\ Score("balanced", env, up) < Score("balanced", env, s)
                               /\ Score("balanced", env, s) <= Score("balanced", env, down)
  BY <1>1, <1>2, <1>3, <1>4, <1>5 DEF BalancedSum
<1> QED BY <1>6, <1>7, <1>8, <1>9, BestIs DEF up, down

\* The run's windows are windows, and its envelope is one.
LEMMA CpuEnvelope == CpuEnv \in Envelope /\ CpuEnv.low < CpuEnv.high
BY DEF CpuEnv, Envelope

LEMMA WindowsAre ==
  ASSUME NEW p90s \in SUBSET (0 .. 100), NEW sds \in SUBSET Nat, NEW s \in WindowsWith(p90s, sds)
  PROVE  s \in Window /\ s.p90 \in p90s /\ s.sd \in sds
<1> DEFINE means == {m \in 500 .. 804 : m % 10 \in {0, 4}}
<1>1. s \in [full : {TRUE}, mean : means, sd : sds, changes : {0, 3, 12, 40}, p90 : p90s]
  BY DEF WindowsWith
<1>2. means \subseteq Int
  OBVIOUS
<1> HIDE DEF means
<1>3. /\ s = [full |-> s.full, mean |-> s.mean, sd |-> s.sd, changes |-> s.changes, p90 |-> s.p90]
      /\ s.full \in {TRUE} /\ s.mean \in means /\ s.changes \in {0, 3, 12, 40}
      /\ s.sd \in sds /\ s.p90 \in p90s
  BY <1>1, Zenon
<1>4. s.mean \in Int /\ s.changes \in Nat /\ s.sd \in Nat /\ s.p90 \in 0 .. 100
  <2>1. s.mean \in means /\ s.changes \in {0, 3, 12, 40} /\ s.sd \in sds /\ s.p90 \in p90s
    BY <1>3
  <2>2. s.mean \in Int
    BY <1>2, <2>1
  <2>3. s.changes \in Nat
    BY <2>1
  <2>4. s.sd \in Nat /\ s.p90 \in 0 .. 100
    BY <2>1, Zenon
  <2> QED BY <2>2, <2>3, <2>4
<1>5. s.full \in BOOLEAN
  BY <1>3, Zenon
<1> QED BY <1>3, <1>4, <1>5 DEF Window

\* Fan saturation drives the target up (mode.go scoreBalanced, scoreMinNoise,
\* scoreEco) in every window of the run.
THEOREM SaturationRaisesAll == Spec => []SaturationRaises
<1>1. SaturationRaises
  <2> SUFFICES ASSUME NEW mode \in Mode \ {"max-cool"},
                      NEW s \in WindowsWith(91 .. 100, {0, 2, 15, 50})
               PROVE  BestDelta(mode, CpuEnv, s) = 1
    BY DEF SaturationRaises
  <2>1. s \in Window /\ s.p90 > 90
    <3>1. 91 .. 100 \in SUBSET (0 .. 100) /\ {0, 2, 15, 50} \in SUBSET Nat
      OBVIOUS
    <3>2. s \in Window /\ s.p90 \in 91 .. 100
      BY <3>1, WindowsAre
    <3> QED BY <3>2
  <2> QED BY <2>1, CpuEnvelope, SaturationAlwaysRaises
<1> QED BY <1>1, PTL

\* The preferred band attracts (mode.go scoreBalanced) every window of the run.
THEOREM BandAttractsAll == Spec => []BandAttracts
<1>1. BandAttracts
  <2> SUFFICES ASSUME NEW s \in WindowsWith({10, 60, 85}, {0, 1, 2, 3, 10, 25, 40, 48})
               PROVE  /\ s.mean >= 10 * CpuEnv.high => BestDelta("balanced", CpuEnv, s) <= 0
                      /\ s.mean <= 10 * CpuEnv.high => BestDelta("balanced", CpuEnv, s) >= 0
                      /\ s.mean < 10 * CpuEnv.low => BestDelta("balanced", CpuEnv, s) = 1
    BY DEF BandAttracts
  <2>1. s \in Window /\ s.p90 <= 85 /\ s.sd <= 48
    <3> DEFINE p90s == {10, 60, 85}
               sds  == {0, 1, 2, 3, 10, 25, 40, 48}
    <3>1. p90s \in SUBSET (0 .. 100) /\ sds \in SUBSET Nat
      OBVIOUS
    <3>2. s \in Window /\ s.p90 \in p90s /\ s.sd \in sds
      <4> HIDE DEF p90s, sds
      <4>1. s \in WindowsWith(p90s, sds)
        BY DEF p90s, sds
      <4> QED BY <3>1, <4>1, WindowsAre
    <3> QED BY <3>2
  <2>2. /\ s.mean >= 10 * CpuEnv.high => BestDelta("balanced", CpuEnv, s) \in {-1, 0}
        /\ s.mean <= 10 * CpuEnv.high => BestDelta("balanced", CpuEnv, s) \in {0, 1}
        /\ s.mean < 10 * CpuEnv.low => BestDelta("balanced", CpuEnv, s) = 1
    BY <2>1, CpuEnvelope, BandAlwaysAttracts
  <2> QED BY <2>2
<1> QED BY <1>1, PTL
=============================================================================
