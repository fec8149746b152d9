-------------------------- MODULE ControlLawProofs --------------------------
(***************************************************************************)
(* What the control law guarantees for every input: the facts about its    *)
(* operators that the proofs about the control cycle cite.                 *)
(***************************************************************************)
EXTENDS ControlLaw, TLAPS

\* Rounding a ratio of a non-negative and a positive integer (the curve's and
\* the slew's rounding in control.go) is a natural number.
LEMMA RoundedRatioNat ==
  ASSUME NEW n \in Nat, NEW d \in Nat \ {0}
  PROVE  RoundedRatio(n, d) \in Nat
  BY DEF RoundedRatio

\* A positive product of factors, the windows of the curve.
LEMMA ProductNat ==
  ASSUME NEW a \in Nat, NEW b \in Nat
  PROVE  a * b \in Nat
  OBVIOUS

\* A class curve (control.go CurveF) answers 0 for an absent class and
\* otherwise a speed within the fan limits, for every temperature and ramp,
\* inverted ramps included.
LEMMA CurveFRange ==
  ASSUME NEW t \in Int, NEW comfort \in Int, NEW emergency \in Int,
         NEW minFan \in Nat, NEW maxFan \in Nat, minFan <= maxFan
  PROVE  /\ CurveF(t, comfort, emergency, minFan, maxFan) \in {0} \cup (minFan .. maxFan)
         /\ t > 0 => CurveF(t, comfort, emergency, minFan, maxFan) \in minFan .. maxFan
<1> DEFINE window == emergency - comfort
           diff   == t - Res * comfort
<1>0. Res \in Nat /\ Res > 0 /\ Res * comfort \in Int
  BY ResAssumption
<1>1. ASSUME t > 0, window > 0, diff > 0
      PROVE  RoundedRatio(diff * (maxFan - minFan), window * Res) \in Nat
  <2>1. diff * (maxFan - minFan) \in Nat
    BY <1>0, <1>1, ProductNat
  <2>2. window * Res \in Nat \ {0}
    BY <1>0, <1>1
  <2> QED BY <2>1, <2>2, RoundedRatioNat
<1>2. CASE t <= 0
  BY <1>2 DEF CurveF
<1>3. CASE t > 0 /\ (window <= 0 \/ diff <= 0)
  BY <1>3, <1>0 DEF CurveF
<1>4. CASE t > 0 /\ window > 0 /\ diff > 0
  <2> DEFINE rise == RoundedRatio(diff * (maxFan - minFan), window * Res)
  <2>1. rise \in Nat
    BY <1>1, <1>4
  <2>2. CurveF(t, comfort, emergency, minFan, maxFan) = Smaller(maxFan, minFan + rise)
    BY <1>4, <1>0 DEF CurveF
  <2> HIDE DEF rise
  <2> QED BY <2>1, <2>2, <1>4 DEF Smaller
<1> QED BY <1>0, <1>2, <1>3, <1>4

-----------------------------------------------------------------------------
\* The down-slew (control.go SlewDown) lets every rise through, never undershoots
\* the demand, limits each fall to MaxDrop, and always makes progress.
THEOREM SlewDownSound ==
  ASSUME NEW prev \in Int, NEW want \in Int, NEW dt \in Nat
  PROVE  /\ SlewDown(prev, want, dt) \in Int
         /\ want <= SlewDown(prev, want, dt)
         /\ want >= prev => SlewDown(prev, want, dt) = want
         /\ want < prev => SlewDown(prev, want, dt) < prev
         /\ prev - SlewDown(prev, want, dt) <= MaxDrop(dt)
<1>1. MaxDrop(dt) \in Nat /\ MaxDrop(dt) >= 1
  <2>1. RoundedRatio(dt, 5) \in Nat
    BY RoundedRatioNat
  <2> QED BY <2>1 DEF MaxDrop, Larger
<1> QED BY <1>1 DEF SlewDown

\* Clamping (control.go clamp) lands in the range and keeps what is already
\* inside it.
LEMMA ClampRange ==
  ASSUME NEW v \in Int, NEW lo \in Int, NEW hi \in Int, lo <= hi
  PROVE  /\ Clamp(v, lo, hi) \in lo .. hi
         /\ \A w \in lo .. hi : w <= v => w <= Clamp(v, lo, hi)
         /\ v >= lo => Clamp(v, lo, hi) <= v
         /\ v <= hi => v <= Clamp(v, lo, hi)
  BY DEF Clamp

\* The active-GPU assist (control.go ActiveGPUAssist) never asks for more than
\* the top of the fan range, whatever the card reports.
LEMMA AssistRange ==
  ASSUME NEW ownFan \in Int, NEW threshold \in Int,
         NEW minFan \in Nat, NEW maxFan \in Nat, minFan <= maxFan
  PROVE  ActiveGPUAssist(ownFan, threshold, minFan, maxFan) \in 0 .. maxFan
<1>1. CASE ownFan < threshold \/ threshold >= 100
  BY <1>1 DEF ActiveGPUAssist
<1>2. CASE ownFan >= threshold /\ threshold < 100
  <2> DEFINE n == (Smaller(ownFan, 100) - threshold) * (maxFan - minFan)
             step == RoundedRatio(n, 100 - threshold)
  <2>1. n \in Nat
    <3>1. Smaller(ownFan, 100) - threshold \in Nat /\ maxFan - minFan \in Nat
      BY <1>2 DEF Smaller
    <3> QED BY <3>1, ProductNat
  <2>2. step \in Nat
    <3>1. 100 - threshold \in Nat \ {0}
      BY <1>2
    <3> HIDE DEF n
    <3> QED BY <2>1, <3>1, RoundedRatioNat
  <2>3. ActiveGPUAssist(ownFan, threshold, minFan, maxFan) = Clamp(minFan + step, minFan, maxFan)
    BY <1>2 DEF ActiveGPUAssist
  <2> HIDE DEF step
  <2>4. minFan + step \in Int /\ minFan \in Int /\ maxFan \in Int
    BY <2>2
  <2>5. Clamp(minFan + step, minFan, maxFan) \in minFan .. maxFan
    BY <2>4, ClampRange
  <2> QED BY <2>3, <2>5
<1> QED BY <1>1, <1>2

\* Max-wins (control.go MaxWins): the demand is within the fan limits, and no
\* candidate that is itself below the upper limit is outvoted.
THEOREM MaxWinsSound ==
  ASSUME NEW cpu \in Int, NEW pg \in Int, NEW hdd \in Int, NEW ssd \in Int,
         NEW assist \in Int, NEW minFan \in Int, NEW maxFan \in Int, minFan <= maxFan
  PROVE  /\ MaxWins(cpu, pg, hdd, ssd, assist, minFan, maxFan) \in minFan .. maxFan
         /\ \A x \in {cpu, pg, hdd, ssd, assist} :
              x <= maxFan => x <= MaxWins(cpu, pg, hdd, ssd, assist, minFan, maxFan)
  BY DEF MaxWins, Larger, Clamp

\* Smoothing (controller.go smoothTemp, control.go EwmaDt) keeps a smoothed
\* temperature non-negative, and between the old value and the reading.
LEMMA SmoothTempRange ==
  ASSUME NEW s \in Nat, NEW raw \in Nat, NEW n \in SmoothTemp(s, raw)
  PROVE  /\ n \in Nat
         /\ raw > 0 /\ s = 0 => n = Res * raw
         /\ raw > 0 /\ s > 0 => n \in Smaller(s, Res * raw) .. Larger(s, Res * raw)
<1> DEFINE r == Res * raw
<1>1. r \in Nat
  BY ResAssumption, ProductNat
<1>2. /\ raw = 0 => n = 0
      /\ raw > 0 /\ s = 0 => n = r
      /\ raw > 0 /\ s > 0 => n \in Smaller(s, r) .. Larger(s, r)
  BY DEF SmoothTemp
<1> HIDE DEF r
<1>3. n \in Nat
  BY <1>1, <1>2 DEF Smaller, Larger
<1> QED BY <1>2, <1>3 DEF r

-----------------------------------------------------------------------------
\* What rounding gives: the ratio's nearest integer, by its bounds.
LEMMA RoundedRatioBounds ==
  ASSUME NEW n \in Int, NEW d \in Nat \ {0}
  PROVE  /\ RoundedRatio(n, d) \in Int
         /\ 2 * (d * RoundedRatio(n, d)) <= 2 * n + d
         /\ 2 * n + d < 2 * (d * RoundedRatio(n, d)) + 2 * d
  BY DEF RoundedRatio

LEMMA TimesMonotone ==
  ASSUME NEW a \in Int, NEW b \in Int, NEW k \in Nat, a <= b
  PROVE  k * a <= k * b
<1>1. k * (b - a) \in Nat
  BY ProductNat
<1>2. k * (b - a) = k * b - k * a
  OBVIOUS
<1> QED BY <1>1, <1>2

LEMMA TimesCancels ==
  ASSUME NEW a \in Int, NEW b \in Int, NEW k \in Nat \ {0}, k * a < k * b + k
  PROVE  a <= b
<1>1. SUFFICES ASSUME b + 1 <= a PROVE FALSE
  OBVIOUS
<1>2. k * (b + 1) <= k * a
  BY <1>1, TimesMonotone
<1>3. k * (b + 1) = k * b + k
  OBVIOUS
<1> QED BY <1>2, <1>3

LEMMA RoundedRatioIs ==
  ASSUME NEW n \in Int, NEW d \in Nat \ {0}, NEW q \in Int,
         2 * (d * q) <= 2 * n + d, 2 * n + d < 2 * (d * q) + 2 * d
  PROVE  RoundedRatio(n, d) = q
<1> DEFINE r == RoundedRatio(n, d)
<1>1. r \in Int /\ 2 * (d * r) <= 2 * n + d /\ 2 * n + d < 2 * (d * r) + 2 * d
  BY RoundedRatioBounds
<1> HIDE DEF r
<1>2. d * r \in Int /\ d * q \in Int
  BY <1>1
<1>3. d * r < d * q + d /\ d * q < d * r + d
  BY <1>1, <1>2
<1>4. r <= q /\ q <= r
  BY <1>1, <1>3, TimesCancels
<1>5. r = q
  BY <1>1, <1>4
<1> QED BY <1>5 DEF r

\* Adding less than (g + 1) times the divisor adds at most g + 1.
LEMMA RoundedRatioGain ==
  ASSUME NEW n \in Int, NEW m \in Int, NEW d \in Nat \ {0}, NEW g \in Int, m < d * g + d
  PROVE  RoundedRatio(n + m, d) <= RoundedRatio(n, d) + g + 1
<1> DEFINE r == RoundedRatio(n, d)
           s == RoundedRatio(n + m, d)
<1>1. r \in Int /\ 2 * n + d < 2 * (d * r) + 2 * d
  BY RoundedRatioBounds
<1>2. s \in Int /\ 2 * (d * s) <= 2 * (n + m) + d
  BY RoundedRatioBounds
<1> HIDE DEF r, s
<1>3. d * r \in Int /\ d * s \in Int /\ d * g \in Int /\ d * (r + g + 1) = d * r + d * g + d
  BY <1>1, <1>2
<1>4. d * s < d * (r + g + 1) + d
  BY <1>1, <1>2, <1>3
<1>5. s <= r + g + 1
  BY <1>1, <1>2, <1>4, TimesCancels
<1> QED BY <1>5 DEF r, s

LEMMA RoundedRatioMonotone ==
  ASSUME NEW n \in Int, NEW m \in Int, NEW d \in Nat \ {0}, n <= m
  PROVE  RoundedRatio(n, d) <= RoundedRatio(m, d)
<1>1. n - m < d * (-1) + d \/ n = m
  OBVIOUS
<1>2. CASE n = m
  BY <1>2, RoundedRatioBounds
<1>3. CASE n - m < d * (-1) + d
  <2> DEFINE less == n - m
  <2>1. less \in Int /\ -1 \in Int /\ less < d * (-1) + d /\ m + less = n
    BY <1>3
  <2> HIDE DEF less
  <2>2. RoundedRatio(m + less, d) <= RoundedRatio(m, d) + (-1) + 1
    BY <2>1, RoundedRatioGain
  <2>3. RoundedRatio(m, d) \in Int /\ RoundedRatio(n, d) \in Int
    BY RoundedRatioBounds
  <2> QED BY <2>1, <2>2, <2>3
<1> QED BY <1>1, <1>2, <1>3

\* A common factor does not change the rounded ratio.
LEMMA RoundedRatioScales ==
  ASSUME NEW n \in Int, NEW d \in Nat \ {0}, NEW k \in Nat \ {0}
  PROVE  RoundedRatio(k * n, k * d) = RoundedRatio(n, d)
<1> DEFINE q == RoundedRatio(n, d)
<1>0. q \in Int /\ 2 * (d * q) <= 2 * n + d /\ 2 * n + d < 2 * (d * q) + 2 * d
  BY RoundedRatioBounds
<1> HIDE DEF q
<1>1. q \in Int /\ 2 * (d * q) <= 2 * n + d /\ 2 * n + d + 1 <= 2 * (d * q) + 2 * d
  <2>1. d * q \in Int
    BY <1>0
  <2> QED BY <1>0, <2>1
<1>2. k * n \in Int /\ k * d \in Nat \ {0} /\ d * q \in Int
  BY <1>1
<1>3. k * (2 * (d * q)) <= k * (2 * n + d) /\ k * (2 * n + d + 1) <= k * (2 * (d * q) + 2 * d)
  BY <1>1, <1>2, TimesMonotone
<1>4. /\ k * (2 * (d * q)) = 2 * ((k * d) * q)
      /\ k * (2 * n + d) = 2 * (k * n) + k * d
      /\ k * (2 * n + d + 1) = 2 * (k * n) + k * d + k
      /\ k * (2 * (d * q) + 2 * d) = 2 * ((k * d) * q) + 2 * (k * d)
  BY <1>1
<1>5. 2 * ((k * d) * q) <= 2 * (k * n) + k * d /\ 2 * (k * n) + k * d < 2 * ((k * d) * q) + 2 * (k * d)
  <2> DEFINE u == (k * d) * q  v == k * n  w == k * d
  <2>1. u \in Int /\ v \in Int /\ w \in Int
    BY <1>1
  <2>2. 2 * u <= 2 * v + w /\ 2 * v + w + k <= 2 * u + 2 * w
    BY <1>3, <1>4
  <2> HIDE DEF u, v, w
  <2>3. 2 * u <= 2 * v + w /\ 2 * v + w < 2 * u + 2 * w
    BY <2>1, <2>2
  <2> QED BY <2>3 DEF u, v, w
<1>6. RoundedRatio(k * n, k * d) = q
  BY <1>1, <1>2, <1>5, RoundedRatioIs
<1> QED BY <1>6 DEF q

-----------------------------------------------------------------------------
\* The curve above an absent class's 0, on a ramp that is not inverted, in one
\* expression: the rounded share of the fan range, cut at the top.
Rise(t, comfort, emergency, range) ==
  RoundedRatio(Larger(0, t - Res * comfort) * range, (emergency - comfort) * Res)

LEMMA LargerNat ==
  ASSUME NEW a \in Int
  PROVE  Larger(0, a) \in Nat
  BY DEF Larger

LEMMA CurveIs ==
  ASSUME NEW t \in Nat \ {0}, NEW comfort \in Int, NEW emergency \in Int,
         NEW minFan \in Nat, NEW maxFan \in Nat, minFan <= maxFan, comfort < emergency
  PROVE  /\ Rise(t, comfort, emergency, maxFan - minFan) \in Nat
         /\ CurveF(t, comfort, emergency, minFan, maxFan)
              = Smaller(maxFan, minFan + Rise(t, comfort, emergency, maxFan - minFan))
<1> DEFINE range == maxFan - minFan
           d     == (emergency - comfort) * Res
           above == Larger(0, t - Res * comfort)
<1>0. Res \in Nat /\ Res > 0 /\ Res * comfort \in Int
  BY ResAssumption
<1>1. range \in Nat /\ d \in Nat \ {0} /\ above \in Nat
  <2>1. emergency - comfort \in Nat \ {0}
    OBVIOUS
  <2>2. t - Res * comfort \in Int
    BY <1>0
  <2> QED BY <1>0, <2>1, <2>2, LargerNat
<1>2. above * range \in Nat
  BY <1>1, ProductNat
<1>3. Rise(t, comfort, emergency, range) = RoundedRatio(above * range, d)
  BY DEF Rise
<1>4. RoundedRatio(above * range, d) \in Nat
  <2> HIDE DEF above, range, d
  <2> QED BY <1>1, <1>2, RoundedRatioNat
<1>5. CASE t - Res * comfort <= 0
  <2>1. above * range = 0
    <3>1. above = 0
      BY <1>0, <1>5 DEF Larger
    <3> HIDE DEF above
    <3> QED BY <3>1, <1>1
  <2>2. RoundedRatio(0, d) = 0
    <3>1. 2 * (d * 0) <= 2 * 0 + d /\ 2 * 0 + d < 2 * (d * 0) + 2 * d
      BY <1>1
    <3> HIDE DEF d
    <3> QED BY <1>1, <3>1, RoundedRatioIs
  <2>3. CurveF(t, comfort, emergency, minFan, maxFan) = minFan
    BY <1>0, <1>5 DEF CurveF
  <2>4. Rise(t, comfort, emergency, range) = 0
    <3> HIDE DEF above, d, range
    <3> QED BY <1>3, <2>1, <2>2
  <2>5. Smaller(maxFan, minFan + 0) = minFan
    BY DEF Smaller
  <2> QED BY <2>3, <2>4, <2>5
<1>6. CASE t - Res * comfort > 0
  <2>1. above = t - Res * comfort
    BY <1>0, <1>6 DEF Larger
  <2>2. CurveF(t, comfort, emergency, minFan, maxFan)
          = Smaller(maxFan, minFan + RoundedRatio((t - Res * comfort) * range, d))
    BY <1>0, <1>6 DEF CurveF
  <2> QED BY <1>3, <1>4, <2>1, <2>2
<1> QED BY <1>0, <1>5, <1>6

\* A hotter class never asks for less fan (control.go CurveF), whatever its ramp.
THEOREM CurveMonotone ==
  ASSUME NEW t \in Int, NEW u \in Int, NEW comfort \in Int, NEW emergency \in Int,
         NEW minFan \in Nat, NEW maxFan \in Nat, minFan <= maxFan, t <= u
  PROVE  CurveF(t, comfort, emergency, minFan, maxFan)
           <= CurveF(u, comfort, emergency, minFan, maxFan)
<1> DEFINE range == maxFan - minFan
           d     == (emergency - comfort) * Res
<1>0. Res \in Nat /\ Res > 0 /\ Res * comfort \in Int /\ Res * emergency \in Int
  BY ResAssumption
<1>1. CASE t <= 0
  <2>1. CurveF(t, comfort, emergency, minFan, maxFan) = 0
    BY <1>1 DEF CurveF
  <2>2. CurveF(u, comfort, emergency, minFan, maxFan) \in {0} \cup (minFan .. maxFan)
    BY CurveFRange
  <2> QED BY <2>1, <2>2
<1>2. CASE t > 0 /\ emergency <= comfort
  BY <1>0, <1>2 DEF CurveF
<1>3. CASE t > 0 /\ comfort < emergency
  <2> DEFINE low  == Larger(0, t - Res * comfort)
             high == Larger(0, u - Res * comfort)
  <2>1. low \in Nat /\ high \in Nat /\ low <= high
    BY <1>0 DEF Larger
  <2>2. range \in Nat /\ d \in Nat \ {0}
    <3>1. emergency - comfort \in Nat \ {0}
      BY <1>3
    <3> QED BY <1>0, <3>1
  <2>3. low * range \in Nat /\ high * range \in Nat /\ low * range <= high * range
    <3> HIDE DEF low, high, range
    <3>1. range * low <= range * high
      BY <2>1, <2>2, TimesMonotone
    <3> QED BY <2>1, <2>2, <3>1, ProductNat
  <2>4. Rise(t, comfort, emergency, range) <= Rise(u, comfort, emergency, range)
    <3>1. RoundedRatio(low * range, d) <= RoundedRatio(high * range, d)
      <4> HIDE DEF low, high, range, d
      <4> QED BY <2>2, <2>3, RoundedRatioMonotone
    <3> QED BY <3>1 DEF Rise
  <2>5. t \in Nat \ {0} /\ u \in Nat \ {0}
    BY <1>3
  <2> DEFINE a == Rise(t, comfort, emergency, range)
             b == Rise(u, comfort, emergency, range)
  <2>6. /\ a \in Nat /\ b \in Nat
        /\ CurveF(t, comfort, emergency, minFan, maxFan) = Smaller(maxFan, minFan + a)
        /\ CurveF(u, comfort, emergency, minFan, maxFan) = Smaller(maxFan, minFan + b)
    <3>1. a \in Nat /\ CurveF(t, comfort, emergency, minFan, maxFan) = Smaller(maxFan, minFan + a)
      BY <1>3, <2>5, CurveIs
    <3>2. b \in Nat /\ CurveF(u, comfort, emergency, minFan, maxFan) = Smaller(maxFan, minFan + b)
      BY <1>3, <2>5, CurveIs
    <3> QED BY <3>1, <3>2
  <2>7. a <= b
    BY <2>4
  <2> HIDE DEF a, b
  <2> QED BY <2>6, <2>7 DEF Smaller
<1> QED BY <1>1, <1>2, <1>3

\* From the emergency temperature on a class asks for the whole fan range
\* (control.go CurveF), whatever its ramp.
THEOREM CurveEndsFull ==
  ASSUME NEW t \in Nat \ {0}, NEW comfort \in Int, NEW emergency \in Int,
         NEW minFan \in Nat, NEW maxFan \in Nat, minFan <= maxFan, Res * emergency <= t
  PROVE  CurveF(t, comfort, emergency, minFan, maxFan) = maxFan
<1> DEFINE range == maxFan - minFan
           d     == (emergency - comfort) * Res
           above == Larger(0, t - Res * comfort)
<1>0. Res \in Nat /\ Res > 0 /\ Res * comfort \in Int /\ Res * emergency \in Int
  BY ResAssumption
<1>1. CASE emergency <= comfort
  BY <1>0, <1>1 DEF CurveF
<1>2. CASE comfort < emergency
  <2>1. range \in Nat /\ d \in Nat \ {0}
    <3>1. emergency - comfort \in Nat \ {0}
      BY <1>2
    <3> QED BY <1>0, <3>1
  <2>2. d = Res * emergency - Res * comfort
    BY <1>0
  <2>3. above \in Nat /\ d <= above
    BY <1>0, <2>1, <2>2 DEF Larger
  <2>4. d * range <= above * range
    <3> HIDE DEF d, range, above
    <3>1. range * d <= range * above
      BY <2>1, <2>3, TimesMonotone
    <3> QED BY <2>1, <2>3, <3>1
  <2>5. range <= RoundedRatio(above * range, d)
    <3> HIDE DEF d, range, above
    <3>1. d * range \in Int /\ above * range \in Int
      BY <2>1, <2>3
    <3>2. 2 * (d * range) <= 2 * (d * range) + d /\ 2 * (d * range) + d < 2 * (d * range) + 2 * d
      BY <2>1, <3>1
    <3>3. RoundedRatio(d * range, d) = range
      BY <2>1, <3>1, <3>2, RoundedRatioIs
    <3> QED BY <2>1, <2>4, <3>1, <3>3, RoundedRatioMonotone
  <2>6. CurveF(t, comfort, emergency, minFan, maxFan)
          = Smaller(maxFan, minFan + RoundedRatio(above * range, d))
        /\ RoundedRatio(above * range, d) \in Nat
    BY <1>2, CurveIs DEF Rise
  <2> DEFINE r == RoundedRatio(above * range, d)
  <2>7. r \in Nat /\ range <= r
    BY <2>5, <2>6
  <2>8. Smaller(maxFan, minFan + r) = maxFan
    <3> HIDE DEF r
    <3> QED BY <2>7 DEF Smaller
  <2> QED BY <2>6, <2>8
<1> QED BY <1>1, <1>2

\* Ratios in the order of their cross products are rounded in that order.
LEMMA RoundedRatioOrder ==
  ASSUME NEW n \in Int, NEW d \in Nat \ {0}, NEW m \in Int, NEW e \in Nat \ {0},
         n * e <= m * d
  PROVE  RoundedRatio(n, d) <= RoundedRatio(m, e)
<1>1. e * n \in Int /\ d * m \in Int /\ e * n <= d * m /\ e * d \in Nat \ {0} /\ e * d = d * e
  BY ProductNat
<1>2. RoundedRatio(n, d) = RoundedRatio(e * n, e * d)
  BY RoundedRatioScales
<1>3. RoundedRatio(m, e) = RoundedRatio(d * m, d * e)
  BY RoundedRatioScales
<1>4. RoundedRatio(e * n, e * d) <= RoundedRatio(d * m, e * d)
  <2> DEFINE u == e * n  v == d * m  w == e * d
  <2>1. u \in Int /\ v \in Int /\ u <= v /\ w \in Nat \ {0}
    BY <1>1
  <2> HIDE DEF u, v, w
  <2>2. RoundedRatio(u, w) <= RoundedRatio(v, w)
    BY <2>1, RoundedRatioMonotone
  <2> QED BY <2>2 DEF u, v, w
<1> QED BY <1>1, <1>2, <1>3, <1>4

\* A ramp that begins later never asks for more fan, at no temperature
\* (control.go CurveF): the learner's one lever pulls in one direction.
THEOREM CurveRampMonotone ==
  ASSUME NEW t \in Int, NEW comfort \in Int, NEW later \in Int, NEW emergency \in Int,
         NEW minFan \in Nat, NEW maxFan \in Nat, minFan <= maxFan, comfort <= later
  PROVE  CurveF(t, later, emergency, minFan, maxFan)
           <= CurveF(t, comfort, emergency, minFan, maxFan)
<1>0. Res \in Nat /\ Res > 0 /\ Res * comfort \in Int /\ Res * later \in Int
      /\ Res * emergency \in Int
  BY ResAssumption
<1>1. CASE t <= 0
  BY <1>1 DEF CurveF
<1>2. CASE t > 0 /\ Res * emergency <= t
  <2>1. t \in Nat \ {0}
    BY <1>2
  <2>2. /\ CurveF(t, later, emergency, minFan, maxFan) = maxFan
        /\ CurveF(t, comfort, emergency, minFan, maxFan) = maxFan
    BY <1>2, <2>1, CurveEndsFull
  <2> QED BY <2>2
<1>3. CASE t > 0 /\ t < Res * emergency /\ emergency <= later
  <2>1. CurveF(t, later, emergency, minFan, maxFan) = minFan
    BY <1>0, <1>3 DEF CurveF
  <2>2. CurveF(t, comfort, emergency, minFan, maxFan) \in minFan .. maxFan
    BY <1>3, CurveFRange
  <2> QED BY <2>1, <2>2
<1>4. CASE t > 0 /\ t < Res * emergency /\ later < emergency
  <2> DEFINE range == maxFan - minFan
             high  == Larger(0, t - Res * later)
             low   == Larger(0, t - Res * comfort)
             d     == (emergency - later) * Res
             e     == (emergency - comfort) * Res
  <2>1. range \in Nat /\ high \in Nat /\ low \in Nat /\ d \in Nat \ {0} /\ e \in Nat \ {0}
    <3>1. emergency - later \in Nat \ {0} /\ emergency - comfort \in Nat \ {0}
      BY <1>4
    <3>2. t - Res * later \in Int /\ t - Res * comfort \in Int
      BY <1>0
    <3>3. d \in Nat \ {0} /\ e \in Nat \ {0}
      BY <1>0, <3>1
    <3> QED BY <3>2, <3>3, LargerNat
  <2>2. high * e <= low * d
    <3>1. CASE t <= Res * later
      <4>1. high = 0
        BY <1>0, <3>1 DEF Larger
      <4>2. low * d \in Nat
        BY <2>1, ProductNat
      <4> HIDE DEF high, low, d, e
      <4> QED BY <2>1, <4>1, <4>2
    <3>2. CASE t > Res * later
      <4> DEFINE gap  == later - comfort
                 left == Res * emergency - t
                 full == Res * emergency - Res * later
      <4>1. gap \in Nat /\ left \in Nat /\ Res * gap \in Nat /\ full \in Nat
            /\ Res * gap = Res * later - Res * comfort
        <5>1. gap \in Nat
          OBVIOUS
        <5>2. Res * gap = Res * later - Res * comfort
          BY <1>0
        <5>3. full = d
          BY <1>0
        <5> HIDE DEF gap, d
        <5> QED BY <1>0, <1>4, <2>1, <5>1, <5>2, <5>3, ProductNat
      <4>2. high = full - left /\ low = high + Res * gap /\ d = full /\ e = full + Res * gap
        <5>1. high = t - Res * later
          BY <1>0, <3>2 DEF Larger
        <5>2. Res * comfort <= Res * later
          BY <1>0, TimesMonotone
        <5>3. low = t - Res * comfort
          BY <1>0, <3>2, <5>2 DEF Larger
        <5>4. d = full /\ e = Res * emergency - Res * comfort
          BY <1>0
        <5> HIDE DEF high, low, d, e, gap
        <5> QED BY <1>0, <4>1, <5>1, <5>3, <5>4
      <4> DEFINE g == Res * gap
      <4>3. /\ g \in Nat /\ left \in Nat /\ full \in Nat
            /\ high = full - left /\ low = high + g /\ d = full /\ e = full + g
        BY <4>1, <4>2
      <4> HIDE DEF g, left, full, high, low, d, e
      <4>4. g * left \in Nat /\ high \in Int /\ high * full \in Int /\ high * g \in Int /\ g * full \in Int
        BY <4>3, ProductNat
      <4>5. high * e = high * full + high * g /\ low * d = high * full + g * full
        BY <4>3
      <4>6. high * g = g * full - g * left
        BY <4>3
      <4> QED BY <4>4, <4>5, <4>6
    <3> QED BY <1>0, <3>1, <3>2
  <2>3. Rise(t, later, emergency, range) <= Rise(t, comfort, emergency, range)
    <3> HIDE DEF range, high, low, d, e
    <3>1. (high * range) * e <= (low * range) * d
      <4>1. high * e \in Int /\ low * d \in Int
        BY <2>1
      <4>2. range * (high * e) <= range * (low * d)
        BY <2>1, <2>2, <4>1, TimesMonotone
      <4>3. range * (high * e) = (high * range) * e /\ range * (low * d) = (low * range) * d
        BY <2>1
      <4> QED BY <4>2, <4>3
    <3>2. high * range \in Int /\ low * range \in Int
      BY <2>1
    <3>3. RoundedRatio(high * range, d) <= RoundedRatio(low * range, e)
      BY <2>1, <3>1, <3>2, RoundedRatioOrder
    <3> QED BY <3>3 DEF Rise, high, low, d, e
  <2> DEFINE a == Rise(t, later, emergency, range)
             b == Rise(t, comfort, emergency, range)
  <2>4. t \in Nat \ {0} /\ comfort < emergency
    BY <1>4
  <2>5. a \in Nat /\ CurveF(t, later, emergency, minFan, maxFan) = Smaller(maxFan, minFan + a)
    BY <1>4, <2>4, CurveIs
  <2>6. b \in Nat /\ CurveF(t, comfort, emergency, minFan, maxFan) = Smaller(maxFan, minFan + b)
    BY <2>4, CurveIs
  <2>7. a <= b
    BY <2>3
  <2> HIDE DEF a, b
  <2> QED BY <2>5, <2>6, <2>7 DEF Smaller
<1> QED BY <1>0, <1>1, <1>2, <1>3, <1>4

\* One degree more moves a class's fan by at most the rounded share of the
\* range a degree takes, on a ramp that is at least `span' wide (control.go
\* CurveF, MaxRampStart): what bounds the loop's gain on sensor noise.
THEOREM CurveGain ==
  ASSUME NEW t \in Nat \ {0}, NEW comfort \in Int, NEW emergency \in Int,
         NEW minFan \in Nat, NEW maxFan \in Nat, minFan <= maxFan,
         NEW span \in Nat \ {0}, comfort + span <= emergency
  PROVE  CurveF(t + Res, comfort, emergency, minFan, maxFan)
           - CurveF(t, comfort, emergency, minFan, maxFan)
           \in 0 .. ((maxFan - minFan) \div span) + 1
<1> DEFINE range == maxFan - minFan
           d     == (emergency - comfort) * Res
           low   == Larger(0, t - Res * comfort)
           high  == Larger(0, (t + Res) - Res * comfort)
           gain  == range \div span
           a     == Rise(t, comfort, emergency, range)
           b     == Rise(t + Res, comfort, emergency, range)
<1>0. Res \in Nat /\ Res > 0 /\ Res * comfort \in Int
  BY ResAssumption
<1>1. range \in Nat /\ d \in Nat \ {0} /\ t + Res \in Nat \ {0}
  <2>1. emergency - comfort \in Nat \ {0}
    OBVIOUS
  <2> QED BY <1>0, <2>1
<1>2. gain \in Nat /\ range < span * gain + span
  <2> HIDE DEF range
  <2> QED BY <1>1
<1>3. low \in Nat /\ high \in Nat /\ low <= high /\ high <= low + Res
  BY <1>0 DEF Larger
<1>4. Res * range < d * gain + d
  <2> DEFINE window == emergency - comfort
  <2>1. window \in Nat \ {0} /\ span <= window
    OBVIOUS
  <2> HIDE DEF window
  <2>2. span * gain + span <= window * gain + window
    <3>1. (gain + 1) * span <= (gain + 1) * window
      <4> HIDE DEF gain
      <4> QED BY <1>2, <2>1, TimesMonotone
    <3> HIDE DEF gain
    <3> QED BY <1>2, <2>1, <3>1
  <2>3. range + 1 <= window * gain + window
    <3> HIDE DEF gain, range
    <3>1. span * gain \in Int /\ window * gain \in Int
      BY <1>2, <2>1
    <3> QED BY <1>1, <1>2, <2>1, <2>2, <3>1
  <2>4. Res * (range + 1) <= Res * (window * gain + window)
    <3> HIDE DEF gain, range
    <3>1. window * gain + window \in Int
      BY <1>2, <2>1
    <3> QED BY <1>0, <1>1, <2>3, <3>1, TimesMonotone
  <2>5. Res * (window * gain + window) = d * gain + d
    <3> HIDE DEF gain
    <3> QED BY <1>0, <1>2 DEF window
  <2>6. Res * (range + 1) = Res * range + Res
    <3> HIDE DEF range
    <3> QED BY <1>0, <1>1
  <2> HIDE DEF gain, range, d
  <2>7. Res * range \in Int /\ d * gain \in Int
    BY <1>0, <1>1, <1>2
  <2> QED BY <1>0, <1>1, <1>2, <2>4, <2>5, <2>6, <2>7
<1>5. b <= a + gain + 1
  <2> DEFINE n == low * range
             m == Res * range
             h == high * range
  <2>1. n \in Int /\ m \in Int /\ h \in Int /\ h <= n + m
    <3> HIDE DEF low, high, range
    <3>1. range * high <= range * (low + Res)
      BY <1>0, <1>1, <1>3, TimesMonotone
    <3>2. range * (low + Res) = low * range + Res * range /\ range * high = high * range
      BY <1>0, <1>1, <1>3
    <3> QED BY <1>0, <1>1, <1>3, <3>1, <3>2
  <2>2. RoundedRatio(n + m, d) <= RoundedRatio(n, d) + gain + 1
    <3> HIDE DEF gain, n, d
    <3>1. m < d * gain + d
      BY <1>4
    <3>2. n \in Int /\ m \in Int /\ d \in Nat \ {0} /\ gain \in Int
      BY <1>1, <1>2, <2>1
    <3> HIDE DEF m
    <3> QED BY <3>1, <3>2, RoundedRatioGain
  <2>3. RoundedRatio(h, d) <= RoundedRatio(n + m, d)
    <3> HIDE DEF h, n, m, d
    <3> QED BY <1>1, <2>1, RoundedRatioMonotone
  <2>4. a = RoundedRatio(n, d) /\ b = RoundedRatio(h, d)
    BY DEF Rise
  <2>5. RoundedRatio(n, d) \in Int /\ RoundedRatio(h, d) \in Int /\ RoundedRatio(n + m, d) \in Int
    <3> HIDE DEF h, n, m, d
    <3>1. d \in Nat \ {0} /\ n \in Int /\ h \in Int /\ n + m \in Int
      BY <1>1, <2>1
    <3>2. RoundedRatio(n + m, d) \in Int
      BY <3>1, RoundedRatioBounds
    <3>3. RoundedRatio(n, d) \in Int /\ RoundedRatio(h, d) \in Int
      BY <3>1, RoundedRatioBounds
    <3> QED BY <3>2, <3>3
  <2> HIDE DEF a, b, gain, n, m, h, d
  <2> QED BY <1>2, <2>2, <2>3, <2>4, <2>5
<1>6. a \in Nat /\ CurveF(t, comfort, emergency, minFan, maxFan) = Smaller(maxFan, minFan + a)
  BY CurveIs
<1>7. b \in Nat /\ CurveF(t + Res, comfort, emergency, minFan, maxFan) = Smaller(maxFan, minFan + b)
  <2> DEFINE u == t + Res
  <2>1. u \in Nat \ {0} /\ comfort < emergency
    BY <1>1
  <2> HIDE DEF u
  <2>2. /\ Rise(u, comfort, emergency, maxFan - minFan) \in Nat
        /\ CurveF(u, comfort, emergency, minFan, maxFan)
             = Smaller(maxFan, minFan + Rise(u, comfort, emergency, maxFan - minFan))
    BY <2>1, CurveIs
  <2> QED BY <2>2 DEF u
<1>8. CurveF(t, comfort, emergency, minFan, maxFan)
        <= CurveF(t + Res, comfort, emergency, minFan, maxFan)
  BY <1>0, CurveMonotone
<1>9. Smaller(maxFan, minFan + b) - Smaller(maxFan, minFan + a) <= gain + 1
  <2> HIDE DEF a, b, gain
  <2> QED BY <1>2, <1>5, <1>6, <1>7 DEF Smaller
<1>10. Smaller(maxFan, minFan + a) \in Int /\ Smaller(maxFan, minFan + b) \in Int
  <2> HIDE DEF a, b
  <2> QED BY <1>6, <1>7 DEF Smaller
<1> HIDE DEF a, b
<1>11. gain + 1 = ((maxFan - minFan) \div span) + 1
  OBVIOUS
<1> HIDE DEF gain
<1> QED BY <1>2, <1>6, <1>7, <1>8, <1>9, <1>10, <1>11

\* On whole degrees the curve is the v2 proximity floor whose window is the
\* whole ramp (the claim of control.go's Curve comment).
THEOREM CurveStretchesFloor ==
  ASSUME NEW temp \in Nat \ {0}, NEW comfort \in Int, NEW emergency \in Int,
         NEW minFan \in Nat, NEW maxFan \in Nat, minFan <= maxFan
  PROVE  CurveF(Res * temp, comfort, emergency, minFan, maxFan)
           = ProximityFloor(temp, emergency, emergency - comfort, minFan, maxFan)
<1> DEFINE range  == maxFan - minFan
           window == emergency - comfort
           diff   == temp - comfort
<1>0. Res \in Nat \ {0} /\ Res * temp \in Nat \ {0}
  BY ResAssumption
<1>1. diff = temp - (emergency - window)
  OBVIOUS
<1>2. CASE window <= 0
  <2>1. Res * temp >= Res * emergency <=> temp >= emergency
    <3>1. temp >= emergency => Res * temp >= Res * emergency
      BY <1>0, TimesMonotone
    <3>2. ASSUME Res * temp >= Res * emergency PROVE temp >= emergency
      <4>1. Res * emergency < Res * temp + Res
        BY <1>0, <3>2
      <4> QED BY <1>0, <4>1, TimesCancels
    <3> QED BY <3>1, <3>2
  <2> QED BY <1>0, <1>2, <2>1 DEF CurveF, ProximityFloor
<1>3. CASE window > 0
  <2>1. Res * temp - Res * comfort = Res * diff
    BY <1>0
  <2>2. Larger(0, Res * temp - Res * comfort) = Res * Larger(0, diff)
    <3>1. CASE diff <= 0
      <4>1. Res * diff <= Res * 0
        BY <1>0, <3>1, TimesMonotone
      <4>2. Larger(0, diff) = 0
        BY <3>1 DEF Larger
      <4> QED BY <1>0, <2>1, <4>1, <4>2 DEF Larger
    <3>2. CASE diff > 0
      <4>1. Res * 0 <= Res * diff
        BY <1>0, <3>2, TimesMonotone
      <4>2. Larger(0, diff) = diff
        BY <3>2 DEF Larger
      <4> QED BY <1>0, <2>1, <4>1, <4>2 DEF Larger
    <3> QED BY <3>1, <3>2
  <2> DEFINE k == Larger(0, diff)
             r == RoundedRatio(k * range, window)
  <2>3. k \in Nat /\ range \in Nat /\ window \in Nat \ {0}
    BY <1>3 DEF Larger
  <2>4. Rise(Res * temp, comfort, emergency, range) = r
    <3>1. Rise(Res * temp, comfort, emergency, range)
            = RoundedRatio((Res * k) * range, window * Res)
      BY <2>2 DEF Rise
    <3> HIDE DEF k, range, window
    <3>2. (Res * k) * range = Res * (k * range) /\ window * Res = Res * window /\ k * range \in Int
      BY <1>0, <2>3
    <3> QED BY <1>0, <2>3, <3>1, <3>2, RoundedRatioScales
  <2>5. r \in Nat /\ CurveF(Res * temp, comfort, emergency, minFan, maxFan) = Smaller(maxFan, minFan + r)
    BY <1>0, <1>3, <2>4, CurveIs
  <2>6. CASE diff <= 0
    <3>1. CurveF(Res * temp, comfort, emergency, minFan, maxFan) = minFan
      <4>1. Res * diff <= Res * 0
        BY <1>0, <2>6, TimesMonotone
      <4> QED BY <1>0, <1>3, <2>1, <4>1 DEF CurveF
    <3>2. ProximityFloor(temp, emergency, emergency - comfort, minFan, maxFan) = minFan
      BY <1>3, <2>6 DEF ProximityFloor
    <3> QED BY <3>1, <3>2
  <2>7. CASE diff > 0
    <3>1. k = diff
      BY <2>7 DEF Larger
    <3>2. ProximityFloor(temp, emergency, emergency - comfort, minFan, maxFan)
            = Clamp(minFan + RoundedRatio(diff * range, window), minFan, maxFan)
      BY <1>1, <1>3, <2>7 DEF ProximityFloor
    <3>3. Clamp(minFan + r, minFan, maxFan) = Smaller(maxFan, minFan + r)
      <4> HIDE DEF r
      <4> QED BY <2>5 DEF Clamp, Smaller
    <3> QED BY <2>5, <3>1, <3>2, <3>3
  <2> QED BY <2>6, <2>7
<1> QED BY <1>2, <1>3

-----------------------------------------------------------------------------
\* The assist's rounded share below its threshold and its cut at the top
\* (control.go ActiveGPUAssist) for a threshold below 100.
LEMMA AssistIs ==
  ASSUME NEW own \in Int, NEW threshold \in Int, threshold <= own, threshold < 100,
         NEW minFan \in Nat, NEW maxFan \in Nat, minFan <= maxFan
  PROVE  LET n == (Smaller(own, 100) - threshold) * (maxFan - minFan)
         IN  /\ n \in Nat
             /\ RoundedRatio(n, 100 - threshold) \in Nat
             /\ ActiveGPUAssist(own, threshold, minFan, maxFan)
                  = Smaller(maxFan, minFan + RoundedRatio(n, 100 - threshold))
<1> DEFINE n == (Smaller(own, 100) - threshold) * (maxFan - minFan)
           r == RoundedRatio(n, 100 - threshold)
<1>1. n \in Nat
  <2>1. Smaller(own, 100) - threshold \in Nat /\ maxFan - minFan \in Nat
    BY DEF Smaller
  <2> QED BY <2>1, ProductNat
<1>2. r \in Nat
  <2> HIDE DEF n
  <2>1. 100 - threshold \in Nat \ {0}
    OBVIOUS
  <2> QED BY <1>1, <2>1, RoundedRatioNat
<1>3. ActiveGPUAssist(own, threshold, minFan, maxFan) = Clamp(minFan + r, minFan, maxFan)
  BY DEF ActiveGPUAssist
<1>4. Clamp(minFan + r, minFan, maxFan) = Smaller(maxFan, minFan + r)
  <2> HIDE DEF r
  <2> QED BY <1>2 DEF Clamp, Smaller
<1> QED BY <1>1, <1>2, <1>3, <1>4

\* The assist wakes at its threshold with the bottom of the fan range, never
\* falls as the card's own fan climbs, and is at the top of the range when that
\* fan is at its limit (control.go ActiveGPUAssist).
THEOREM AssistSpans ==
  ASSUME NEW own \in Int, NEW threshold \in Int, threshold <= 100,
         NEW minFan \in Nat, NEW maxFan \in Nat, minFan <= maxFan
  PROVE  /\ ActiveGPUAssist(own, threshold, minFan, maxFan)
              <= ActiveGPUAssist(own + 1, threshold, minFan, maxFan)
         /\ own >= 100 => ActiveGPUAssist(own, threshold, minFan, maxFan) = maxFan
         /\ threshold < 100 => ActiveGPUAssist(threshold, threshold, minFan, maxFan) = minFan
<1> DEFINE range == maxFan - minFan
           d     == 100 - threshold
           N(o)  == (Smaller(o, 100) - threshold) * range
           A(o)  == ActiveGPUAssist(o, threshold, minFan, maxFan)
<1>1. range \in Nat
  OBVIOUS
<1>2. CASE threshold = 100
  BY <1>2 DEF ActiveGPUAssist
<1>3. CASE threshold < 100
  <2>0. d \in Nat \ {0}
    BY <1>3
  <2>1. ASSUME threshold <= own
        PROVE  A(own) <= A(own + 1)
    <3>1. N(own) \in Nat /\ RoundedRatio(N(own), d) \in Nat
          /\ A(own) = Smaller(maxFan, minFan + RoundedRatio(N(own), d))
      BY <1>3, <2>1, AssistIs
    <3>2. threshold <= own + 1 /\ own + 1 \in Int
      BY <2>1
    <3>3. N(own + 1) \in Nat /\ RoundedRatio(N(own + 1), d) \in Nat
          /\ A(own + 1) = Smaller(maxFan, minFan + RoundedRatio(N(own + 1), d))
      BY <1>3, <3>2, AssistIs
    <3>4. N(own) <= N(own + 1)
      <4> DEFINE x == Smaller(own, 100) - threshold
                 y == Smaller(own + 1, 100) - threshold
      <4>1. x \in Int /\ y \in Int /\ x <= y
        BY DEF Smaller
      <4>2. range * x <= range * y
        <5> HIDE DEF x, y, range
        <5> QED BY <1>1, <4>1, TimesMonotone
      <4>3. range * x = x * range /\ range * y = y * range
        <5> HIDE DEF x, y, range
        <5> QED BY <1>1, <4>1
      <4> QED BY <4>2, <4>3
    <3>5. RoundedRatio(N(own), d) <= RoundedRatio(N(own + 1), d)
      <4> HIDE DEF N, d
      <4> QED BY <2>0, <3>1, <3>3, <3>4, RoundedRatioMonotone
    <3> DEFINE a == RoundedRatio(N(own), d)
               b == RoundedRatio(N(own + 1), d)
    <3>6. Smaller(maxFan, minFan + a) <= Smaller(maxFan, minFan + b)
      <4>1. a \in Nat /\ b \in Nat /\ a <= b
        BY <3>1, <3>3, <3>5
      <4> HIDE DEF a, b
      <4> QED BY <4>1 DEF Smaller
    <3> QED BY <3>1, <3>3, <3>6
  <2>2. ASSUME own < threshold
        PROVE  A(own) <= A(own + 1)
    <3>1. A(own) = 0
      BY <2>2 DEF ActiveGPUAssist
    <3>2. A(own + 1) \in 0 .. maxFan
      BY AssistRange
    <3> QED BY <3>1, <3>2
  <2>3. ASSUME own >= 100 PROVE A(own) = maxFan
    <3>1. RoundedRatio(N(own), d) \in Nat
          /\ A(own) = Smaller(maxFan, minFan + RoundedRatio(N(own), d))
      BY <1>3, <2>3, AssistIs
    <3>2. N(own) = d * range
      BY <2>3 DEF Smaller
    <3>3. RoundedRatio(d * range, d) = range
      <4> HIDE DEF d, range
      <4>1. d * range \in Int
        BY <1>1, <2>0
      <4>2. 2 * (d * range) <= 2 * (d * range) + d /\ 2 * (d * range) + d < 2 * (d * range) + 2 * d
        BY <2>0, <4>1
      <4> QED BY <1>1, <2>0, <4>1, <4>2, RoundedRatioIs
    <3>4. Smaller(maxFan, minFan + range) = maxFan
      BY DEF Smaller
    <3> QED BY <3>1, <3>2, <3>3, <3>4
  <2>4. A(threshold) = minFan
    <3>1. A(threshold) = Smaller(maxFan, minFan + RoundedRatio(N(threshold), d))
      BY <1>3, AssistIs
    <3>2. N(threshold) = 0
      BY <1>1, <1>3 DEF Smaller
    <3>3. RoundedRatio(0, d) = 0
      <4>1. 2 * (d * 0) <= 2 * 0 + d /\ 2 * 0 + d < 2 * (d * 0) + 2 * d
        BY <2>0
      <4> HIDE DEF d
      <4> QED BY <2>0, <4>1, RoundedRatioIs
    <3>4. Smaller(maxFan, minFan + 0) = minFan
      BY DEF Smaller
    <3> QED BY <3>1, <3>2, <3>3, <3>4
  <2> QED BY <2>1, <2>2, <2>3, <2>4
<1> QED BY <1>2, <1>3
=============================================================================
