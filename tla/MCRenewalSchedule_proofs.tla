---------------------- MODULE MCRenewalSchedule_proofs ----------------------
(***************************************************************************)
(* The loop of get_delta ends with the margin that the closed form of the  *)
(* other modules picks, and keeps its promises, for every proxy and every  *)
(* value of the daemon's parameters.                                       *)
(***************************************************************************)
EXTENDS MCRenewalSchedule, RenewalSchedule_proofs

-------------------------------------------------------------------------------
(* The loop.                                                               *)

\* Powers of four, as far as the margins go.
LEMMA PowersOfFour ==
  ASSUME NEW k \in 0..15
  PROVE  4^k \in Nat \ {0} /\ (k < 15 => 4^(k + 1) = 4 * 4^k)
<1>0. CASE k = 0
  BY <1>0, SMT
<1>1. CASE k = 1
  BY <1>1, SMT
<1>2. CASE k = 2
  BY <1>2, SMT
<1>3. CASE k = 3
  BY <1>3, SMT
<1>4. CASE k = 4
  BY <1>4, SMT
<1>5. CASE k = 5
  BY <1>5, SMT
<1>6. CASE k = 6
  BY <1>6, SMT
<1>7. CASE k = 7
  BY <1>7, SMT
<1>8. CASE k = 8
  BY <1>8, SMT
<1>9. CASE k = 9
  BY <1>9, SMT
<1>10. CASE k = 10
  BY <1>10, SMT
<1>11. CASE k = 11
  BY <1>11, SMT
<1>12. CASE k = 12
  BY <1>12, SMT
<1>13. CASE k = 13
  BY <1>13, SMT
<1>14. CASE k = 14
  BY <1>14, SMT
<1>15. CASE k = 15
  BY <1>15, SMT
<1> QED
  BY <1>0, <1>1, <1>2, <1>3, <1>4, <1>5, <1>6, <1>7, <1>8, <1>9, <1>10, <1>11,
     <1>12, <1>13, <1>14, <1>15

\* What is left of a lifetime after k turns of the loop.
Quarter(start, k) == start \div 4^k

\* Each turn divides by four; the sixteenth leaves nothing of LifeToLose.
LEMMA QuarterTurns ==
  ASSUME NEW start \in Nat
  PROVE  /\ Quarter(start, 0) = start
         /\ \A k \in 0..15 : Quarter(start, k) \in 0..start
         /\ \A k \in 0..14 : Quarter(start, k + 1) = Quarter(start, k) \div 4
         /\ start <= LifeToLose => Quarter(start, 15) \div 4 = 0
<1>1. Quarter(start, 0) = start
  BY DEF Quarter
<1>2. \A m, p \in Nat : p # 0 => (m \div p) \div 4 = m \div (4 * p) /\ m \div p \in 0..m
  OBVIOUS
<1>3. ASSUME NEW k \in 0..14
      PROVE  /\ Quarter(start, k + 1) = Quarter(start, k) \div 4
             /\ Quarter(start, k) \in 0..start
  <2>1. k \in 0..15 /\ k < 15
    OBVIOUS
  <2>2. 4^k \in Nat \ {0} /\ 4^(k + 1) = 4 * 4^k
    BY <2>1, PowersOfFour
  <2> QED
    BY <1>2, <2>2 DEF Quarter
<1>4. 4^15 \in Nat \ {0}
  BY PowersOfFour
<1>6. Quarter(start, 15) \in 0..start
  BY <1>2, <1>4 DEF Quarter
<1>7. start <= LifeToLose => Quarter(start, 15) \div 4 = 0
  <2> SUFFICES ASSUME start <= LifeToLose PROVE Quarter(start, 15) \div 4 = 0
    OBVIOUS
  <2>1. \A m, n, p \in Nat : p # 0 /\ m <= n => m \div p <= n \div p
    OBVIOUS
  <2>2. start \div 4^15 <= LifeToLose \div 4^15
    BY <1>4, <2>1, ScheduleAssumption
  <2>3. Quarter(start, 15) \in 0..3
    BY <1>4, <1>6, <2>2, ScheduleAssumption, LifeToLoseAssumption DEF Quarter
  <2> QED
    BY <2>3
<1>5. \A k \in 0..15 : k \in 0..14 \/ k = 15
  OBVIOUS
<1> QED
  BY <1>1, <1>3, <1>5, <1>6, <1>7

\* More turns leave no more.
LEMMA QuartersShrink ==
  ASSUME NEW start \in Nat, NEW k \in 0..15, NEW n \in 0..15, k <= n
  PROVE  Quarter(start, n) <= Quarter(start, k)
<1> DEFINE S == {i \in k..15 : ~(Quarter(start, i) <= Quarter(start, k))}
<1>0. \A j \in 0..15 : Quarter(start, j) \in 0..start
  BY QuarterTurns
<1>1. S \in SUBSET Nat
  OBVIOUS
<1>2. ASSUME S # {} PROVE FALSE
  <2> HIDE DEF S
  <2>1. Min(S) \in S /\ \A i \in S : Min(S) <= i
    BY <1>1, <1>2, MinOfNaturals
  <2>2. PICK i \in S : \A j \in S : i <= j
    BY <2>1
  <2>3. i \in k..15 /\ ~(Quarter(start, i) <= Quarter(start, k))
    BY <2>2 DEF S
  <2>4. i # k /\ i - 1 \in k..15 /\ i - 1 \in 0..14 /\ i - 1 \in 0..15
    <3>1. i # k
      BY <1>0, <2>3
    <3> QED
      BY <2>3, <3>1
  <2>5. Quarter(start, i - 1) <= Quarter(start, k)
    <3>1. i - 1 \notin S
      BY <2>2, <2>3
    <3> QED
      BY <2>4, <3>1 DEF S
  <2>6. Quarter(start, (i - 1) + 1) = Quarter(start, i - 1) \div 4
    BY <2>4, QuarterTurns
  <2>7. Quarter(start, i - 1) \in 0..start /\ Quarter(start, k) \in 0..start
    BY <1>0, <2>4
  <2>8. (i - 1) + 1 = i
    BY <2>3
  <2>9. Quarter(start, i - 1) \div 4 <= Quarter(start, i - 1)
    BY <2>7
  <2>10. Quarter(start, i) <= Quarter(start, k)
    BY <2>5, <2>6, <2>7, <2>8, <2>9
  <2> QED
    BY <2>3, <2>10
<1>3. n \in k..15
  OBVIOUS
<1> QED
  BY <1>2, <1>3

\* A recursive definition says what it seems to: there is a function that does
\* at each delta what the loop does.
LEMMA LoopIsDefined ==
  ASSUME NEW start \in Nat, NEW remaining \in Nat, Limit <= remaining
  PROVE  \E f : f = [delta \in 0..start |->
                       IF remaining < Limit + delta THEN f[delta \div 4] ELSE delta]
<1> DEFINE Turns(f, n) ==
             f = [delta \in 0..n |->
                    IF remaining < Limit + delta THEN f[delta \div 4] ELSE delta]
           S == {n \in 0..start : ~\E f : Turns(f, n)}
<1>1. S \in SUBSET Nat
  OBVIOUS
<1>2. ASSUME S # {} PROVE FALSE
  <2>1. PICK n \in S : \A j \in S : n <= j
    <3> HIDE DEF S
    <3> QED
      BY <1>1, <1>2, MinOfNaturals
  <2>2. n \in 0..start /\ \A f : ~Turns(f, n)
    OBVIOUS
  <2>3. n # 0
    <3>1. Turns([delta \in 0..0 |-> delta], 0)
      BY LimitIsNatural
    <3> HIDE DEF Turns
    <3> QED
      BY <2>2, <3>1
  <2>4. PICK g : Turns(g, n - 1)
    <3>1. n - 1 \in 0..start /\ n - 1 \notin S
      BY <2>1, <2>2, <2>3
    <3> QED
      BY <3>1
  <2> DEFINE h == [delta \in 0..n |->
                     IF delta # n THEN g[delta]
                     ELSE IF remaining < Limit + n THEN g[n \div 4] ELSE n]
  <2>5. \A delta \in 0..(n - 1) :
          g[delta] = IF remaining < Limit + delta THEN g[delta \div 4] ELSE delta
    BY <2>4
  <2>6. \A delta \in 0..n : delta # 0 => delta \div 4 \in 0..n /\ delta \div 4 # n
    BY <2>2
  <2>7. \A delta \in 0..n :
          h[delta] = IF remaining < Limit + delta THEN h[delta \div 4] ELSE delta
    <3> SUFFICES ASSUME NEW delta \in 0..n
                 PROVE  h[delta] = IF remaining < Limit + delta THEN h[delta \div 4]
                                   ELSE delta
      OBVIOUS
    <3>1. CASE remaining < Limit + delta
      <4>1. delta # 0
        BY <3>1, LimitIsNatural
      <4>2. delta \div 4 \in 0..n /\ delta \div 4 # n
        BY <2>6, <4>1
      <4>3. h[delta \div 4] = g[delta \div 4]
        BY <4>2
      <4>4. h[delta] = g[delta \div 4]
        <5>1. CASE delta = n
          BY <3>1, <5>1
        <5>2. CASE delta # n
          <6>1. delta \in 0..(n - 1)
            BY <2>2, <5>2
          <6> QED
            BY <2>5, <3>1, <5>2, <6>1
        <5> QED
          BY <5>1, <5>2
      <4> QED
        BY <3>1, <4>3, <4>4
    <3>2. CASE ~(remaining < Limit + delta)
      <4>1. CASE delta = n
        BY <3>2, <4>1
      <4>2. CASE delta # n
        <5>1. delta \in 0..(n - 1)
          BY <2>2, <4>2
        <5> QED
          BY <2>5, <3>2, <4>2, <5>1
      <4> QED
        BY <4>1, <4>2
    <3> QED
      BY <3>1, <3>2
  <2>8. Turns(h, n)
    <3>1. h = [delta \in 0..n |-> h[delta]]
      OBVIOUS
    <3> HIDE DEF h
    <3> QED
      BY <2>7, <3>1
  <2> HIDE DEF Turns, h
  <2> QED
    BY <2>2, <2>8
<1>3. start \in 0..start /\ start \notin S
  BY <1>2
<1> QED
  BY <1>3

\* The loop ends with the largest margin that fits into the remaining lifetime.
LEMMA LoopFindsMargin ==
  ASSUME NEW remaining \in Nat, Limit <= remaining,
         NEW start, start = Larger(LifeToLose, Limit) - Limit,
         NEW loop,
         loop = [delta \in 0..start |->
                   IF remaining < Limit + delta THEN loop[delta \div 4] ELSE delta]
  PROVE  /\ loop[start] \in Margins
         /\ Limit + loop[start] <= remaining
         /\ \A m \in Margins : Limit + m <= remaining => m <= loop[start]
<1>1. start \in Nat /\ start <= LifeToLose
  BY LimitIsNatural, ScheduleAssumption DEF Larger
<1>2. \A delta \in 0..start :
        loop[delta] = IF remaining < Limit + delta THEN loop[delta \div 4] ELSE delta
  OBVIOUS
<1>3. \A m : m \in Margins <=> m \in 0..start /\ (m = 0 \/ \E k \in 0..15 : m = Quarter(start, k))
  BY DEF Margins, Quarter
<1> DEFINE fits == {k \in 0..15 : Limit + Quarter(start, k) <= remaining}
\* As long as nothing fits the loop turns.
<1>4. ASSUME NEW K \in 0..15, \A k \in 0..15 : k < K => k \notin fits
      PROVE  loop[start] = loop[Quarter(start, K)]
  <2> DEFINE S == {k \in 0..K : loop[start] # loop[Quarter(start, k)]}
  <2>1. S \in SUBSET Nat
    OBVIOUS
  <2>2. ASSUME S # {} PROVE FALSE
    <3>1. PICK k \in S : \A j \in S : k <= j
      <4> HIDE DEF S
      <4> QED
        BY <2>1, <2>2, MinOfNaturals
    <3>2. k \in 0..K /\ loop[start] # loop[Quarter(start, k)]
      BY <3>1
    <3>3. k - 1 \in 0..14 /\ k - 1 < K
      <4>1. k # 0
        BY <1>1, <3>2, QuarterTurns
      <4>2. K \in 0..15 /\ k \in 0..K
        BY <3>2
      <4> HIDE DEF S, fits
      <4> QED
        BY <4>1, <4>2, SMTT(30)
    <3>4. loop[start] = loop[Quarter(start, k - 1)]
      <4>1. k - 1 \in 0..K
        <5> HIDE DEF S, fits
        <5> QED
          BY <3>3, SMTT(30)
      <4>2. k - 1 \notin S
        <5>1. ~(k <= k - 1)
          BY <3>2
        <5> HIDE DEF S
        <5> QED
          BY <3>1, <5>1
      <4> QED
        BY <4>1, <4>2
    <3>5. k - 1 \in 0..15 /\ k - 1 \notin fits
      BY <1>4, <3>3
    <3>6. Quarter(start, k - 1) \in 0..start
      BY <1>1, <3>5, QuarterTurns
    <3>7. ~(Limit + Quarter(start, k - 1) <= remaining)
      BY <3>5
    <3>8. remaining < Limit + Quarter(start, k - 1)
      BY <3>6, <3>7, LimitIsNatural
    <3>9. loop[Quarter(start, k - 1)] = loop[Quarter(start, k - 1) \div 4]
      BY <1>2, <3>6, <3>8
    <3>10. Quarter(start, (k - 1) + 1) = Quarter(start, k - 1) \div 4 /\ (k - 1) + 1 = k
      <4>1. (k - 1) + 1 = k
        BY <3>2
      <4> QED
        BY <1>1, <3>3, <4>1, QuarterTurns
    <3> QED
      BY <3>2, <3>4, <3>9, <3>10
  <2>3. K \in 0..K
    OBVIOUS
  <2>4. K \notin S
    BY <2>2
  <2> QED
    BY <2>3, <2>4
<1>5. CASE fits # {}
  <2>1. PICK K \in fits : \A k \in fits : K <= k
    <3>1. fits \in SUBSET Nat
      OBVIOUS
    <3> HIDE DEF fits
    <3> QED
      BY <1>5, <3>1, MinOfNaturals
  <2>2. K \in 0..15 /\ Limit + Quarter(start, K) <= remaining
    BY <2>1
  <2>3. \A k \in 0..15 : k < K => k \notin fits
    BY <2>1, <2>2
  <2>4. loop[start] = loop[Quarter(start, K)]
    BY <1>4, <2>2, <2>3
  <2>5. Quarter(start, K) \in 0..start
    BY <1>1, <2>2, QuarterTurns
  <2>6. ~(remaining < Limit + Quarter(start, K))
    BY <2>2, <2>5, LimitIsNatural
  <2>7. loop[start] = Quarter(start, K)
    BY <1>2, <2>4, <2>5, <2>6
  <2>8. ASSUME NEW m \in Margins, Limit + m <= remaining
        PROVE  m <= Quarter(start, K)
    <3>1. CASE m = 0
      BY <2>5, <3>1
    <3>2. CASE \E k \in 0..15 : m = Quarter(start, k)
      <4>1. PICK k \in 0..15 : m = Quarter(start, k)
        BY <3>2
      <4>2. K <= k
        BY <2>1, <2>8, <4>1
      <4> QED
        BY <1>1, <2>2, <4>1, <4>2, QuartersShrink
    <3> QED
      BY <1>3, <3>1, <3>2
  <2> QED
    BY <1>3, <2>2, <2>5, <2>7, <2>8
<1>6. CASE fits = {}
  <2>1. loop[start] = loop[Quarter(start, 15)]
    BY <1>4, <1>6, SMTT(30)
  <2>2. Quarter(start, 15) \in 0..start /\ Quarter(start, 15) \div 4 = 0
    BY <1>1, QuarterTurns
  <2>3. 15 \in 0..15 /\ 15 \notin fits
    BY <1>6
  <2>4. ~(Limit + Quarter(start, 15) <= remaining)
    BY <2>3
  <2>5. remaining < Limit + Quarter(start, 15)
    BY <2>2, <2>4, LimitIsNatural
  <2>6. loop[Quarter(start, 15)] = loop[0]
    BY <1>2, <2>2, <2>5
  <2>7. loop[0] = 0
    BY <1>1, <1>2, LimitIsNatural
  <2>8. ASSUME NEW m \in Margins, Limit + m <= remaining PROVE m <= 0
    <3>1. ~\E k \in 0..15 : m = Quarter(start, k)
      BY <1>6, <2>8
    <3> QED
      BY <1>3, <3>1
  <2>9. loop[start] = 0
    BY <2>1, <2>6, <2>7
  <2>10. 0 \in Margins /\ Limit + 0 <= remaining
    BY LimitIsNatural, MarginsAreNatural
  <2> QED
    BY <2>8, <2>9, <2>10
<1> QED
  BY <1>5, <1>6

-------------------------------------------------------------------------------
(* The schedule of a proxy, at every reading.                              *)

Readings == now \in Nat /\ end \in Nat

LEMMA ReadingsAreTimes == Spec => []Readings
<1>1. Init => Readings
  BY BoundsAssumption DEF Init, Readings
<1>2. Readings /\ [Next]_vars => Readings'
  BY DEF Readings, Next, Longer, Later, vars
<1> QED
  BY <1>1, <1>2, PTL DEF Spec

\* get_delta's loop ends, and with the margin the other modules take: their
\* closed form is the program's loop, for every proxy and all parameters.
THEOREM LoopIsClosedForm == Spec => []DeltaIsLoop
<1>1. ASSUME Readings PROVE DeltaIsLoop
  <2>0. now \in Nat /\ end \in Nat
    BY <1>1 DEF Readings
  <2>1. CASE now + Limit >= end
    BY <2>1 DEF DeltaIsLoop, LoopedDelta, Delta
  <2>2. CASE ~(now + Limit >= end)
    <3> DEFINE remaining == end - now
               start == Larger(LifeToLose, Limit) - Limit
               loop[delta \in 0..start] ==
                 IF remaining < Limit + delta THEN loop[delta \div 4] ELSE delta
    <3>1. remaining \in Nat /\ Limit <= remaining /\ start \in Nat
      BY <2>0, <2>2, LimitIsNatural, ScheduleAssumption DEF Larger
    <3>2. LoopedDelta = remaining - (Limit + loop[start])
      BY <2>2 DEF LoopedDelta
    <3>3. \E f : f = [delta \in 0..start |->
                        IF remaining < Limit + delta THEN f[delta \div 4] ELSE delta]
      <4> HIDE DEF remaining, start
      <4> QED
        BY <3>1, LoopIsDefined
    <3>4. loop = [delta \in 0..start |->
                    IF remaining < Limit + delta THEN loop[delta \div 4] ELSE delta]
      <4> HIDE DEF remaining, start
      <4> QED
        BY <3>3
    <3> HIDE DEF loop
    <3>5. /\ loop[start] \in Margins
          /\ Limit + loop[start] <= remaining
          /\ \A m \in Margins : Limit + m <= remaining => m <= loop[start]
      <4>1. start = Larger(LifeToLose, Limit) - Limit
        OBVIOUS
      <4> HIDE DEF remaining, start
      <4> QED
        BY <3>1, <3>4, <4>1, LoopFindsMargin
    <3>6. PICK m \in Margins :
            /\ Delta(now, end) = (end - now) - (Limit + m)
            /\ Limit + m <= end - now
            /\ \A k \in Margins : Limit + k <= end - now => k <= m
      BY <2>0, <2>2, LargestMargin
    <3>7. m \in Nat /\ loop[start] \in Nat
      BY <3>5, MarginsAreNatural
    <3>8. m <= loop[start] /\ loop[start] <= m
      BY <3>5, <3>6
    <3>9. m = loop[start]
      <4> HIDE DEF start
      <4> QED
        BY <3>7, <3>8
    <3> QED
      BY <3>2, <3>6, <3>9 DEF DeltaIsLoop
  <2> QED
    BY <2>1, <2>2
<1> QED
  BY <1>1, ReadingsAreTimes, PTL

\* A renewal leaves the limit of the lifetime, or is due now (get_delta: "In any
\* case, a renewal will be scheduled to happen before the lifetime limit").
THEOREM RenewalLeavesLimit == Spec => []LeavesLimit
<1>1. Readings => LeavesLimit
  BY DeltaLeavesLimit DEF Readings, LeavesLimit
<1> QED
  BY <1>1, ReadingsAreTimes, PTL

\* A renewal throws away no more than get_delta's comment says.
THEOREM RenewalLosesNoMore == Spec => []LosesNoMore
<1>1. Readings => LosesNoMore
  BY DeltaLosesNoMore DEF Readings, LosesNoMore
<1> QED
  BY <1>1, ReadingsAreTimes, PTL

\* Reading a proxy again, while its renewal is still to come or just when it
\* becomes due, never postpones the renewal.
THEOREM RenewalNotPostponed == Spec => NeverPostponed
<1> DEFINE Kept == now' > now /\ Delta(now, end) > 0 =>
                     now' + Delta(now', end) <= now + Delta(now, end)
<1>1. ASSUME Readings, Readings', Next PROVE Kept
  <2> SUFFICES ASSUME now' > now, Delta(now, end) > 0
               PROVE  now' + Delta(now', end) <= now + Delta(now, end)
    OBVIOUS
  <2>1. now \in Nat /\ end \in Nat /\ now' = now + 1
    BY <1>1 DEF Readings, Next, Longer, Later
  <2>2. now + 1 \in Nat /\ Delta(now, end) \in Nat
    BY <2>1, DeltaLeavesLimit
  <2>3. CASE now + 1 < now + Delta(now, end)
    <3>1. (now + 1) + Delta(now + 1, end) = now + Delta(now, end)
      BY <2>1, <2>3, DeltaNotPostponed
    <3> QED
      BY <2>1, <2>2, <3>1
  <2>4. CASE ~(now + 1 < now + Delta(now, end))
    <3>1. Delta(now, end) = 1
      BY <2>1, <2>2, <2>4
    <3>2. Delta(now + 1, end) = 0
      BY <2>1, <3>1, DeltaDueNext
    <3> QED
      BY <2>1, <3>1, <3>2
  <2> QED
    BY <2>3, <2>4
<1>2. Readings /\ Readings' /\ [Next]_vars => [Kept]_vars
  BY <1>1
<1> QED
  BY <1>2, ReadingsAreTimes, PTL DEF Spec, NeverPostponed

===============================================================================
