------------------------ MODULE RenewalSchedule_proofs ------------------------
(***************************************************************************)
(* What get_delta promises, for every value of the daemon's parameters.    *)
(***************************************************************************)
EXTENDS RenewalSchedule, WellFoundedInduction, TLAPS

\* A set of naturals that is not empty has a least element, which Min returns.
LEMMA MinOfNaturals ==
  ASSUME NEW S \in SUBSET Nat, S # {}
  PROVE  Min(S) \in S /\ \A y \in S : Min(S) <= y
<1>1. IsWellFoundedOn({ss \in Nat \X Nat : ss[1] < ss[2]}, Nat)
  BY NatLessThanWellFounded DEF OpToRel
<1>2. PICK x \in S :
        \A y \in S : ~(<<y, x>> \in {ss \in Nat \X Nat : ss[1] < ss[2]})
  BY <1>1, WFMin
<1>3. ASSUME NEW y \in S
      PROVE  x <= y
  <2>1. <<y, x>> \in Nat \X Nat /\ <<y, x>>[1] = y /\ <<y, x>>[2] = x
    OBVIOUS
  <2>2. ~(y < x)
    BY <1>2, <2>1
  <2> QED
    BY <2>2
<1> QED
  BY <1>3 DEF Min

\* So has a set of integers that is bounded from above a greatest one.
LEMMA MaxOfIntegers ==
  ASSUME NEW S \in SUBSET Int, S # {}, NEW b \in Int, \A x \in S : x <= b
  PROVE  Max(S) \in S /\ \A y \in S : Max(S) >= y
<1> DEFINE T == {b - x : x \in S}
<1>1. T \in SUBSET Nat
  <2> SUFFICES ASSUME NEW t \in T PROVE t \in Nat
    OBVIOUS
  <2>1. PICK x \in S : t = b - x
    OBVIOUS
  <2>2. x \in Int /\ x <= b
    OBVIOUS
  <2> QED
    BY <2>1, <2>2
<1>0. T # {}
  OBVIOUS
<1> HIDE DEF T
<1>2. Min(T) \in T /\ \A y \in T : Min(T) <= y
  BY <1>1, <1>0, MinOfNaturals
<1>3. PICK x \in S : Min(T) = b - x
  BY <1>2 DEF T
<1>4. \A y \in S : x >= y
  <2> SUFFICES ASSUME NEW y \in S PROVE x >= y
    OBVIOUS
  <2>1. Min(T) <= b - y
    BY <1>2 DEF T
  <2> QED
    BY <1>3, <2>1
<1> QED
  BY <1>4 DEF Max

\* The remaining lifetime that get_delta aims at is a natural.
LEMMA LimitIsNatural == Limit \in Nat
BY ScheduleAssumption DEF Limit, Larger

\* The margins of get_delta are naturals, and zero is among them.
LEMMA MarginsAreNatural == Margins \subseteq Nat /\ 0 \in Margins
<1>1. Larger(LifeToLose, Limit) - Limit \in Nat
  BY LimitIsNatural, ScheduleAssumption DEF Larger
<1> QED
  BY <1>1 DEF Margins

\* So the loop of get_delta always ends with a margin that fits into the
\* remaining lifetime, the largest that does.
LEMMA LargestMargin ==
  ASSUME NEW now \in Nat, NEW end \in Nat, ~(now + Limit >= end)
  PROVE  \E m \in Margins :
           /\ Delta(now, end) = (end - now) - (Limit + m)
           /\ Limit + m <= end - now
           /\ \A k \in Margins : Limit + k <= end - now => k <= m
<1> DEFINE remaining == end - now
           fit == {m \in Margins : Limit + m <= remaining}
<1>1. remaining \in Nat /\ Limit <= remaining
  BY LimitIsNatural
<1>2. 0 \in fit
  BY <1>1, MarginsAreNatural, LimitIsNatural
<1>3. \A m \in fit : m \in Int /\ m <= remaining
  <2> SUFFICES ASSUME NEW m \in fit PROVE m \in Int /\ m <= remaining
    OBVIOUS
  <2>1. m \in Nat /\ Limit + m <= remaining
    BY MarginsAreNatural
  <2> QED
    BY <2>1, LimitIsNatural
<1>4. Delta(now, end) = remaining - (Limit + Max(fit))
  BY DEF Delta
<1>5. fit \in SUBSET Int /\ fit # {} /\ \A m \in fit : m <= remaining
  BY <1>2, <1>3
<1>6. PICK m \in fit : m = Max(fit) /\ \A k \in fit : m >= k
  <2>1. remaining \in Int
    OBVIOUS
  <2> HIDE DEF fit, remaining
  <2> QED
    BY <1>5, <2>1, MaxOfIntegers
<1>7. m \in Margins /\ m \in Nat /\ Limit + m <= remaining
  BY <1>6, MarginsAreNatural
<1>8. \A k \in Margins : Limit + k <= remaining => k <= m
  BY <1>6, <1>7, MarginsAreNatural
<1> HIDE DEF fit
<1> QED
  BY <1>4, <1>6, <1>7, <1>8

\* get_delta: "In any case, a renewal will be scheduled to happen before the
\* lifetime limit": the wait it returns is a natural and leaves the limit.
THEOREM DeltaLeavesLimit ==
  ASSUME NEW now \in Nat, NEW end \in Nat
  PROVE  /\ Delta(now, end) \in Nat
         /\ Delta(now, end) # 0 => now + Delta(now, end) + Limit <= end
<1>1. CASE now + Limit >= end
  BY <1>1 DEF Delta
<1>2. CASE ~(now + Limit >= end)
  <2>1. PICK m \in Margins : /\ Delta(now, end) = (end - now) - (Limit + m)
                             /\ Limit + m <= end - now
    BY <1>2, LargestMargin
  <2> QED
    BY <2>1, LimitIsNatural, MarginsAreNatural
<1> QED
  BY <1>1, <1>2

\* get_delta: "renewal should gain the jobs an extra lifetime of
\* RENEWAL_START_FRACTION ... of the new proxy's lifetime": the lifetime that
\* is thrown away is at most LifeToLose, or the limit where that is longer.
THEOREM DeltaLosesNoMore ==
  ASSUME NEW now \in Nat, NEW end \in Nat, Delta(now, end) # 0
  PROVE  end - (now + Delta(now, end)) <= Larger(LifeToLose, Limit)
<1>1. ~(now + Limit >= end)
  BY DEF Delta
<1>2. PICK m \in Margins : Delta(now, end) = (end - now) - (Limit + m)
  BY <1>1, LargestMargin
<1>3. m \in Nat /\ Limit + m <= Larger(LifeToLose, Limit)
  BY LimitIsNatural, ScheduleAssumption DEF Margins, Larger
<1>4. Larger(LifeToLose, Limit) \in Nat
  BY LimitIsNatural, ScheduleAssumption DEF Larger
<1> QED
  BY <1>2, <1>3, <1>4, LimitIsNatural

\* A proxy read again before its renewal is due is scheduled for the same
\* instant: registrations and forced scans cannot postpone a renewal.
THEOREM DeltaNotPostponed ==
  ASSUME NEW end \in Nat, NEW t \in Nat, NEW u \in Nat,
         t <= u, u < t + Delta(t, end)
  PROVE  u + Delta(u, end) = t + Delta(t, end)
<1>1. ~(t + Limit >= end)
  BY DEF Delta
<1>2. PICK m \in Margins :
        /\ Delta(t, end) = (end - t) - (Limit + m)
        /\ \A k \in Margins : Limit + k <= end - t => k <= m
  BY <1>1, LargestMargin
<1>3. m \in Nat /\ Limit + m < end - u
  BY <1>2, LimitIsNatural, MarginsAreNatural
<1>4. ~(u + Limit >= end)
  BY <1>3, LimitIsNatural
<1>5. PICK n \in Margins :
        /\ Delta(u, end) = (end - u) - (Limit + n)
        /\ Limit + n <= end - u
        /\ \A k \in Margins : Limit + k <= end - u => k <= n
  BY <1>4, LargestMargin
<1>6. n \in Nat /\ m <= n
  BY <1>3, <1>5, LimitIsNatural, MarginsAreNatural
<1>7. n <= m
  BY <1>2, <1>5, <1>6, LimitIsNatural
<1> QED
  BY <1>2, <1>3, <1>5, <1>6, <1>7, LimitIsNatural

\* The renewal is due when it was said to be.
LEMMA DeltaDueNext ==
  ASSUME NEW now \in Nat, NEW end \in Nat, Delta(now, end) = 1
  PROVE  Delta(now + 1, end) = 0
<1>1. ~(now + Limit >= end)
  BY DEF Delta
<1>2. PICK m \in Margins :
        /\ Delta(now, end) = (end - now) - (Limit + m)
        /\ \A k \in Margins : Limit + k <= end - now => k <= m
  BY <1>1, LargestMargin
<1>3. m \in Nat /\ end - (now + 1) = Limit + m
  BY <1>2, LimitIsNatural, MarginsAreNatural
<1>4. CASE (now + 1) + Limit >= end
  BY <1>4 DEF Delta
<1>5. CASE ~((now + 1) + Limit >= end)
  <2>1. PICK n \in Margins :
          /\ Delta(now + 1, end) = (end - (now + 1)) - (Limit + n)
          /\ Limit + n <= end - (now + 1)
          /\ \A k \in Margins : Limit + k <= end - (now + 1) => k <= n
    BY <1>5, LargestMargin
  <2>2. n \in Nat /\ m <= n
    BY <1>3, <2>1, LimitIsNatural, MarginsAreNatural
  <2> QED
    BY <1>3, <2>1, <2>2, LimitIsNatural
<1> QED
  BY <1>4, <1>5

==============================================================================
