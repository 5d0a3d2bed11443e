-------------------------- MODULE MCRenewalSchedule --------------------------
(***************************************************************************)
(* Checks the closed form of get_delta against the loop of the program,    *)
(* for a proxy read at any instant of its life, and what get_delta's       *)
(* comments promise of it.                                                 *)
(***************************************************************************)
EXTENDS RenewalSchedule

CONSTANTS FirstRead, LastRead, LongestLife   \* bounds of the enumeration

ASSUME BoundsAssumption ==
  FirstRead \in Nat /\ LastRead \in Nat /\ LongestLife \in Nat

VARIABLES now, end
vars == <<now, end>>

Init == now = FirstRead /\ end \in {FirstRead, FirstRead + LongestLife}

\* A proxy with one more minute to live, or the same proxy read a minute later.
Longer == end < now + LongestLife /\ end' = end + 1 /\ UNCHANGED now
Later  == now < LastRead /\ now' = now + 1 /\ UNCHANGED end
Next == Longer \/ Later

Spec == Init /\ [][Next]_vars

\* while( remaining_life < (limit + delta) ) delta *= (1.0-START_FRACTION);
LoopedDelta ==
  IF now + Limit >= end THEN 0
  ELSE LET remaining == end - now
           start == Larger(LifeToLose, Limit) - Limit
           loop[delta \in 0..start] ==
             IF remaining < Limit + delta THEN loop[delta \div 4] ELSE delta
       IN  remaining - (Limit + loop[start])

\* get_delta returns what its loop computes: the closed form used by the other
\* modules picks the margin at which the loop stops.
DeltaIsLoop == Delta(now, end) = LoopedDelta

\* get_delta: "In any case, a renewal will be scheduled to happen before the
\* lifetime limit": the renewal leaves Limit of the lifetime, or is due now.
LeavesLimit == Delta(now, end) # 0 => now + Delta(now, end) + Limit <= end

\* get_delta: "renewal should gain the jobs an extra lifetime of
\* RENEWAL_START_FRACTION ... of the new proxy's lifetime": a renewal of a proxy
\* longer than LifeToLose never throws more than that (or the limit) away.
LosesNoMore ==
  Delta(now, end) # 0 => end - (now + Delta(now, end)) <= Larger(LifeToLose, Limit)

\* Reading a proxy again before its renewal is due (check_renewal does not, but
\* every registration of the file and every forced scan does) never postpones
\* the renewal.
NeverPostponed ==
  [][now' > now /\ Delta(now, end) > 0 =>
       now' + Delta(now', end) <= now + Delta(now, end)]_vars

==============================================================================
