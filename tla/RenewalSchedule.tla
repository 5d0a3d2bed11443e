--------------------------- MODULE RenewalSchedule ---------------------------
(***************************************************************************)
(* When a proxy is renewed: get_delta and get_times of                     *)
(* org.glite.security.proxyrenewal/src/commands.c.                         *)
(*                                                                         *)
(* Times are naturals in an arbitrary unit; the constants are the          *)
(* program's own: RENEWAL_CLOCK_SKEW, RENEWAL_MIN_LIFETIME, condor_limit   *)
(* and the lifetime (1 - RENEWAL_START_FRACTION) *                         *)
(* DGPR_RETRIEVE_DEFAULT_HOURS that a renewal may throw away.              *)
(***************************************************************************)
EXTENDS Integers, FiniteSetsExt

CONSTANTS ClockSkew,    \* RENEWAL_CLOCK_SKEW
          MinLifetime,  \* RENEWAL_MIN_LIFETIME
          CondorLimit,  \* condor_limit, an option of the daemon
          LifeToLose,   \* a quarter of the lifetime asked from MyProxy
          None          \* no such file, no registration, nobody

ASSUME ScheduleAssumption ==
  /\ ClockSkew \in Nat
  /\ MinLifetime \in Nat
  /\ CondorLimit \in Nat
  /\ LifeToLose \in Nat

\* Sixteen divisions by four bring it to zero: 9000 seconds in the program.
ASSUME LifeToLoseAssumption == LifeToLose \div 4^15 < 4

(***************************************************************************)
(* A proxy file: when its first certificate ends, when the first of the    *)
(* other certificates of its chain ends, and whether it carries VOMS       *)
(* attributes.  A file that cannot be parsed is one whose chain ended at   *)
(* time 0: get_times refuses both.                                         *)
(***************************************************************************)
Proxy == [leaf : Nat, chain : Nat, voms : BOOLEAN]

MissingIsNoProxy == None \notin Proxy

ASSUME NoneAssumption == MissingIsNoProxy

Larger(a, b) == IF a > b THEN a ELSE b

\* The lifetime a proxy must still have when its renewal starts.
Limit == Larger(MinLifetime, CondorLimit) + ClockSkew

\* Faulty: the fraction to gain taken for the fraction to lose.
MarginsOfGain ==
  LET start == Larger(3 * LifeToLose, Limit) - Limit
  IN  {m \in 0..start : m = 0 \/ \E k \in 0..15 : m = start \div (4^k)}

\* Faulty: the margin halved at every turn.
MarginsHalved ==
  LET start == Larger(LifeToLose, Limit) - Limit
  IN  {m \in 0..start : m = 0 \/ \E k \in 0..15 : m = start \div (2^k)}

\* The values the loop of get_delta may leave in delta: the lifetime to lose
\* above the limit, divided by four any number of times.
Margins ==
  LET start == Larger(LifeToLose, Limit) - Limit
  IN  {m \in 0..start : m = 0 \/ \E k \in 0..15 : m = start \div (4^k)}

\* Faulty: the limit is not taken off the remaining lifetime.
DeltaWithoutLimit(now, end) ==
  IF now + Limit >= end
    THEN 0
    ELSE LET remaining == end - now
             margin    == Max({m \in Margins : Limit + m <= remaining})
         IN  remaining - margin

\* Faulty: three quarters of what remains, whatever that is.
DeltaOfRemaining(now, end) ==
  IF now + Limit >= end THEN 0 ELSE (3 * (end - now)) \div 4

\* get_delta: how long to wait before the renewal of a proxy ending at `end`.
Delta(now, end) ==
  IF now + Limit >= end
    THEN 0
    ELSE LET remaining == end - now
             margin    == Max({m \in Margins : Limit + m <= remaining})
         IN  remaining - (Limit + margin)

\* get_times succeeds: the file is there and none of its certificates has
\* ended, give or take the clock skew.
Usable(p, now) ==
  /\ p # None
  /\ p.leaf + ClockSkew >= now
  /\ p.chain + ClockSkew >= now

==============================================================================
