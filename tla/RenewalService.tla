----------------------------- MODULE RenewalService -----------------------------
(***************************************************************************)
(* What the renewal daemon promises its clients, without watchdogs, files, *)
(* requests and processes: a job that registers gets a proxy to itself or  *)
(* joins the jobs of one that may be shared and lasts; it keeps that proxy,*)
(* whose end changes as it is renewed, until its client unregisters it or  *)
(* the proxy has expired.                                                  *)
(***************************************************************************)
EXTENDS Integers, Sequences

CONSTANTS Jobs,
          Subjects, Suffixes,   \* the proxies' names
          MaxProxies,           \* the jobs one proxy may have
          CondorLimit,          \* the life a proxy must have left to be shared
          ClockSkew,
          None                  \* not registered

VARIABLES now,
          proxy,       \* proxy[d][s]: its jobs, where and how it is renewed, its end
          registered   \* what a job's client was told

svars == <<now, proxy, registered>>

Unused == [jobs |-> <<>>, server |-> None, voms |-> FALSE, end |-> 0]

Init == /\ now \in Nat
        /\ proxy = [d \in Subjects |-> [s \in Suffixes |-> Unused]]
        /\ registered = [j \in Jobs |-> None]

\* The client of j is told the proxy it has now.
Told(j, d, s) ==
  registered' = [registered EXCEPT ![j] =
                   [subject |-> d, suffix |-> s, server |-> proxy'[d][s].server,
                    voms |-> proxy'[d][s].voms]]

\* A proxy for j alone, which has not expired.
Own(j, d, s) ==
  /\ proxy[d][s] = Unused
  /\ proxy' = [proxy EXCEPT ![d][s] = proxy'[d][s]]
  /\ proxy'[d][s].jobs = <<j>>
  /\ proxy'[d][s].end + ClockSkew >= now
  /\ Told(j, d, s)
  /\ UNCHANGED now

\* j shares a proxy with others, while that may be and the proxy lasts.
Join(j, d, s) ==
  /\ Len(proxy[d][s].jobs) \in 1..(MaxProxies - 1)
  /\ ~proxy[d][s].voms
  /\ proxy[d][s].end >= now + CondorLimit + ClockSkew
  /\ proxy' = [proxy EXCEPT ![d][s].jobs = Append(@, j)]
  /\ Told(j, d, s)
  /\ UNCHANGED now

Without(jobs, k) == SubSeq(jobs, 1, k - 1) \o SubSeq(jobs, k + 1, Len(jobs))

\* j leaves its proxy to the others; the last job takes it along.
Leave(j, d, s) ==
  /\ \E k \in DOMAIN proxy[d][s].jobs :
       LET rest == Without(proxy[d][s].jobs, k)
       IN  /\ proxy[d][s].jobs[k] = j
           /\ proxy' = [proxy EXCEPT ![d][s] = IF rest = <<>> THEN Unused
                                               ELSE [@ EXCEPT !.jobs = rest]]
  /\ registered' = [registered EXCEPT ![j] = None]
  /\ UNCHANGED now

\* The proxy p as it becomes q when it has expired, or has been renewed.
Expires(p, q) == p.end < now /\ q = Unused

Renewed(p, q) == /\ p # Unused
                 /\ q = [p EXCEPT !.end = q.end]
                 /\ q.end + ClockSkew >= now

\* Any of the proxies of one subject expire or are renewed; the jobs of those
\* that expire are not registered any more.
Update(d) ==
  LET old == proxy[d]
      new == proxy'[d]
  IN  /\ \A s \in Suffixes :
           new[s] = old[s] \/ Expires(old[s], new[s]) \/ Renewed(old[s], new[s])
      /\ registered' = [j \in Jobs |->
                          IF /\ registered[j] # None
                             /\ registered[j].subject = d
                             /\ new[registered[j].suffix] = Unused
                            THEN None ELSE registered[j]]
      /\ proxy' = [proxy EXCEPT ![d] = new]
      /\ UNCHANGED now

Tick == now' > now /\ UNCHANGED <<proxy, registered>>

Next ==
  \/ Tick
  \/ \E d \in Subjects : \/ Update(d)
                         \/ \E j \in Jobs, s \in Suffixes :
                              Own(j, d, s) \/ Join(j, d, s) \/ Leave(j, d, s)

Spec == Init /\ [][Next]_svars
===============================================================================
