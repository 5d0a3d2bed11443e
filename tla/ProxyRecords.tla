----------------------------- MODULE ProxyRecords -----------------------------
(***************************************************************************)
(* The repository file of one certificate subject, <md5>.data: a sequence  *)
(* of records, each describing one proxy file <md5>.<suffix> and the jobs  *)
(* that share it, and the operations of commands.c on such a sequence.     *)
(*                                                                         *)
(* The field `unique` of the program's record is left out: no client can   *)
(* set it (decode_request skips the token), so it is 0 everywhere.         *)
(***************************************************************************)
EXTENDS RenewalSchedule, Sequences

CONSTANTS Jobs,        \* job identifiers
          Servers,     \* MyProxy servers
          MaxProxies   \* MAX_PROXIES, jobs sharing one proxy

ASSUME RecordsAssumption == MaxProxies \in Nat \ {0}

Record == [suffix : Nat, jobs : Seq(Jobs), voms : BOOLEAN, server : Servers,
           next : Nat, end : Nat]

\* One line of an UPDATE_DB request: "suffix:file" when the proxy was renewed
\* into a temporary file, "suffix:" when it was not.  `tmp` is the content of
\* the temporary file, None once that file is gone.
Entry == [suffix : Nat, renewed : BOOLEAN, tmp : Proxy \union {None}]

Lists(r, j) == \E k \in DOMAIN r.jobs : r.jobs[k] = j

\* Faulty: the time of the next renewal is not recorded.
RetimedEndOnly(r, p, now) ==
  IF Usable(p, now) THEN [r EXCEPT !.end = p.leaf] ELSE r

\* get_times on a record: its times follow the file, or stay when it is unfit.
Retimed(r, p, now) ==
  IF Usable(p, now)
    THEN [r EXCEPT !.next = now + Delta(now, p.leaf), !.end = p.leaf]
    ELSE r

-------------------------------------------------------------------------------
(* get_record_ext: the record a registration uses.                         *)

Free(r) == r.jobs = <<>> /\ ~r.voms

\* Faulty: the VOMS attributes of the record are not looked at.
ShareableVoms(r, server, voms, now) ==
  /\ r.jobs # <<>>
  /\ Len(r.jobs) < MaxProxies
  /\ r.server = server
  /\ now + CondorLimit + ClockSkew <= r.end

\* Faulty: one job too many.
ShareableByOneMore(r, server, voms, now) ==
  /\ r.jobs # <<>>
  /\ Len(r.jobs) <= MaxProxies
  /\ ~r.voms /\ ~voms
  /\ r.server = server
  /\ now + CondorLimit + ClockSkew <= r.end

\* Faulty: the proxy would be renewed at the server of another job.
ShareableAnyServer(r, server, voms, now) ==
  /\ r.jobs # <<>>
  /\ Len(r.jobs) < MaxProxies
  /\ ~r.voms /\ ~voms
  /\ now + CondorLimit + ClockSkew <= r.end

Shareable(r, server, voms, now) ==
  /\ r.jobs # <<>>
  /\ Len(r.jobs) < MaxProxies
  /\ ~r.voms
  /\ ~voms
  /\ r.server = server
  /\ now + CondorLimit + ClockSkew <= r.end

\* The positions a registration may take; the code takes the first one.
Candidates(md, server, voms, now) ==
  {i \in DOMAIN md : Free(md[i]) \/ Shareable(md[i], server, voms, now)}

\* The registration cannot share a proxy and copies its own into the repository.
NeedsFile(md, C) == C # {} => md[Min(C)].jobs = <<>>

LastSuffix(md) == Max({-1} \union {md[i].suffix : i \in DOMAIN md})

\* Faulty: the last suffix in use is taken again.
LastSuffixAgain(md, C) == IF C = {} THEN LastSuffix(md) ELSE md[Min(C)].suffix

\* The suffix a new proxy file gets: that of the free record found, or a new one.
NewSuffix(md, C) == IF C = {} THEN LastSuffix(md) + 1 ELSE md[Min(C)].suffix

\* Faulty: a new record goes to the front of the file.
StoreRecordInFront(md, r) ==
  IF \E i \in DOMAIN md : md[i].suffix = r.suffix
    THEN [i \in DOMAIN md |-> IF md[i].suffix = r.suffix THEN r ELSE md[i]]
    ELSE <<r>> \o md

\* store_record: rewrite the file with this record in place of the one with
\* its suffix, or at the end.
StoreRecord(md, r) ==
  IF \E i \in DOMAIN md : md[i].suffix = r.suffix
    THEN [i \in DOMAIN md |-> IF md[i].suffix = r.suffix THEN r ELSE md[i]]
    ELSE Append(md, r)

-------------------------------------------------------------------------------
(* unregister_proxy on the record found.                                   *)

FirstListing(md, j) == Min({i \in DOMAIN md : Lists(md[i], j)})

\* Faulty: a shared record is cleared for all its jobs.
WithoutAnyJob(r, j) ==
  [r EXCEPT !.jobs = <<>>, !.voms = FALSE, !.next = 0, !.end = 0]

\* Faulty: the jobs are shifted from the last one on, so the last one goes.
WithoutLastJob(r, j) ==
  LET rest == SubSeq(r.jobs, 1, Len(r.jobs) - 1)
  IN  IF rest = <<>>
        THEN [r EXCEPT !.jobs = <<>>, !.voms = FALSE, !.next = 0, !.end = 0]
        ELSE [r EXCEPT !.jobs = rest]

\* Only the first occurrence of the job goes.
WithoutJob(r, j) ==
  LET k == Min({i \in DOMAIN r.jobs : r.jobs[i] = j})
      rest == SubSeq(r.jobs, 1, k - 1) \o SubSeq(r.jobs, k + 1, Len(r.jobs))
  IN  IF rest = <<>>
        THEN [r EXCEPT !.jobs = <<>>, !.voms = FALSE, !.next = 0, !.end = 0]
        ELSE [r EXCEPT !.jobs = rest]

-------------------------------------------------------------------------------
(* update_db: records and entries are walked together, both by ascending   *)
(* suffix.                                                                 *)

\* The entry under the cursor when record i has been read; past the last
\* entry the cursor stays at Len(entries) + 1.
Cursor(md, entries) ==
  LET cursor[i \in 0..Len(md)] ==
        IF i = 0 THEN 1
        ELSE LET c == cursor[i - 1]
                 stop(k) == \/ k > Len(entries)
                            \/ entries[k].suffix >= md[i].suffix
             IN  Min({k \in c..(Len(entries) + 1) : stop(k)})
  IN  cursor

\* Faulty: an entry is passed when the record before its own is read.
AppliesToNext(md, entries, i) ==
  LET c == Cursor(md, entries)[i]
  IN  c + 1 \in DOMAIN entries /\ entries[c].suffix = md[i].suffix

Applies(md, entries, i) ==
  LET c == Cursor(md, entries)[i]
  IN  c \in DOMAIN entries /\ entries[c].suffix = md[i].suffix

\* Faulty: the clock skew is granted twice.
DropsEarly(r, e, now) == ~e.renewed /\ r.end < now + ClockSkew + ClockSkew

\* Faulty: the master trusts what the watchdog saw.
DropsUnrenewed(r, e, now) == ~e.renewed

\* An expired proxy that was not renewed is dropped with all its jobs.
Drops(r, e, now) == ~e.renewed /\ r.end < now

UpdatedRecord(r, e, current, now) ==
  IF Drops(r, e, now)
    THEN [r EXCEPT !.jobs = <<>>, !.voms = FALSE, !.next = 0, !.end = 0]
    ELSE Retimed(r, IF e.renewed THEN e.tmp ELSE current, now)

\* Faulty: the times are recorded but the file is not renamed.
UpdatedFileLeft(r, e, current, now) ==
  IF Drops(r, e, now) THEN None ELSE current

UpdatedFile(r, e, current, now) ==
  IF Drops(r, e, now) THEN None
  ELSE IF e.renewed /\ Usable(e.tmp, now) THEN e.tmp ELSE current

-------------------------------------------------------------------------------
(* check_renewal: the lines whose proxy the watchdog renews, and whether   *)
(* it asks MyProxy at all or reports the proxy as expired.                 *)

Due(r, now, force) ==
  /\ r.jobs # <<>>
  /\ \/ now + ClockSkew >= r.end
     \/ r.next <= now
     \/ force

Task == [line : Nat \ {0}, suffix : Nat, try : BOOLEAN]

\* Faulty: expired proxies are skipped instead of reported.
DueTasksAlive(md, now, force) ==
  {[line |-> i, suffix |-> md[i].suffix, try |-> TRUE] :
     i \in {k \in DOMAIN md : /\ Due(md[k], now, force)
                              /\ md[k].end + ClockSkew >= now}}

DueTasks(md, now, force) ==
  {[line |-> i, suffix |-> md[i].suffix, try |-> md[i].end + ClockSkew >= now] :
     i \in {k \in DOMAIN md : Due(md[k], now, force)}}

\* The task of the line read next.
FirstTask(tasks) == CHOOSE t \in tasks : \A u \in tasks : t.line <= u.line

===============================================================================
