----------------------------- MODULE ProxyRenewal -----------------------------
(***************************************************************************)
(* The proxy renewal daemon of org.glite.security.proxyrenewal: the master *)
(* process (renewd.c), which answers one request at a time with the        *)
(* handlers of commands.c, and the watchdog processes (renew.c), which     *)
(* read the repository on their own, renew proxies at MyProxy servers and  *)
(* ask the master to record the result.                                    *)
(*                                                                         *)
(* A handler runs to its end in one step unless the master is killed in    *)
(* it: the Crash actions are the states a killed handler leaves on disk.   *)
(* Requests of the clients wait in the listen queue without consequence,   *)
(* so they are taken up at the step that handles them; requests of a       *)
(* watchdog carry what it saw earlier, so they are kept in `updates`.      *)
(***************************************************************************)
EXTENDS ProxyRecords

CONSTANTS Subjects,      \* certificate subjects, one repository file each
          Watchdogs,     \* identities for watchdog processes
          MaxSuffix,     \* bound: highest suffix of a proxy file
          MaxTime,       \* bound: last instant of the clock
          Epoch,         \* the instant the daemon starts at
          Backlog,       \* the watchdogs' share of the listen queue
          ClientLives,   \* lifetimes <<leaf, chain>> of the clients' proxies
          RenewedLives,  \* lifetimes <<leaf, chain>> of MyProxy's proxies
          VomsEnabled,   \* option -A of the daemon
          Faults,        \* what may go wrong in the environment
          Habits         \* what the clients may do beyond one clean cycle

ASSUME DaemonAssumption ==
  /\ MaxSuffix \in Nat
  /\ MaxTime \in Nat
  /\ Epoch \in Nat
  /\ Epoch > ClockSkew
  /\ Backlog \in Nat
  /\ ClientLives \subseteq Nat \X Nat
  /\ RenewedLives \subseteq Nat \X Nat
  /\ None \notin Watchdogs
  /\ None \notin Subjects
  /\ VomsEnabled \in BOOLEAN
  /\ Faults \subseteq {"kill",      \* processes die
                      "timeout",   \* the master answers too late
                      "myproxy",   \* MyProxy or VOMS servers refuse
                      "voms"}      \* VOMS attributes go unnoticed
  /\ Habits \subseteq {"repeat",    \* register a registered job again
                      "foreign"}   \* unregister by the client's own file

VARIABLES now,         \* the clock
          meta,        \* the repository files, <md5>.data
          file,        \* the proxy files, <md5>.<suffix>
          updates,     \* UPDATE_DB requests in the master's listen queue
          dog,         \* the watchdogs
          child,       \* the watchdog the running master forked
          up,          \* whether the master runs
          outside,     \* the clients' own proxy files that still exist
          registered   \* history: what the last request for a job achieved

disk == <<meta, file>>
vars == <<now, meta, file, updates, dog, child, up, outside, registered>>

Suffixes == 0..MaxSuffix

BoundedRecord == {r \in Record : r.suffix \in Suffixes}

Registration == [subject : Subjects, suffix : Suffixes, server : Servers,
                 voms : BOOLEAN]

NoneIsNoRegistration == None \notin Registration

ASSUME RegistrationAssumption == NoneIsNoRegistration

Phases == {"dead", "sleep", "scan", "renew", "wait"}

Watchdog == [phase : Phases, left : SUBSET Subjects,
             subject : Subjects \union {None},
             due : SUBSET Task,
             entries : Seq(Entry)]

Update == [subject : Subjects, entries : Seq(Entry),
           dog : Watchdogs \union {None}]

Idle(phase) == [phase |-> phase, left |-> {}, subject |-> None,
                due |-> {}, entries |-> <<>>]

Init ==
  /\ now = Epoch
  /\ meta = [d \in Subjects |-> <<>>]
  /\ file = [d \in Subjects |-> [s \in Suffixes |-> None]]
  /\ updates = <<>>
  /\ child \in Watchdogs
  /\ dog = [w \in Watchdogs |-> Idle(IF w = child THEN "sleep" ELSE "dead")]
  /\ up = TRUE
  /\ outside = [d \in Subjects |-> TRUE]
  /\ registered = [j \in Jobs |-> None]

-------------------------------------------------------------------------------
(* Handlers of the master: commands.c.  Requests that change nothing, and  *)
(* get_proxy, which only reads, are no steps.                              *)

\* The proxies with the lifetimes in `lives`, as they are when issued now.
Issued(lives) ==
  {[leaf |-> now + l[1], chain |-> IF l[2] = 0 THEN 0 ELSE now + l[2],
    voms |-> v] : l \in lives, v \in BOOLEAN}

\* find_voms_cert; a failure to read the attributes is ignored.
VomsFound(p) ==
  {v \in BOOLEAN : IF VomsEnabled /\ p.voms THEN v \/ "voms" \in Faults
                    ELSE ~v}

Registered(j) == registered[j] # None

\* What a request to register j with a proxy p of subject d may rely on.
MayRegister(j, d) ==
  /\ up
  /\ outside[d]
  /\ "repeat" \in Habits \/ ~Registered(j)

\* register_proxy takes a free record or opens a new one: the proxy is copied
\* into the repository, then the record is stored.
RegisterNew(j, d, server, p, voms) ==
  LET md == meta[d]
      C  == Candidates(md, server, voms, now)
      s  == NewSuffix(md, C)
      r  == Retimed([suffix |-> s, jobs |-> <<j>>, voms |-> voms,
                     server |-> server, next |-> 0, end |-> 0], p, now)
  IN  /\ MayRegister(j, d)
      /\ NeedsFile(md, C)
      /\ s <= MaxSuffix
      /\ file' = [file EXCEPT ![d][s] = p]
      /\ IF Usable(p, now)
           THEN /\ meta' = [meta EXCEPT ![d] = StoreRecord(md, r)]
                /\ registered' = [registered EXCEPT ![j] =
                     [subject |-> d, suffix |-> s, server |-> server,
                      voms |-> voms]]
           ELSE UNCHANGED <<meta, registered>>   \* get_times failed
      /\ UNCHANGED <<now, updates, dog, child, up, outside>>

\* register_proxy adds the job to a record in use; the job's own proxy file is
\* not looked at further.
RegisterShared(j, d, server, voms) ==
  LET md == meta[d]
      C  == Candidates(md, server, voms, now)
      r  == md[Min(C)]
  IN  /\ MayRegister(j, d)
      /\ ~NeedsFile(md, C)
      /\ meta' = [meta EXCEPT ![d] =
                    StoreRecord(md, [r EXCEPT !.jobs = Append(r.jobs, j)])]
      /\ registered' = [registered EXCEPT ![j] =
           [subject |-> d, suffix |-> r.suffix, server |-> server,
            voms |-> r.voms]]
      /\ UNCHANGED <<now, file, updates, dog, child, up, outside>>

Register(j) ==
  \E d \in Subjects, server \in Servers, p \in Issued(ClientLives) :
    \E voms \in VomsFound(p) :
      \/ RegisterNew(j, d, server, p, voms)
      \/ RegisterShared(j, d, server, voms)

\* Faulty: the file goes with any of its jobs.
RemoveJobAndFile(j, d, i, foreign) ==
  LET r == WithoutJob(meta[d][i], j)
  IN  /\ meta' = [meta EXCEPT ![d] = StoreRecord(meta[d], r)]
      /\ registered' = [registered EXCEPT ![j] = None]
      /\ file' = [file EXCEPT ![d][r.suffix] = None]
      /\ UNCHANGED <<now, updates, dog, child, up, outside>>

\* unregister_proxy once it has settled on record i of subject d: the record
\* is stored, then the file of the last job is removed.  `foreign` tells that
\* the request named a file of the client's.
RemoveJob(j, d, i, foreign) ==
  LET r    == WithoutJob(meta[d][i], j)
      last == r.jobs = <<>>
  IN  /\ meta' = [meta EXCEPT ![d] = StoreRecord(meta[d], r)]
      /\ registered' = [registered EXCEPT ![j] = None]
      /\ IF last /\ ~foreign
           THEN file' = [file EXCEPT ![d][r.suffix] = None]
           ELSE UNCHANGED file
      /\ IF last /\ foreign
           THEN outside' = [outside EXCEPT ![d] = FALSE]
           ELSE UNCHANGED outside
      /\ UNCHANGED <<now, updates, dog, child, up>>

\* Without a file name find_proxyname looks for the job: the subjects come in
\* the order of the directory, the records of one in the order of its file.
\* The file found must still be there to tell the subject.
Unregister(j) ==
  /\ up
  /\ \E d \in Subjects :
       /\ \E i \in DOMAIN meta[d] : Lists(meta[d][i], j)
       /\ LET i == FirstListing(meta[d], j)
          IN  /\ file[d][meta[d][i].suffix] # None
              /\ RemoveJob(j, d, i, FALSE)

\* With the name of a file in the repository.
UnregisterNamed(j) ==
  /\ up
  /\ \E d \in Subjects : \E i \in DOMAIN meta[d] :
       /\ Lists(meta[d][i], j)
       /\ file[d][meta[d][i].suffix] # None
       /\ RemoveJob(j, d, i, FALSE)

\* With the name of the client's own file: the comparison with the base name
\* looks at one character only, so what follows the last dot of the name is
\* read as a suffix.
UnregisterForeign(j) ==
  /\ up
  /\ "foreign" \in Habits
  /\ \E d \in Subjects : \E i \in DOMAIN meta[d] :
       /\ Lists(meta[d][i], j)
       /\ outside[d]
       /\ RemoveJob(j, d, i, TRUE)

-------------------------------------------------------------------------------
(* update_db.                                                              *)

RecordsAfter(u) ==
  LET md == meta[u.subject]
  IN  [i \in DOMAIN md |->
         IF Applies(md, u.entries, i)
           THEN UpdatedRecord(md[i], u.entries[Cursor(md, u.entries)[i]],
                              file[u.subject][md[i].suffix], now)
           ELSE md[i]]

\* The proxy files once the first n records have been dealt with.  The entries
\* in `lost` are those whose temporary file was there for get_times and is gone
\* at the rename, whose failure is ignored.
FilesAfter(u, lost, n) ==
  LET md == meta[u.subject]
      at(s) == {i \in 1..n : md[i].suffix = s /\ Applies(md, u.entries, i)}
  IN  [s \in Suffixes |->
         IF at(s) = {} THEN file[u.subject][s]
         ELSE LET i == Min(at(s))
                  k == Cursor(md, u.entries)[i]
              IN  IF k \in lost THEN file[u.subject][s]
                  ELSE UpdatedFile(md[i], u.entries[k], file[u.subject][s], now)]

\* Jobs whose record was dropped are registered no longer.
Forget(d, md) ==
  [j \in Jobs |->
     IF /\ Registered(j)
        /\ registered[j].subject = d
        /\ ~\E i \in DOMAIN md : /\ md[i].suffix = registered[j].suffix
                                 /\ Lists(md[i], j)
       THEN None ELSE registered[j]]

\* The watchdog whose request was answered, or cut off, goes on with the next
\* repository file.
Resume(w) == [dog[w] EXCEPT !.phase = "scan", !.subject = None, !.due = {},
                            !.entries = <<>>]

\* The handler on the first request, which it finds as u.
UpdateRepository(u, lost) ==
  /\ up
  /\ updates' = Tail(updates)
  /\ meta' = [meta EXCEPT ![u.subject] = RecordsAfter(u)]
  /\ file' = [file EXCEPT ![u.subject] =
                FilesAfter(u, lost, Len(meta[u.subject]))]
  /\ registered' = Forget(u.subject, RecordsAfter(u))
  /\ dog' = IF u.dog = None THEN dog ELSE [dog EXCEPT ![u.dog] = Resume(u.dog)]
  /\ UNCHANGED <<now, child, up, outside>>

UpdateDb == updates # <<>> /\ UpdateRepository(Head(updates), {})

\* The entries of u whose temporary file the watchdog that waits for the answer
\* can delete under update_db, its timeout running out meanwhile.
Deletable(u) ==
  {k \in DOMAIN u.entries : /\ "timeout" \in Faults
                            /\ u.dog # None
                            /\ u.entries[k].tmp # None}

Deleted(u, K) ==
  [u EXCEPT !.entries =
     [k \in DOMAIN u.entries |->
        IF k \in K THEN [u.entries[k] EXCEPT !.tmp = None] ELSE u.entries[k]]]

\* The same with the watchdog giving up while the handler runs: the files of
\* `gone` it deletes before get_times looks at them, those of `lost` between
\* get_times and the rename.
UpdateDbOvertaken ==
  /\ updates # <<>>
  /\ \E gone \in SUBSET Deletable(Head(updates)) :
       LET u == Deleted(Head(updates), gone)
       IN  \E lost \in SUBSET Deletable(u) :
             /\ gone \union lost # {}
             /\ UpdateRepository(u, lost)

-------------------------------------------------------------------------------
(* The watchdog: renew.c.                                                  *)

\* The sleep of watchdog_start is over and renewal() has opened the directory.
WakeUp(w) ==
  /\ dog[w].phase = "sleep"
  /\ dog' = [dog EXCEPT ![w].phase = "scan", ![w].left = Subjects]
  /\ UNCHANGED <<now, disk, updates, child, up, outside, registered>>

\* check_renewal reads one repository file; all its decisions are taken on
\* this reading, at this instant.  SIGUSR1 forces the renewal of everything.
CheckRenewal(w) ==
  /\ dog[w].phase = "scan"
  /\ \E d \in dog[w].left, force \in BOOLEAN :
       LET due == DueTasks(meta[d], now, force)
       IN  dog' = [dog EXCEPT ![w].left = @ \ {d},
                              ![w].phase = IF due = {} THEN "scan" ELSE "renew",
                              ![w].subject = IF due = {} THEN None ELSE d,
                              ![w].due = due]
  /\ UNCHANGED <<now, disk, updates, child, up, outside, registered>>

FinishScan(w) ==
  /\ dog[w].phase = "scan"
  /\ dog[w].left = {}
  /\ dog' = [dog EXCEPT ![w].phase = "sleep"]
  /\ UNCHANGED <<now, disk, updates, child, up, outside, registered>>

\* The proxies MyProxy and the VOMS servers can make of the file p: one with
\* the attributes of p, or without them when they went unnoticed.
Renewals(p) ==
  {q \in Issued(RenewedLives) : q.voms = p.voms \/ ("voms" \in Faults /\ ~q.voms)}

\* One turn of the loop in check_renewal: glite_renewal_core_renew reads the
\* proxy file as it is now and leaves the new proxy in a temporary file.
RenewProxy(w) ==
  /\ dog[w].phase = "renew"
  /\ dog[w].due # {}
  /\ LET t == FirstTask(dog[w].due)
         p == file[dog[w].subject][t.suffix]
         fails   == ~t.try \/ p = None
         results == (IF fails THEN {} ELSE Renewals(p)) \union
                    (IF fails \/ "myproxy" \in Faults THEN {None} ELSE {})
     IN  \E q \in results :
           dog' = [dog EXCEPT ![w].due = @ \ {t},
                              ![w].entries = Append(@, [suffix  |-> t.suffix,
                                                        renewed |-> q # None,
                                                        tmp     |-> q])]
  /\ UNCHANGED <<now, disk, updates, child, up, outside, registered>>

\* edg_wlpr_RequestSend; when nobody listens or the queue is full it fails at
\* once, the temporary files are deleted and the scan goes on.
SendUpdate(w) ==
  /\ dog[w].phase = "renew"
  /\ dog[w].due = {}
  /\ IF up /\ Len(updates) < Backlog
       THEN /\ updates' = Append(updates, [subject |-> dog[w].subject,
                                           entries |-> dog[w].entries,
                                           dog     |-> w])
            /\ dog' = [dog EXCEPT ![w].phase = "wait", ![w].subject = None,
                                  ![w].entries = <<>>]
       ELSE /\ dog' = [dog EXCEPT ![w] = Resume(w)]
            /\ UNCHANGED updates
  /\ UNCHANGED <<now, disk, child, up, outside, registered>>

\* The request as the master will find it when w no longer waits for the
\* answer and, unless it died, has deleted the temporary files.
Abandoned(u, w, deleted) ==
  IF u.dog # w THEN u
  ELSE [u EXCEPT !.dog = None,
                 !.entries = [k \in DOMAIN u.entries |->
                   IF deleted THEN [u.entries[k] EXCEPT !.tmp = None]
                   ELSE u.entries[k]]]

AbandonUpdates(w, deleted) ==
  updates' = [k \in DOMAIN updates |-> Abandoned(updates[k], w, deleted)]

\* The timeout of edg_wlpr_RequestSend runs out before the master answers.
Timeout(w) ==
  /\ "timeout" \in Faults
  /\ dog[w].phase = "wait"
  /\ AbandonUpdates(w, TRUE)
  /\ dog' = [dog EXCEPT ![w] = Resume(w)]
  /\ UNCHANGED <<now, disk, child, up, outside, registered>>

WatchdogStep(w) ==
  \/ WakeUp(w)
  \/ CheckRenewal(w)
  \/ FinishScan(w)
  \/ RenewProxy(w)
  \/ SendUpdate(w)

-------------------------------------------------------------------------------
(* Deaths and restarts.                                                    *)

\* After a scan the loop of watchdog_start may have come to RENEWAL_COUNTS_MAX
\* renewals, which are not counted here: any scan can be the last.
WatchdogExits(w) ==
  /\ dog[w].phase = "scan"
  /\ dog[w].left = {}
  /\ dog' = [dog EXCEPT ![w] = Idle("dead")]
  /\ UNCHANGED <<now, disk, updates, child, up, outside, registered>>

\* A watchdog is killed.
WatchdogDies(w) ==
  /\ "kill" \in Faults
  /\ dog[w].phase # "dead"
  /\ dog' = [dog EXCEPT ![w] = Idle("dead")]
  /\ AbandonUpdates(w, FALSE)
  /\ UNCHANGED <<now, disk, child, up, outside, registered>>

\* doit() on SIGCHLD.
RestartWatchdog ==
  /\ up
  /\ dog[child].phase = "dead"
  /\ dog' = [dog EXCEPT ![child] = Idle("sleep")]
  /\ UNCHANGED <<now, disk, updates, child, up, outside, registered>>

\* The master is killed: the requests in its queue are lost, the watchdogs
\* that wait for an answer see the connection closed.
MasterDies ==
  /\ "kill" \in Faults
  /\ up
  /\ up' = FALSE
  /\ updates' = <<>>
  /\ dog' = [w \in Watchdogs |->
               IF dog[w].phase = "wait" THEN Resume(w) ELSE dog[w]]
  /\ UNCHANGED <<now, child, outside>>

Crash == MasterDies /\ UNCHANGED <<disk, registered>>

\* Killed in register_proxy between copy_file and store_record.
CrashInRegister(j) ==
  /\ MasterDies
  /\ \E d \in Subjects, server \in Servers, p \in Issued(ClientLives) :
       \E voms \in VomsFound(p) :
         LET C == Candidates(meta[d], server, voms, now)
             s == NewSuffix(meta[d], C)
         IN  /\ MayRegister(j, d)
             /\ NeedsFile(meta[d], C)
             /\ s <= MaxSuffix
             /\ file' = [file EXCEPT ![d][s] = p]
  /\ UNCHANGED <<meta, registered>>

\* Faulty: the file is removed before the record is stored.
CrashInUnregisterFileFirst(j) ==
  /\ MasterDies
  /\ \E d \in Subjects : \E i \in DOMAIN meta[d] :
       LET r == WithoutJob(meta[d][i], j)
       IN  /\ Lists(meta[d][i], j)
           /\ file[d][meta[d][i].suffix] # None
           /\ r.jobs = <<>>
           /\ file' = [file EXCEPT ![d][r.suffix] = None]
  /\ UNCHANGED <<meta, registered>>

\* Killed in unregister_proxy between store_record and unlink.
CrashInUnregister(j) ==
  /\ MasterDies
  /\ \E d \in Subjects : \E i \in DOMAIN meta[d] :
       LET r == WithoutJob(meta[d][i], j)
       IN  /\ Lists(meta[d][i], j)
           /\ file[d][meta[d][i].suffix] # None
           /\ r.jobs = <<>>
           /\ meta' = [meta EXCEPT ![d] = StoreRecord(meta[d], r)]
  /\ registered' = [registered EXCEPT ![j] = None]
  /\ UNCHANGED file

\* Killed in update_db after n of the proxy files, before the repository file
\* is replaced; the files of `lost` went before their rename.
CrashInUpdateDb ==
  /\ MasterDies
  /\ updates # <<>>
  /\ LET u == Head(updates)
     IN  \E n \in DOMAIN meta[u.subject] :
         \E lost \in SUBSET Deletable(u) :
           file' = [file EXCEPT ![u.subject] = FilesAfter(u, lost, n)]
  /\ UNCHANGED <<meta, registered>>

\* The new master forks a watchdog; one left over from a killed master lives on.
MasterRestart ==
  /\ ~up
  /\ up' = TRUE
  /\ \E w \in Watchdogs :
       /\ dog[w].phase = "dead"
       /\ child' = w
       /\ dog' = [dog EXCEPT ![w] = Idle("sleep")]
  /\ UNCHANGED <<now, disk, updates, outside, registered>>

Tick ==
  /\ now < MaxTime
  /\ now' = now + 1
  /\ UNCHANGED <<disk, updates, dog, child, up, outside, registered>>

-------------------------------------------------------------------------------

Next ==
  \/ Tick
  \/ \E j \in Jobs : \/ Register(j)
                     \/ Unregister(j)
                     \/ UnregisterNamed(j)
                     \/ UnregisterForeign(j)
                     \/ CrashInRegister(j)
                     \/ CrashInUnregister(j)
  \/ UpdateDb
  \/ UpdateDbOvertaken
  \/ \E w \in Watchdogs : \/ WatchdogStep(w)
                          \/ Timeout(w)
                          \/ WatchdogExits(w)
                          \/ WatchdogDies(w)
  \/ RestartWatchdog
  \/ Crash
  \/ CrashInUpdateDb
  \/ MasterRestart

Spec == Init /\ [][Next]_vars

-------------------------------------------------------------------------------
(* Properties.                                                             *)

\* update_db does what it would not have done, had the watchdog kept its files.
Overtaken == UpdateDbOvertaken /\ ~UpdateDb

\* Every variable keeps its type: the repository files, the requests in the
\* queue and the watchdogs stay well formed through every handler, and a
\* watchdog that renews proxies has the repository file they are from.
TypeOK ==
  /\ now \in Nat
  /\ meta \in [Subjects -> Seq(BoundedRecord)]
  /\ file \in [Subjects -> [Suffixes -> Proxy \union {None}]]
  /\ updates \in Seq(Update)
  /\ dog \in [Watchdogs -> Watchdog]
  /\ \A w \in Watchdogs : dog[w].phase = "renew" => dog[w].subject # None
  /\ child \in Watchdogs
  /\ up \in BOOLEAN
  /\ outside \in [Subjects -> BOOLEAN]
  /\ registered \in [Jobs -> Registration \union {None}]

\* The records of a repository file come by strictly ascending suffix.  Nothing
\* in the code sorts them, and update_db finds its records only if they do.
SuffixesAscending ==
  \A d \in Subjects : \A i, k \in DOMAIN meta[d] :
    i < k => meta[d][i].suffix < meta[d][k].suffix

\* No proxy is shared by more than MAX_PROXIES jobs, and one with VOMS
\* attributes by no two, however often jobs come, go and come again.
SharingLimited ==
  \A d \in Subjects : \A i \in DOMAIN meta[d] :
    /\ Len(meta[d][i].jobs) <= MaxProxies
    /\ meta[d][i].voms => Len(meta[d][i].jobs) = 1

\* A proxy in use is due already or will be due at least Limit before it ends
\* (get_delta: "In any case, a renewal will be scheduled to happen before the
\* lifetime limit").
ScheduledInTime ==
  \A d \in Subjects : \A i \in DOMAIN meta[d] :
    LET r == meta[d][i]
    IN  r.jobs # <<>> => r.next <= now \/ r.next + Limit <= r.end

\* Jobs that use the record of a proxy that has not expired find its file.
Served(r, f, t) == r.jobs # <<>> /\ r.end >= t => f[r.suffix] # None

\* As long as the proxy of a record has not expired, jobs that use the record
\* find the proxy file, whatever renewals, unregistrations and kills happen.
\* One history breaks it: update_db is killed after it has removed an expired
\* proxy (commands.c:1214), and another report, whose watchdog deletes the
\* renewed proxy just before it is renamed, then dates the record anew.
LiveJobsHaveProxy ==
  [][\A d \in Subjects : \A i \in DOMAIN meta'[d] :
       LET r == meta'[d][i]
       IN  ~Served(r, file'[d], now') =>
             /\ i \in DOMAIN meta[d]
             /\ \/ ~Served(meta[d][i], file[d], now)
                \/ Overtaken /\ file[d][r.suffix] = None]_vars

\* What a client was told holds until it unregisters or the proxy expires: the
\* record of its registration lists the job, with the server it asked for and
\* with VOMS renewal exactly when its proxy had VOMS attributes.
RegistrationHeld ==
  \A j \in Jobs :
    Registered(j) =>
      \E i \in DOMAIN meta[registered[j].subject] :
        LET r == meta[registered[j].subject][i]
        IN  /\ r.suffix = registered[j].suffix
            /\ Lists(r, j)
            /\ r.server = registered[j].server
            /\ r.voms = registered[j].voms

\* The record of a proxy in use tells when the file on disk ends.
Dated(r, f) == r.jobs # <<>> => f[r.suffix] # None /\ f[r.suffix].leaf = r.end

\* Unless the master is killed, the end of a record in use and the end of its
\* file are the same from the first registration on: a renewal that came too
\* late or failed changes neither, a successful one changes both.  One step
\* only parts them, an update_db whose watchdog deletes the renewed proxy just
\* before it is renamed (commands.c:1225-1226): the file then is the old one
\* and the record tells the end of the renewed one.
TimesFollowFile ==
  [][\A d \in Subjects : \A i \in DOMAIN meta'[d] :
       LET r == meta'[d][i]
       IN  ~Dated(r, file'[d]) =>
             /\ i \in DOMAIN meta[d]
             /\ \/ ~Dated(meta[d][i], file[d])
                \/ /\ Overtaken
                   /\ file'[d][r.suffix] = file[d][r.suffix]
                   /\ \E k \in DOMAIN Head(updates).entries :
                        LET e == Head(updates).entries[k]
                        IN  /\ e.suffix = r.suffix /\ e.renewed
                            /\ Usable(e.tmp, now) /\ e.tmp.leaf = r.end]_vars

\* A job that is not registered is in no record: nothing goes on renewing a
\* proxy for it (renewal.h, edg_wlpr_UnregisterProxy: "jobid IN: specification
\* of job whose proxy shall be unregistered").
UnregisteredNotListed ==
  \A j \in Jobs : \A d \in Subjects : \A i \in DOMAIN meta[d] :
    Lists(meta[d][i], j) => Registered(j)

\* The file of a record for VOMS proxies has VOMS attributes (get_record_ext:
\* "Proxies with VOMS attributes require a separate record, which is not
\* shared with another proxies"): it is never the proxy of another record.
VomsProxyKept ==
  \A d \in Subjects : \A i \in DOMAIN meta[d] :
    LET r == meta[d][i]
    IN  r.jobs # <<>> /\ r.voms => file[d][r.suffix].voms

\* Only a request of its client or the end of its proxy's life takes a job off
\* its record; no renewal and no other job's request does.
OnlyExpiryDropsJobs ==
  [][\A j \in Jobs :
       LET g == registered[j]
       IN  g # None /\ registered'[j] = None =>
             \/ Unregister(j)
             \/ UnregisterNamed(j)
             \/ UnregisterForeign(j)
             \/ CrashInUnregister(j)
             \/ \E i \in DOMAIN meta[g.subject] :
                  /\ meta[g.subject][i].suffix = g.suffix
                  /\ meta[g.subject][i].end < now]_vars

\* update_db loses no renewed proxy by itself: each one that get_times accepts is
\* in place when it returns.  When the watchdog gives up and deletes its files
\* meanwhile, the old proxy stays where the renewed one did not come.
EveryRenewalStored ==
  [][UpdateDb \/ UpdateDbOvertaken =>
       LET u == Head(updates)
       IN  \A k \in DOMAIN u.entries :
             LET e == u.entries[k]
             IN  e.renewed /\ Usable(e.tmp, now) =>
                   \/ file'[u.subject][e.suffix] = e.tmp
                   \/ /\ Overtaken
                      /\ file'[u.subject][e.suffix] = file[u.subject][e.suffix]]_vars

\* A record as the clients know it: nothing, once no job uses it.
Unknown == [jobs |-> <<>>, server |-> None, voms |-> FALSE, end |-> 0]

Known(r) ==
  IF r.jobs = <<>> THEN Unknown
  ELSE [jobs |-> r.jobs, server |-> r.server, voms |-> r.voms, end |-> r.end]

Proxies(md) ==
  [s \in Suffixes |->
     IF \E i \in DOMAIN md : md[i].suffix = s
       THEN Known(md[CHOOSE i \in DOMAIN md : md[i].suffix = s])
       ELSE Unknown]

\* The renewal service this daemon is.
Service == INSTANCE RenewalService WITH proxy <- [d \in Subjects |-> Proxies(meta[d])]

\* Whatever watchdogs do late or twice, whoever is killed, and however the
\* records are stored, the clients meet such a service: a job is put on a proxy
\* of its own or on one that may be shared, and is taken off by its client or
\* at the end of that proxy's life, with those of that proxy and no others
\* (register_proxy, unregister_proxy and
\* update_db, commands.c:900-1256).
IsService == Service!Spec

-------------------------------------------------------------------------------
(* Fairness: the watchdog process is scheduled and its sleeps, its MyProxy *)
(* calls and the loop of the master come to their ends.  Nothing is        *)
(* assumed of the clients, of timeouts or of the clock, nor that a         *)
(* watchdog that has ended is replaced: a SIGCHLD that comes between the   *)
(* test of child_died and accept() waits for the next client, and one that *)
(* comes before child_died is cleared is lost (renewd.c:183-199).          *)

FairSpec ==
  /\ Spec
  /\ WF_vars(UpdateDb \/ UpdateDbOvertaken)
  /\ \A w \in Watchdogs : WF_vars(WatchdogStep(w))

RecordOf(d, s) == CHOOSE i \in DOMAIN meta[d] : meta[d][i].suffix = s

InUse(d, s) ==
  \E i \in DOMAIN meta[d] : meta[d][i].suffix = s /\ meta[d][i].jobs # <<>>

Expired(d, s) ==
  InUse(d, s) /\ meta[d][RecordOf(d, s)].end + ClockSkew < now

Overdue(d, s) == InUse(d, s) /\ Due(meta[d][RecordOf(d, s)], now, FALSE)

\* The watchdog of the running master has ended and is not replaced.
Unattended == dog[child].phase = "dead"

\* The record of an expired proxy does not stay: its jobs are taken off even if
\* no MyProxy server ever answers (get_record_ext: "it will be removed after
\* next run of the renewal process").  Watchdogs may end and be replaced on the
\* way, but not end for good.
ExpiredRemoved ==
  \/ <>[]Unattended
  \/ \A d \in Subjects, s \in Suffixes : Expired(d, s) ~> ~Expired(d, s)

\* The watchdog has asked MyProxy for a proxy in vain, or has given up waiting
\* for the master.
Disappointed ==
  \/ Overtaken
  \/ \E w \in Watchdogs :
       \/ Timeout(w)
       \/ /\ RenewProxy(w)
          /\ FirstTask(dog[w].due).try
          /\ LET after == dog'[w].entries
             IN  ~after[Len(after)].renewed

\* Unless MyProxy servers or the master go on refusing, or the watchdog ends for
\* good, no proxy stays due for renewal: it is renewed, or it expires and is
\* removed.
DueRenewed ==
  \/ []<><<Disappointed>>_vars
  \/ <>[]Unattended
  \/ \A d \in Subjects, s \in Suffixes : Overdue(d, s) ~> ~Overdue(d, s)

===============================================================================
