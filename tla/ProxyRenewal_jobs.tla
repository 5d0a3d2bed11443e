--------------------------- MODULE ProxyRenewal_jobs ---------------------------
(***************************************************************************)
(* What the clients of the renewal daemon rely on: the records keep the    *)
(* registered jobs, list no others, tell when the proxy files end, and     *)
(* lose no proxy that a watchdog has renewed.                              *)
(***************************************************************************)
EXTENDS ProxyRenewal_proofs

-------------------------------------------------------------------------------
(* Registrations.                                                          *)

\* The records md of its subject keep the registration g of job j.
Holds(g, j, md) ==
  \E i \in DOMAIN md : /\ md[i].suffix = g.suffix
                       /\ Lists(md[i], j)
                       /\ md[i].server = g.server
                       /\ md[i].voms = g.voms

\* RegistrationHeld, one job at a time.
LEMMA HeldByJob ==
  RegistrationHeld <=>
    \A j \in Jobs : Registered(j) => Holds(registered[j], j, meta[registered[j].subject])
BY DEF RegistrationHeld, Holds

\* A record that is stored is in the file.
LEMMA StoreRecordStores ==
  ASSUME NEW R, NEW md \in Seq(R), NEW r \in R
  PROVE  \E i \in DOMAIN StoreRecord(md, r) : StoreRecord(md, r)[i] = r
<1>1. CASE \E i \in DOMAIN md : md[i].suffix = r.suffix
  BY <1>1, StoreRecordIsSeq
<1>2. CASE ~\E i \in DOMAIN md : md[i].suffix = r.suffix
  <2>1. StoreRecord(md, r) = Append(md, r)
    BY <1>2 DEF StoreRecord
  <2> QED
    BY <2>1
<1> QED
  BY <1>1, <1>2

\* A stored record keeps the registrations that it, or what it replaces, has.
LEMMA StoreHolds ==
  ASSUME NEW md \in Seq(Record), NEW r \in Record, NEW g, NEW j,
         \/ /\ Holds(g, j, md)
            /\ \A i \in DOMAIN md :
                 md[i].suffix = r.suffix /\ Lists(md[i], j) =>
                   Lists(r, j) /\ r.server = md[i].server /\ r.voms = md[i].voms
         \/ /\ r.suffix = g.suffix /\ Lists(r, j)
            /\ r.server = g.server /\ r.voms = g.voms
  PROVE  Holds(g, j, StoreRecord(md, r))
<1> DEFINE new == StoreRecord(md, r)
<1>1. CASE /\ r.suffix = g.suffix /\ Lists(r, j)
           /\ r.server = g.server /\ r.voms = g.voms
  BY <1>1, StoreRecordStores DEF Holds
<1>2. CASE /\ Holds(g, j, md)
           /\ \A i \in DOMAIN md :
                md[i].suffix = r.suffix /\ Lists(md[i], j) =>
                  Lists(r, j) /\ r.server = md[i].server /\ r.voms = md[i].voms
  <2>1. PICK i \in DOMAIN md : /\ md[i].suffix = g.suffix
                               /\ Lists(md[i], j)
                               /\ md[i].server = g.server
                               /\ md[i].voms = g.voms
    BY <1>2 DEF Holds
  <2>2. /\ i \in DOMAIN new
        /\ new[i] = IF md[i].suffix = r.suffix THEN r ELSE md[i]
    BY StoreRecordIsSeq
  <2>3. /\ new[i].suffix = g.suffix /\ Lists(new[i], j)
        /\ new[i].server = g.server /\ new[i].voms = g.voms
    BY <1>2, <2>1, <2>2
  <2> QED
    BY <2>2, <2>3 DEF Holds
<1> QED
  BY <1>1, <1>2

\* A step on the records of one subject keeps all registrations, if it keeps
\* those of the subject that are registered still.
LEMMA OneSubjectHeld ==
  ASSUME RegistrationHeld, NEW d \in Subjects,
         \A x \in Subjects \ {d} : meta'[x] = meta[x],
         registered' \in [Jobs -> Registration \union {None}],
         \A j \in Jobs :
           registered'[j] # None =>
             \/ registered'[j] = registered[j] /\ registered[j].subject # d
             \/ registered'[j].subject = d /\ Holds(registered'[j], j, meta'[d])
  PROVE  RegistrationHeld'
<1>1. \A j \in Jobs : registered'[j] # None => registered'[j].subject \in Subjects
  BY NoneAssumption DEF Registration
<1>2. ASSUME NEW j \in Jobs, registered'[j] # None
      PROVE  Holds(registered'[j], j, meta'[registered'[j].subject])
  <2>1. CASE registered'[j].subject = d /\ Holds(registered'[j], j, meta'[d])
    BY <2>1
  <2>2. CASE registered'[j] = registered[j] /\ registered[j].subject # d
    <3>1. Registered(j)
      BY <1>2, <2>2 DEF Registered
    <3>2. Holds(registered[j], j, meta[registered[j].subject])
      BY <3>1, HeldByJob
    <3>3. meta'[registered[j].subject] = meta[registered[j].subject]
      BY <1>1, <1>2, <2>2
    <3> QED
      BY <2>2, <3>2, <3>3
  <2> QED
    BY <1>2, <2>1, <2>2
<1> QED
  BY <1>2 DEF RegistrationHeld, Registered, Holds

\* The records of every subject are typed and in order.
LEMMA RecordsInOrder ==
  ASSUME IInv, NEW d \in Subjects
  PROVE  meta[d] \in Seq(Record) /\ Ascending(meta[d])
BY RecordsTyped DEF IInv, SuffixesAscending, Ascending

\* Job j of subject d gets the proxy p to itself, in the record r, unless p is
\* unfit.
OwnRecord(j, d, server, p, voms, r) ==
  /\ r.jobs = <<j>> /\ r.voms = voms /\ r.server = server
  /\ \A i \in DOMAIN meta[d] : meta[d][i].suffix = r.suffix => meta[d][i].jobs = <<>>
  /\ file' = [file EXCEPT ![d][r.suffix] = p]
  /\ \/ /\ Usable(p, now) /\ r.end = p.leaf
        /\ meta' = [meta EXCEPT ![d] = StoreRecord(meta[d], r)]
        /\ registered' = [registered EXCEPT ![j] =
             [subject |-> d, suffix |-> r.suffix, server |-> server, voms |-> voms]]
     \/ meta' = meta /\ registered' = registered

\* A registration that needs a file of its own finds no jobs that use it.
LEMMA NewRecord ==
  ASSUME IInv, NEW j \in Jobs, NEW d \in Subjects, NEW server \in Servers,
         NEW p \in Proxy, NEW voms \in BOOLEAN, RegisterNew(j, d, server, p, voms)
  PROVE  \E r \in Record : /\ r.suffix \in Suffixes
                           /\ OwnRecord(j, d, server, p, voms, r)
<1> DEFINE md == meta[d]
           C == Candidates(md, server, voms, now)
           s == NewSuffix(md, C)
           r0 == [suffix |-> s, jobs |-> <<j>>, voms |-> voms, server |-> server,
                  next |-> 0, end |-> 0]
           r == Retimed(r0, p, now)
<1>1. TypeOK /\ now \in Nat /\ md \in Seq(Record) /\ Ascending(md)
  BY RecordsInOrder DEF IInv, TypeOK
<1>2. /\ s \in Suffixes /\ s \in Nat
      /\ C = {} => \A i \in DOMAIN md : md[i].suffix < s
      /\ C # {} => Min(C) \in DOMAIN md /\ s = md[Min(C)].suffix
  BY <1>1, NewSuffixTyped DEF RegisterNew
<1>3. /\ NeedsFile(md, C)
      /\ file' = [file EXCEPT ![d][s] = p]
      /\ \/ /\ Usable(p, now)
            /\ meta' = [meta EXCEPT ![d] = StoreRecord(md, r)]
            /\ registered' = [registered EXCEPT ![j] =
                 [subject |-> d, suffix |-> s, server |-> server, voms |-> voms]]
         \/ UNCHANGED <<meta, registered>>
  BY DEF RegisterNew
<1> HIDE DEF s, C
<1>4. ASSUME NEW i \in DOMAIN md, md[i].suffix = s
      PROVE  md[i].jobs = <<>>
  <2>1. C # {}
    BY <1>2, <1>4
  <2>2. i = Min(C)
    BY <1>1, <1>2, <1>4, <2>1, OneRecordEach
  <2> QED
    BY <1>3, <2>1, <2>2 DEF NeedsFile
<1>5. r0 \in Record /\ r0.suffix = s /\ r0.jobs = <<j>>
      /\ r0.voms = voms /\ r0.server = server
  BY <1>2 DEF Record
<1> HIDE DEF r0
<1>6. r \in Record /\ r.suffix = s /\ r.jobs = <<j>>
      /\ r.voms = voms /\ r.server = server
  BY <1>1, <1>5, RetimedKeeps
<1>7. Usable(p, now) => r.end = p.leaf
  BY <1>1, <1>5, RetimedInTime
<1> HIDE DEF r
<1>8. OwnRecord(j, d, server, p, voms, r)
  BY <1>3, <1>4, <1>6, <1>7 DEF OwnRecord
<1> QED
  BY <1>2, <1>6, <1>8

\* Registering with a new proxy file keeps the registrations.
LEMMA HeldRegisterNew ==
  ASSUME IInv, RegistrationHeld, NEW j \in Jobs, NEW d \in Subjects,
         NEW server \in Servers, NEW p \in Proxy, NEW voms \in BOOLEAN,
         RegisterNew(j, d, server, p, voms)
  PROVE  RegistrationHeld'
<1> DEFINE md == meta[d]
<1>1. PICK r \in Record : r.suffix \in Suffixes /\ OwnRecord(j, d, server, p, voms, r)
  BY NewRecord
<1>2. TypeOK /\ TypeOK' /\ md \in Seq(Record)
  BY TypeRegisterNew, RecordsInOrder DEF IInv
<1>3. CASE meta' = meta /\ registered' = registered
  BY <1>3 DEF RegistrationHeld, Registered
<1>4. CASE /\ meta' = [meta EXCEPT ![d] = StoreRecord(md, r)]
           /\ registered' = [registered EXCEPT ![j] =
                [subject |-> d, suffix |-> r.suffix, server |-> server, voms |-> voms]]
  <2>1. /\ meta'[d] = StoreRecord(md, r)
        /\ \A x \in Subjects \ {d} : meta'[x] = meta[x]
        /\ registered' \in [Jobs -> Registration \union {None}]
        /\ registered'[j] =
             [subject |-> d, suffix |-> r.suffix, server |-> server, voms |-> voms]
        /\ \A k \in Jobs \ {j} : registered'[k] = registered[k]
    BY <1>2, <1>4 DEF TypeOK
  <2>2. Holds(registered'[j], j, meta'[d])
    <3>1. Lists(r, j)
      BY <1>1 DEF Lists, OwnRecord
    <3> QED
      BY <1>1, <1>2, <2>1, <3>1, StoreHolds DEF OwnRecord
  <2>3. ASSUME NEW k \in Jobs \ {j}, registered[k] # None, registered[k].subject = d
        PROVE  Holds(registered[k], k, meta'[d])
    <3>1. Holds(registered[k], k, md)
      BY <2>3, HeldByJob DEF Registered
    <3>2. \A i \in DOMAIN md : md[i].suffix = r.suffix => ~Lists(md[i], k)
      BY <1>1 DEF Lists, OwnRecord
    <3> QED
      BY <1>2, <2>1, <3>1, <3>2, StoreHolds
  <2> QED
    BY <2>1, <2>2, <2>3, OneSubjectHeld
<1> QED
  BY <1>1, <1>3, <1>4 DEF OwnRecord

\* Job j of subject d joins the jobs of record c, which becomes q.
JoinedRecord(j, d, server, c, q) ==
  LET r == meta[d][c]
  IN  /\ r \in Record /\ r.jobs # <<>> /\ r.server = server
      /\ now + CondorLimit + ClockSkew <= r.end
      /\ Len(r.jobs) < MaxProxies /\ ~r.voms
      /\ q.suffix = r.suffix /\ q.jobs = Append(r.jobs, j)
      /\ q.voms = r.voms /\ q.server = r.server /\ q.end = r.end
      /\ meta' = [meta EXCEPT ![d] = StoreRecord(meta[d], q)]
      /\ registered' = [registered EXCEPT ![j] =
           [subject |-> d, suffix |-> r.suffix, server |-> server, voms |-> r.voms]]
      /\ file' = file

\* A registration that shares a proxy finds one of its server that lasts.
LEMMA SharedRecord ==
  ASSUME IInv, NEW j \in Jobs, NEW d \in Subjects, NEW server \in Servers,
         NEW voms \in BOOLEAN, RegisterShared(j, d, server, voms)
  PROVE  \E c \in DOMAIN meta[d], q \in Record : JoinedRecord(j, d, server, c, q)
<1> DEFINE md == meta[d]
           c == Min(Candidates(md, server, voms, now))
           r == md[c]
           q == [r EXCEPT !.jobs = Append(r.jobs, j)]
<1>1. TypeOK /\ md \in Seq(Record)
  BY RecordsInOrder DEF IInv
<1>2. /\ Candidates(md, server, voms, now) # {} /\ r.jobs # <<>>
      /\ meta' = [meta EXCEPT ![d] = StoreRecord(md, q)]
      /\ registered' = [registered EXCEPT ![j] =
           [subject |-> d, suffix |-> r.suffix, server |-> server, voms |-> r.voms]]
      /\ file' = file
  BY DEF RegisterShared, NeedsFile
<1>3. c \in DOMAIN md /\ Shareable(r, server, voms, now)
  BY <1>1, <1>2, NewSuffixTyped DEF Free
<1>4. r \in Record
  BY <1>1, <1>3, RecordsTyped
<1>5. /\ r.server = server
      /\ now + CondorLimit + ClockSkew <= r.end
      /\ Len(r.jobs) < MaxProxies /\ ~r.voms
  BY <1>3 DEF Shareable
<1> HIDE DEF c, r
<1>6. /\ q \in Record /\ q.suffix = r.suffix /\ q.jobs = Append(r.jobs, j)
      /\ q.voms = r.voms /\ q.server = r.server /\ q.end = r.end
  BY <1>4 DEF Record
<1> HIDE DEF q
<1>7. JoinedRecord(j, d, server, c, q)
  BY <1>2, <1>4, <1>5, <1>6 DEF r, JoinedRecord
<1> QED
  BY <1>3, <1>6, <1>7

\* Sharing a proxy keeps the registrations.
LEMMA HeldRegisterShared ==
  ASSUME IInv, RegistrationHeld, NEW j \in Jobs, NEW d \in Subjects,
         NEW server \in Servers, NEW voms \in BOOLEAN,
         RegisterShared(j, d, server, voms)
  PROVE  RegistrationHeld'
<1> DEFINE md == meta[d]
<1>1. PICK c \in DOMAIN md, q \in Record : JoinedRecord(j, d, server, c, q)
  BY SharedRecord
<1> DEFINE r == md[c]
<1>2. TypeOK /\ TypeOK' /\ md \in Seq(Record) /\ Ascending(md)
  BY TypeRegisterShared, RecordsInOrder DEF IInv
<1>3. /\ meta'[d] = StoreRecord(md, q)
      /\ \A x \in Subjects \ {d} : meta'[x] = meta[x]
      /\ registered' \in [Jobs -> Registration \union {None}]
      /\ registered'[j] =
           [subject |-> d, suffix |-> q.suffix, server |-> q.server, voms |-> q.voms]
      /\ \A k \in Jobs \ {j} : registered'[k] = registered[k]
  BY <1>1, <1>2 DEF TypeOK, JoinedRecord
<1>4. /\ Lists(q, j)
      /\ \A k \in Jobs : Lists(r, k) => Lists(q, k)
  <2>1. r.jobs \in Seq(Jobs) /\ q.jobs = Append(r.jobs, j)
    BY <1>1 DEF Record, JoinedRecord
  <2>2. /\ Len(r.jobs) + 1 \in DOMAIN q.jobs /\ q.jobs[Len(r.jobs) + 1] = j
        /\ \A m \in DOMAIN r.jobs : m \in DOMAIN q.jobs /\ q.jobs[m] = r.jobs[m]
    BY <2>1
  <2> QED
    BY <2>2 DEF Lists
<1>5. Holds(registered'[j], j, meta'[d])
  BY <1>2, <1>3, <1>4, StoreHolds
<1>6. ASSUME NEW k \in Jobs \ {j}, registered[k] # None, registered[k].subject = d
      PROVE  Holds(registered[k], k, meta'[d])
  <2>1. Holds(registered[k], k, md)
    BY <1>6, HeldByJob DEF Registered
  <2>2. \A i \in DOMAIN md : md[i].suffix = q.suffix => i = c
    BY <1>1, <1>2, OneRecordEach DEF JoinedRecord
  <2>3. q.server = r.server /\ q.voms = r.voms
    BY <1>1 DEF JoinedRecord
  <2> QED
    BY <1>2, <1>3, <1>4, <2>1, <2>2, <2>3, StoreHolds, SMTT(30)
<1> QED
  BY <1>3, <1>5, <1>6, OneSubjectHeld

\* Job j is taken off record i of subject d; the file may go with the last job.
JobRemoved(j, d, i) ==
  /\ Lists(meta[d][i], j)
  /\ meta' = [meta EXCEPT ![d] = StoreRecord(meta[d], WithoutJob(meta[d][i], j))]
  /\ registered' = [registered EXCEPT ![j] = None]
  /\ \/ /\ file' = [file EXCEPT ![d][meta[d][i].suffix] = None]
        /\ WithoutJob(meta[d][i], j).jobs = <<>>
     \/ file' = file

\* Whatever an unregistration names, and where it is cut, that is what it does.
LEMMA Removals ==
  ASSUME IInv, NEW j \in Jobs,
         \/ Unregister(j) \/ UnregisterNamed(j) \/ UnregisterForeign(j)
         \/ CrashInUnregister(j)
  PROVE  \E d \in Subjects : \E i \in DOMAIN meta[d] : JobRemoved(j, d, i)
<1>1. ASSUME NEW d \in Subjects, NEW i \in DOMAIN meta[d], NEW foreign,
             Lists(meta[d][i], j), RemoveJob(j, d, i, foreign)
      PROVE  JobRemoved(j, d, i)
  <2>1. WithoutJob(meta[d][i], j).suffix = meta[d][i].suffix
    BY <1>1, RecordsTyped, WithoutJobKeeps DEF IInv
  <2> QED
    BY <1>1, <2>1 DEF RemoveJob, JobRemoved
<1>2. CASE Unregister(j)
  <2>1. PICK d \in Subjects :
          /\ \E i \in DOMAIN meta[d] : Lists(meta[d][i], j)
          /\ RemoveJob(j, d, FirstListing(meta[d], j), FALSE)
    BY <1>2 DEF Unregister
  <2>2. /\ FirstListing(meta[d], j) \in DOMAIN meta[d]
        /\ Lists(meta[d][FirstListing(meta[d], j)], j)
    BY <2>1, RecordsInOrder, FirstListingLists
  <2> QED
    BY <1>1, <2>1, <2>2
<1>3. CASE UnregisterNamed(j)
  BY <1>1, <1>3 DEF UnregisterNamed
<1>4. CASE UnregisterForeign(j)
  BY <1>1, <1>4 DEF UnregisterForeign
<1>5. CASE CrashInUnregister(j)
  BY <1>5 DEF CrashInUnregister, JobRemoved
<1> QED
  BY <1>2, <1>3, <1>4, <1>5

\* Taking a job off keeps the registrations of the others.
LEMMA HeldRemoved ==
  ASSUME IInv, RegistrationHeld, TypeOK', NEW j \in Jobs, NEW d \in Subjects,
         NEW i \in DOMAIN meta[d], JobRemoved(j, d, i)
  PROVE  RegistrationHeld'
<1> DEFINE md == meta[d]
           q == WithoutJob(md[i], j)
<1>1. TypeOK /\ md \in Seq(Record) /\ Ascending(md) /\ md[i] \in Record
  BY RecordsInOrder, RecordsTyped DEF IInv
<1>2. /\ q \in Record /\ q.suffix = md[i].suffix
      /\ \A k \in Jobs : k # j => (Lists(q, k) <=> Lists(md[i], k))
      /\ q.jobs # <<>> => q.voms = md[i].voms /\ q.server = md[i].server
  BY <1>1, WithoutJobKeeps DEF JobRemoved
<1>3. /\ meta'[d] = StoreRecord(md, q)
      /\ \A x \in Subjects \ {d} : meta'[x] = meta[x]
      /\ registered' \in [Jobs -> Registration \union {None}]
      /\ registered'[j] = None
      /\ \A k \in Jobs \ {j} : registered'[k] = registered[k]
  BY <1>1 DEF TypeOK, JobRemoved
<1> HIDE DEF q
<1>4. ASSUME NEW k \in Jobs \ {j}, registered[k] # None, registered[k].subject = d
      PROVE  Holds(registered[k], k, meta'[d])
  <2>1. Holds(registered[k], k, md)
    BY <1>4, HeldByJob DEF Registered
  <2>2. \A x \in DOMAIN md : md[x].suffix = q.suffix => x = i
    BY <1>1, <1>2, OneRecordEach
  <2>3. Lists(md[i], k) => /\ Lists(q, k)
                           /\ q.server = md[i].server /\ q.voms = md[i].voms
    BY <1>2 DEF Lists
  <2> QED
    BY <1>1, <1>2, <1>3, <2>1, <2>2, <2>3, StoreHolds
<1> QED
  BY <1>3, <1>4, OneSubjectHeld

\* update_db keeps the suffix of a record, and its jobs with their server and
\* kind, or frees it.
LEMMA RecordsAfterKeeps ==
  ASSUME TypeOK, NEW u \in Update, NEW i \in DOMAIN meta[u.subject]
  PROVE  LET r == meta[u.subject][i]
             q == RecordsAfter(u)[i]
         IN  /\ q.suffix = r.suffix
             /\ \/ q.jobs = <<>>
                \/ q.jobs = r.jobs /\ q.voms = r.voms /\ q.server = r.server
<1> DEFINE d == u.subject
           r == meta[d][i]
<1>1. d \in Subjects
  BY DEF Update
<1>2. r \in Record /\ r.suffix \in Suffixes /\ now \in Nat
  BY <1>1, RecordsTyped DEF TypeOK
<1>3. file[d][r.suffix] \in Proxy \union {None}
  BY <1>1, <1>2 DEF TypeOK
<1>4. \/ RecordsAfter(u)[i] = r
      \/ \E e \in Entry :
           RecordsAfter(u)[i] = UpdatedRecord(r, e, file[d][r.suffix], now)
  BY RecordsAfterTyped
<1> HIDE DEF r
<1>5. \A e \in Entry :
        LET q == UpdatedRecord(r, e, file[d][r.suffix], now)
        IN  /\ q.suffix = r.suffix
            /\ \/ q.jobs = <<>>
               \/ q.jobs = r.jobs /\ q.voms = r.voms /\ q.server = r.server
  BY <1>2, <1>3, UpdatedRecordKeeps
<1> QED
  BY <1>4, <1>5 DEF r

\* What update_db does to the registrations, the records and the files: it finds
\* the first request in the queue as u, and of the renewed proxies it misses
\* those in `lost`, only when it is overtaken.
LEMMA DbUpdate ==
  ASSUME IInv, UpdateDb \/ UpdateDbOvertaken
  PROVE  \E u \in Update, lost \in SUBSET Nat :
           /\ SameRequest(Head(updates), u)
           /\ ~Overtaken => u = Head(updates) /\ lost = {}
           /\ u.subject \in Subjects /\ now' = now
           /\ meta'[u.subject] = RecordsAfter(u)
           /\ file'[u.subject] = FilesAfter(u, lost, Len(meta[u.subject]))
           /\ \A x \in Subjects \ {u.subject} : meta'[x] = meta[x] /\ file'[x] = file[x]
           /\ DOMAIN RecordsAfter(u) = DOMAIN meta[u.subject]
           /\ registered' = Forget(u.subject, RecordsAfter(u))
<1>1. TypeOK
  BY DEF IInv
<1>2. PICK u \in Update, lost \in SUBSET Nat :
        /\ UpdateRepository(u, lost)
        /\ SameRequest(Head(updates), u)
        /\ ~Overtaken => u = Head(updates) /\ lost = {}
  BY <1>1, Requests
<1>3. u.subject \in Subjects
  BY DEF Update
<1>4. /\ meta' = [meta EXCEPT ![u.subject] = RecordsAfter(u)]
      /\ file' = [file EXCEPT ![u.subject] =
                    FilesAfter(u, lost, Len(meta[u.subject]))]
      /\ registered' = Forget(u.subject, RecordsAfter(u))
      /\ now' = now
  BY <1>2 DEF UpdateRepository
<1>5. DOMAIN RecordsAfter(u) = DOMAIN meta[u.subject]
  BY <1>1, RecordsAfterTyped
<1>6. /\ meta'[u.subject] = RecordsAfter(u)
      /\ file'[u.subject] = FilesAfter(u, lost, Len(meta[u.subject]))
      /\ \A x \in Subjects \ {u.subject} : meta'[x] = meta[x] /\ file'[x] = file[x]
  BY <1>1, <1>3, <1>4 DEF TypeOK
<1> QED
  BY <1>2, <1>3, <1>4, <1>5, <1>6

\* update_db keeps the registrations whose record it does not drop.
LEMMA HeldUpdateDb ==
  ASSUME IInv, RegistrationHeld, UpdateDb \/ UpdateDbOvertaken
  PROVE  RegistrationHeld'
<1>1. PICK u \in Update :
        /\ u.subject \in Subjects
        /\ meta'[u.subject] = RecordsAfter(u)
        /\ \A x \in Subjects \ {u.subject} : meta'[x] = meta[x]
        /\ DOMAIN RecordsAfter(u) = DOMAIN meta[u.subject]
        /\ registered' = Forget(u.subject, RecordsAfter(u))
  BY DbUpdate
<1> DEFINE d == u.subject
           md == meta[d]
           new == RecordsAfter(u)
<1>2. TypeOK /\ md \in Seq(Record) /\ Ascending(md)
  BY <1>1, RecordsInOrder DEF IInv
<1>3. registered' \in [Jobs -> Registration \union {None}]
  BY <1>1, <1>2, TypeForget
<1>4. ASSUME NEW j \in Jobs, registered'[j] # None
      PROVE  \/ registered'[j] = registered[j] /\ registered[j].subject # d
             \/ registered'[j].subject = d /\ Holds(registered'[j], j, meta'[d])
  <2> DEFINE g == registered[j]
  <2>1. /\ registered'[j] = g /\ Registered(j)
        /\ \/ g.subject # d
           \/ \E i \in DOMAIN new : new[i].suffix = g.suffix /\ Lists(new[i], j)
    BY <1>1, <1>4 DEF Forget, Registered
  <2>2. CASE g.subject # d
    BY <2>1, <2>2
  <2>3. CASE g.subject = d
    <3>1. PICK i \in DOMAIN md : new[i].suffix = g.suffix /\ Lists(new[i], j)
      BY <1>1, <2>1, <2>3
    <3>2. PICK k \in DOMAIN md : /\ md[k].suffix = g.suffix
                                 /\ md[k].server = g.server /\ md[k].voms = g.voms
      BY <2>1, <2>3, HeldByJob DEF Holds
    <3>3. /\ new[i].suffix = md[i].suffix
          /\ new[i].voms = md[i].voms /\ new[i].server = md[i].server
      BY <1>2, <3>1, RecordsAfterKeeps DEF Lists
    <3>4. i = k
      BY <1>2, <3>1, <3>2, <3>3, OneRecordEach
    <3>5. Holds(g, j, new)
      BY <1>1, <3>1, <3>2, <3>3, <3>4 DEF Holds
    <3> QED
      BY <1>1, <2>1, <2>3, <3>5
  <2> QED
    BY <2>2, <2>3
<1> QED
  BY <1>1, <1>3, <1>4, OneSubjectHeld

\* Every other step leaves the records and registrations alone, and one that
\* kills no handler leaves the files alone, too.
LEMMA OtherSteps ==
  ASSUME [Next]_vars
  PROVE  \/ \E j \in Jobs : \/ Register(j) \/ Unregister(j)
                            \/ UnregisterNamed(j) \/ UnregisterForeign(j)
                            \/ CrashInUnregister(j)
         \/ UpdateDb \/ UpdateDbOvertaken
         \/ MasterDies /\ UNCHANGED <<meta, registered>>
         \/ UNCHANGED <<meta, file, registered>>
<1>1. CASE UNCHANGED vars
  BY <1>1 DEF vars, disk
<1>2. CASE \E j \in Jobs : CrashInRegister(j)
  BY <1>2 DEF CrashInRegister
<1>3. CASE \/ Tick \/ RestartWatchdog \/ Crash \/ CrashInUpdateDb \/ MasterRestart
  BY <1>3 DEF Tick, RestartWatchdog, Crash, CrashInUpdateDb, MasterRestart, disk
<1>4. CASE \E w \in Watchdogs : \/ WatchdogStep(w) \/ Timeout(w)
                                \/ WatchdogExits(w) \/ WatchdogDies(w)
  BY <1>4 DEF WatchdogStep, WakeUp, CheckRenewal, FinishScan, RenewProxy,
              SendUpdate, Timeout, WatchdogExits, WatchdogDies, disk
<1> QED
  BY <1>1, <1>2, <1>3, <1>4 DEF Next

\* How a request to register ends.
LEMMA Registers ==
  ASSUME IInv, NEW j \in Jobs, Register(j)
  PROVE  \E d \in Subjects, server \in Servers, p \in Proxy, voms \in BOOLEAN :
           \/ RegisterNew(j, d, server, p, voms)
           \/ RegisterShared(j, d, server, voms)
<1>1. PICK d \in Subjects, server \in Servers, p \in Issued(ClientLives) :
        \E voms \in VomsFound(p) : \/ RegisterNew(j, d, server, p, voms)
                                   \/ RegisterShared(j, d, server, voms)
  BY DEF Register
<1>2. PICK voms \in BOOLEAN : \/ RegisterNew(j, d, server, p, voms)
                              \/ RegisterShared(j, d, server, voms)
  BY <1>1 DEF VomsFound
<1>3. p \in Proxy
  BY IssuedTyped, DaemonAssumption DEF IInv, TypeOK
<1> QED
  BY <1>2, <1>3

\* No step breaks what a client was told.
LEMMA HeldStep == IInv /\ IInv' /\ RegistrationHeld /\ [Next]_vars => RegistrationHeld'
<1> SUFFICES ASSUME IInv, IInv', RegistrationHeld, [Next]_vars
             PROVE  RegistrationHeld'
  OBVIOUS
<1>1. ASSUME NEW j \in Jobs, Register(j)
      PROVE  RegistrationHeld'
  BY <1>1, Registers, HeldRegisterNew, HeldRegisterShared
<1>2. ASSUME NEW j \in Jobs,
             \/ Unregister(j) \/ UnregisterNamed(j) \/ UnregisterForeign(j)
             \/ CrashInUnregister(j)
      PROVE  RegistrationHeld'
  <2>1. TypeOK'
    BY DEF IInv
  <2> QED
    BY <1>2, <2>1, Removals, HeldRemoved
<1>3. CASE UpdateDb \/ UpdateDbOvertaken
  BY <1>3, HeldUpdateDb
<1>4. CASE UNCHANGED <<meta, registered>>
  BY <1>4 DEF RegistrationHeld, Registered
<1> QED
  BY <1>1, <1>2, <1>3, <1>4, OtherSteps

\* What a client was told holds until it unregisters or the proxy expires,
\* whatever is killed, repeated or renewed meanwhile: the record of its
\* registration lists the job, with its server and its kind of proxy.
THEOREM RegistrationsKept == Spec => []RegistrationHeld
<1>1. Init => RegistrationHeld
  BY DEF Init, RegistrationHeld, Registered
<1> QED
  BY <1>1, HeldStep, InvariantHolds, PTL DEF Spec

-------------------------------------------------------------------------------
(* The times of the records.                                               *)

\* The records of subject d that do not tell when their file ends.
Undated(d) == {i \in DOMAIN meta[d] : ~Dated(meta[d][i], file[d])}

\* Of the records md, all but those in K tell when their file among f ends.
AllDated(md, f, K) == \A i \in DOMAIN md \ K : Dated(md[i], f)

\* A step parts no record from its file.
DatedKept == \A d \in Subjects : AllDated(meta'[d], file'[d], Undated(d))

\* What TimesFollowFile says of a step.
TimesKept ==
  \A d \in Subjects : \A i \in DOMAIN meta'[d] :
    LET r == meta'[d][i]
    IN  ~Dated(r, file'[d]) =>
          /\ i \in DOMAIN meta[d]
          /\ \/ ~Dated(meta[d][i], file[d])
             \/ /\ Overtaken
                /\ file'[d][r.suffix] = file[d][r.suffix]
                /\ \E k \in DOMAIN Head(updates).entries :
                     LET e == Head(updates).entries[k]
                     IN  /\ e.suffix = r.suffix /\ e.renewed
                         /\ Usable(e.tmp, now) /\ e.tmp.leaf = r.end

LEMMA DatedIsKept == DatedKept => TimesKept
BY DEF DatedKept, TimesKept, AllDated, Undated

\* A step on one subject keeps the times of the others.
LEMMA OneSubjectDated ==
  ASSUME NEW d \in Subjects,
         \A x \in Subjects \ {d} : meta'[x] = meta[x] /\ file'[x] = file[x],
         AllDated(meta'[d], file'[d], Undated(d))
  PROVE  DatedKept
<1> SUFFICES ASSUME NEW x \in Subjects
             PROVE  AllDated(meta'[x], file'[x], Undated(x))
  BY DEF DatedKept
<1>1. CASE x = d
  BY <1>1
<1>2. CASE x # d
  BY <1>2 DEF AllDated, Undated
<1> QED
  BY <1>1, <1>2

\* Storing a record keeps the times, if it has those of its file; g are the
\* proxy files after it.
LEMMA StoreDated ==
  ASSUME NEW md \in Seq(Record), NEW r \in Record, NEW f, NEW g, NEW K,
         AllDated(md, f, K),
         \A i \in DOMAIN md : md[i].suffix = r.suffix => i \in K \/ Dated(r, g),
         (\A i \in DOMAIN md : md[i].suffix # r.suffix) => Dated(r, g),
         \A i \in DOMAIN md : md[i].suffix # r.suffix => g[md[i].suffix] = f[md[i].suffix]
  PROVE  AllDated(StoreRecord(md, r), g, K)
<1> DEFINE new == StoreRecord(md, r)
<1> SUFFICES ASSUME NEW i \in DOMAIN new \ K PROVE Dated(new[i], g)
  BY DEF AllDated
<1>1. CASE i \notin DOMAIN md
  BY <1>1, StoreRecordIsSeq
<1>2. CASE i \in DOMAIN md /\ md[i].suffix = r.suffix
  BY <1>2, StoreRecordIsSeq
<1>3. CASE i \in DOMAIN md /\ md[i].suffix # r.suffix
  <2>1. new[i] = md[i]
    BY <1>3, StoreRecordIsSeq
  <2> QED
    BY <1>3, <2>1 DEF AllDated, Dated
<1> QED
  BY <1>1, <1>2, <1>3

\* A new proxy file is dated when its record is stored; when it is unfit, it is
\* in no use.
LEMMA DatedRegisterNew ==
  ASSUME IInv, NEW j \in Jobs, NEW d \in Subjects,
         NEW server \in Servers, NEW p \in Proxy, NEW voms \in BOOLEAN,
         RegisterNew(j, d, server, p, voms)
  PROVE  DatedKept
<1> DEFINE md == meta[d]
<1>1. PICK r \in Record : r.suffix \in Suffixes /\ OwnRecord(j, d, server, p, voms, r)
  BY NewRecord
<1>2. TypeOK /\ md \in Seq(Record) /\ AllDated(md, file[d], Undated(d))
  BY RecordsInOrder DEF IInv, AllDated, Undated
<1>3. p # None
  BY NoneAssumption DEF MissingIsNoProxy
<1>4. \A i \in DOMAIN md : md[i].suffix \in Suffixes
  BY <1>2, RecordsTyped
<1>5. /\ file'[d][r.suffix] = p
      /\ \A x \in Suffixes \ {r.suffix} : file'[d][x] = file[d][x]
      /\ \A x \in Subjects \ {d} : file'[x] = file[x]
  BY <1>1, <1>2 DEF TypeOK, OwnRecord
<1>6. CASE meta' = meta
  <2>1. \A i \in DOMAIN md : md[i].suffix = r.suffix => md[i].jobs = <<>>
    BY <1>1 DEF OwnRecord
  <2>2. AllDated(md, file'[d], Undated(d))
    BY <1>2, <1>4, <1>5, <2>1 DEF AllDated, Dated
  <2> QED
    BY <1>5, <1>6, <2>2, OneSubjectDated
<1>7. CASE r.end = p.leaf /\ meta' = [meta EXCEPT ![d] = StoreRecord(md, r)]
  <2>1. Dated(r, file'[d])
    BY <1>3, <1>5, <1>7 DEF Dated
  <2>2. AllDated(StoreRecord(md, r), file'[d], Undated(d))
    BY <1>1, <1>2, <1>4, <1>5, <2>1, StoreDated
  <2>3. /\ meta'[d] = StoreRecord(md, r)
        /\ \A x \in Subjects \ {d} : meta'[x] = meta[x]
    BY <1>2, <1>7 DEF TypeOK
  <2> QED
    BY <1>5, <2>2, <2>3, OneSubjectDated
<1> QED
  BY <1>1, <1>6, <1>7 DEF OwnRecord

\* Sharing a proxy dates nothing.
LEMMA DatedRegisterShared ==
  ASSUME IInv, NEW j \in Jobs, NEW d \in Subjects,
         NEW server \in Servers, NEW voms \in BOOLEAN,
         RegisterShared(j, d, server, voms)
  PROVE  DatedKept
<1> DEFINE md == meta[d]
<1>1. PICK c \in DOMAIN md, q \in Record : JoinedRecord(j, d, server, c, q)
  BY SharedRecord
<1>2. /\ TypeOK /\ md \in Seq(Record) /\ Ascending(md)
      /\ AllDated(md, file[d], Undated(d))
  BY RecordsInOrder DEF IInv, AllDated, Undated
<1>3. /\ md[c].suffix = q.suffix
      /\ c \in Undated(d) \/ Dated(q, file[d])
  BY <1>1, <1>2 DEF AllDated, Dated, JoinedRecord
<1>4. \A i \in DOMAIN md : md[i].suffix = q.suffix => i = c
  BY <1>1, <1>2, <1>3, OneRecordEach
<1>5. AllDated(StoreRecord(md, q), file[d], Undated(d))
  <2>1. /\ \A i \in DOMAIN md : md[i].suffix = q.suffix =>
             i \in Undated(d) \/ Dated(q, file[d])
        /\ ~\A i \in DOMAIN md : md[i].suffix # q.suffix
    BY <1>1, <1>3, <1>4
  <2> QED
    BY <1>2, <2>1, StoreDated
<1>6. /\ meta'[d] = StoreRecord(md, q) /\ file' = file
      /\ \A x \in Subjects \ {d} : meta'[x] = meta[x]
  BY <1>1, <1>2 DEF TypeOK, JoinedRecord
<1> QED
  BY <1>5, <1>6, OneSubjectDated

\* A file goes with the last of its jobs only.
LEMMA DatedRemoved ==
  ASSUME IInv, NEW j \in Jobs, NEW d \in Subjects,
         NEW i \in DOMAIN meta[d], JobRemoved(j, d, i)
  PROVE  DatedKept
<1> DEFINE md == meta[d]
           q == WithoutJob(md[i], j)
<1>1. /\ TypeOK /\ md \in Seq(Record) /\ Ascending(md)
      /\ AllDated(md, file[d], Undated(d))
      /\ md[i] \in Record
      /\ \A k \in DOMAIN md : md[k].suffix \in Suffixes
  BY RecordsInOrder, RecordsTyped DEF IInv, AllDated, Undated
<1>2. /\ q \in Record /\ q.suffix = md[i].suffix /\ md[i].jobs # <<>>
      /\ q.jobs # <<>> => q.end = md[i].end
  <2>1. md[i].jobs # <<>>
    BY DEF JobRemoved, Lists
  <2> QED
    BY <1>1, <2>1, WithoutJobKeeps DEF JobRemoved
<1>3. /\ meta'[d] = StoreRecord(md, q)
      /\ \A x \in Subjects \ {d} : meta'[x] = meta[x] /\ file'[x] = file[x]
      /\ \A x \in Suffixes \ {q.suffix} : file'[d][x] = file[d][x]
      /\ q.jobs # <<>> => file'[d] = file[d]
  BY <1>1, <1>2 DEF TypeOK, JobRemoved
<1> HIDE DEF q
<1>4. i \in Undated(d) \/ Dated(q, file'[d])
  BY <1>1, <1>2, <1>3 DEF AllDated, Dated
<1>5. \A k \in DOMAIN md : md[k].suffix = q.suffix => k = i
  BY <1>1, <1>2, OneRecordEach
<1>6. AllDated(StoreRecord(md, q), file'[d], Undated(d))
  <2>1. /\ \A k \in DOMAIN md : md[k].suffix = q.suffix =>
             k \in Undated(d) \/ Dated(q, file'[d])
        /\ ~\A k \in DOMAIN md : md[k].suffix # q.suffix
        /\ \A k \in DOMAIN md :
             md[k].suffix # q.suffix => file'[d][md[k].suffix] = file[d][md[k].suffix]
    BY <1>1, <1>2, <1>3, <1>4, <1>5
  <2> QED
    BY <1>1, <1>2, <2>1, StoreDated
<1> QED
  BY <1>3, <1>6, OneSubjectDated

\* What update_db makes of a record tells when the file it leaves ends.
LEMMA UpdatedDated ==
  ASSUME NEW r \in Record, NEW e \in Entry, NEW current \in Proxy \union {None},
         NEW t \in Nat, r.jobs # <<>> => current # None /\ current.leaf = r.end
  PROVE  LET q == UpdatedRecord(r, e, current, t)
             f == UpdatedFile(r, e, current, t)
         IN  q.jobs # <<>> => f # None /\ f.leaf = q.end
<1> DEFINE p == IF e.renewed THEN e.tmp ELSE current
<1>1. p \in Proxy \union {None}
  BY DEF Entry
<1>2. CASE Drops(r, e, t)
  <2>1. UpdatedRecord(r, e, current, t) =
          [r EXCEPT !.jobs = <<>>, !.voms = FALSE, !.next = 0, !.end = 0]
    BY <1>2 DEF UpdatedRecord
  <2> QED
    BY <2>1, FreedIsRecord
<1>3. CASE ~Drops(r, e, t)
  <2>1. UpdatedRecord(r, e, current, t) = Retimed(r, p, t)
    BY <1>3 DEF UpdatedRecord
  <2>2. UpdatedFile(r, e, current, t) =
          IF e.renewed /\ Usable(e.tmp, t) THEN e.tmp ELSE current
    BY <1>3 DEF UpdatedFile
  <2>3. Retimed(r, p, t).jobs = r.jobs
    BY <1>1, RetimedKeeps
  <2>4. CASE Usable(p, t)
    <3>1. Retimed(r, p, t).end = p.leaf /\ p # None
      BY <1>1, <2>4, RetimedInTime DEF Usable
    <3>2. UpdatedFile(r, e, current, t) = p
      BY <2>2, <2>4
    <3> QED
      BY <2>1, <3>1, <3>2
  <2>5. CASE ~Usable(p, t)
    <3>1. Retimed(r, p, t) = r
      BY <2>5 DEF Retimed
    <3>2. UpdatedFile(r, e, current, t) = current
      BY <2>2, <2>5
    <3> QED
      BY <2>1, <3>1, <3>2
  <2> QED
    BY <2>4, <2>5
<1> QED
  BY <1>2, <1>3

\* When the renewed proxy is gone at the rename, the record tells when the old
\* file ends, or when the renewed one would have.
LEMMA LostDated ==
  ASSUME NEW r \in Record, NEW e \in Entry, NEW current \in Proxy \union {None},
         NEW t \in Nat, r.jobs # <<>> => current # None /\ current.leaf = r.end
  PROVE  LET q == UpdatedRecord(r, e, current, t)
         IN  \/ q.jobs # <<>> => current # None /\ current.leaf = q.end
             \/ e.renewed /\ Usable(e.tmp, t) /\ e.tmp.leaf = q.end
<1> DEFINE p == IF e.renewed THEN e.tmp ELSE current
           q == UpdatedRecord(r, e, current, t)
<1>1. p \in Proxy \union {None}
  BY DEF Entry
<1>2. CASE Drops(r, e, t)
  <2>1. q = [r EXCEPT !.jobs = <<>>, !.voms = FALSE, !.next = 0, !.end = 0]
    BY <1>2 DEF UpdatedRecord
  <2> QED
    BY <2>1, FreedIsRecord
<1>3. CASE ~Drops(r, e, t)
  <2>1. q = Retimed(r, p, t)
    BY <1>3 DEF UpdatedRecord
  <2>2. CASE Usable(p, t)
    <3>1. q.end = p.leaf /\ p # None
      BY <1>1, <2>1, <2>2, RetimedInTime DEF Usable
    <3> QED
      BY <2>2, <3>1
  <2>3. CASE ~Usable(p, t)
    BY <2>1, <2>3 DEF Retimed
  <2> QED
    BY <2>2, <2>3
<1> QED
  BY <1>2, <1>3

\* update_db replaces a file and the times of its record together, unless it is
\* overtaken and misses the renewed proxy.
LEMMA DatedUpdateDb ==
  ASSUME IInv, UpdateDb \/ UpdateDbOvertaken
  PROVE  TimesKept
<1>1. PICK u \in Update, lost \in SUBSET Nat :
        /\ SameRequest(Head(updates), u)
        /\ ~Overtaken => u = Head(updates) /\ lost = {}
        /\ u.subject \in Subjects
        /\ meta'[u.subject] = RecordsAfter(u)
        /\ file'[u.subject] = FilesAfter(u, lost, Len(meta[u.subject]))
        /\ \A x \in Subjects \ {u.subject} : meta'[x] = meta[x] /\ file'[x] = file[x]
        /\ DOMAIN RecordsAfter(u) = DOMAIN meta[u.subject]
  BY DbUpdate
<1> DEFINE d == u.subject
           md == meta[d]
           n == Len(md)
           new == FilesAfter(u, lost, n)
           Missed(r) ==
             /\ Overtaken
             /\ file'[d][r.suffix] = file[d][r.suffix]
             /\ \E k \in DOMAIN Head(updates).entries :
                  LET e == Head(updates).entries[k]
                  IN  /\ e.suffix = r.suffix /\ e.renewed
                      /\ Usable(e.tmp, now) /\ e.tmp.leaf = r.end
<1>2. /\ TypeOK /\ now \in Nat /\ md \in Seq(Record) /\ Ascending(md)
  BY <1>1, RecordsInOrder DEF IInv, TypeOK
<1>3. ASSUME NEW k \in DOMAIN md
      PROVE  LET q == RecordsAfter(u)[k]
             IN  \/ Dated(q, file'[d])
                 \/ k \in Undated(d)
                 \/ Missed(q)
  <2> DEFINE r == md[k]
             c == Cursor(md, u.entries)[k]
             e == u.entries[c]
             old == file[d][r.suffix]
             q == RecordsAfter(u)[k]
  <2>0. TypeOK /\ u \in Update /\ Ascending(meta[u.subject]) /\ k \in DOMAIN meta[u.subject]
    BY <1>1, <1>2, <1>3
  <2>1. /\ r \in Record /\ q.suffix = r.suffix /\ old \in Proxy \union {None}
        /\ \/ q = r /\ new[r.suffix] = old
           \/ /\ c \in DOMAIN u.entries /\ e \in Entry /\ e.suffix = r.suffix
              /\ q = UpdatedRecord(r, e, old, now)
              /\ \/ c \notin lost /\ new[r.suffix] = UpdatedFile(r, e, old, now)
                 \/ c \in lost /\ new[r.suffix] = old
    BY <2>0, RecordAfterAt, ZenonT(30)
  <2>2. \/ k \in Undated(d)
        \/ r.jobs # <<>> => old # None /\ old.leaf = r.end
    BY DEF Undated, Dated
  <2> SUFFICES ASSUME k \notin Undated(d) PROVE Dated(q, file'[d]) \/ Missed(q)
    BY DEF q
  <2>3. file'[d] = new
    BY <1>1
  <2>4. c \in DOMAIN u.entries =>
          /\ c \in DOMAIN Head(updates).entries
          /\ Head(updates).entries[c].suffix = e.suffix
          /\ Head(updates).entries[c].renewed = e.renewed
          /\ e.tmp # None => Head(updates).entries[c].tmp = e.tmp
    BY <1>1 DEF SameRequest
  <2> HIDE DEF q, e, new, r, old, c
  <2>5. CASE q = r /\ new[r.suffix] = old
    BY <2>2, <2>3, <2>5 DEF Dated
  <2>6. CASE /\ e \in Entry /\ q = UpdatedRecord(r, e, old, now)
             /\ new[r.suffix] = UpdatedFile(r, e, old, now)
    <3>1. q.jobs # <<>> => new[r.suffix] # None /\ new[r.suffix].leaf = q.end
      BY <1>2, <2>1, <2>2, <2>6, UpdatedDated
    <3> QED
      BY <2>1, <2>3, <3>1 DEF Dated
  <2>7. CASE /\ c \in DOMAIN u.entries /\ e \in Entry /\ e.suffix = r.suffix
             /\ q = UpdatedRecord(r, e, old, now)
             /\ c \in lost /\ new[r.suffix] = old
    <3>1. \/ q.jobs # <<>> => old # None /\ old.leaf = q.end
          \/ e.renewed /\ Usable(e.tmp, now) /\ e.tmp.leaf = q.end
      BY <1>2, <2>1, <2>2, <2>7, LostDated
    <3>2. CASE q.jobs # <<>> => old # None /\ old.leaf = q.end
      BY <2>1, <2>3, <2>7, <3>2 DEF Dated
    <3>3. CASE e.renewed /\ Usable(e.tmp, now) /\ e.tmp.leaf = q.end
      <4>1. Overtaken
        BY <1>1, <2>7
      <4>2. file'[d][q.suffix] = file[d][q.suffix]
        BY <2>1, <2>3, <2>7 DEF old
      <4>3. e.tmp # None
        BY <3>3 DEF Usable
      <4>4. /\ c \in DOMAIN Head(updates).entries
            /\ Head(updates).entries[c].suffix = q.suffix
            /\ Head(updates).entries[c].renewed
            /\ Usable(Head(updates).entries[c].tmp, now)
            /\ Head(updates).entries[c].tmp.leaf = q.end
        BY <2>1, <2>4, <2>7, <3>3, <4>3
      <4> QED
        BY <4>1, <4>2, <4>4
    <3> QED
      BY <3>1, <3>2, <3>3
  <2> QED
    BY <2>1, <2>5, <2>6, <2>7
<1> SUFFICES ASSUME NEW x \in Subjects, NEW i \in DOMAIN meta'[x],
                    ~Dated(meta'[x][i], file'[x])
             PROVE  LET r == meta'[x][i]
                    IN  /\ i \in DOMAIN meta[x]
                        /\ \/ ~Dated(meta[x][i], file[x])
                           \/ x = d /\ Missed(r)
  BY DEF TimesKept
<1> HIDE DEF Missed
<1>4. CASE x = d
  BY <1>1, <1>3, <1>4 DEF Undated
<1>5. CASE x # d
  BY <1>1, <1>5
<1> QED
  BY <1>4, <1>5

\* While nothing is killed every step keeps the times.
LEMMA DatedStep ==
  ASSUME "kill" \notin Faults, IInv, [Next]_vars
  PROVE  TimesKept
<1>1. ~MasterDies /\ \A j \in Jobs : ~CrashInUnregister(j)
  BY DEF MasterDies, CrashInUnregister
<1>2. ASSUME NEW j \in Jobs, Register(j)
      PROVE  DatedKept
  BY <1>2, Registers, DatedRegisterNew, DatedRegisterShared
<1>3. ASSUME NEW j \in Jobs, Unregister(j) \/ UnregisterNamed(j) \/ UnregisterForeign(j)
      PROVE  DatedKept
  BY <1>3, Removals, DatedRemoved
<1>4. CASE UpdateDb \/ UpdateDbOvertaken
  BY <1>4, DatedUpdateDb
<1>5. ASSUME UNCHANGED <<meta, file, registered>> PROVE DatedKept
  <2>1. meta' = meta /\ file' = file
    BY <1>5
  <2> SUFFICES ASSUME NEW d \in Subjects
               PROVE  AllDated(meta'[d], file'[d], Undated(d))
    BY DEF DatedKept
  <2>2. AllDated(meta[d], file[d], Undated(d))
    BY DEF AllDated, Undated
  <2> QED
    BY <2>1, <2>2
<1> QED
  BY <1>1, <1>2, <1>3, <1>4, <1>5, DatedIsKept, OtherSteps

\* Unless processes are killed, no step parts the end that the record of a proxy
\* in use tells from the end of its file, for any clients, renewals, failures and
\* number of watchdogs, but an update_db whose watchdog deletes the renewed proxy
\* between the reading of its times and the rename.
THEOREM TimesStayTrue ==
  ASSUME "kill" \notin Faults
  PROVE  Spec => TimesFollowFile
<1>1. IInv /\ [Next]_vars => [TimesKept]_vars
  BY DatedStep
<1> QED
  BY <1>1, InvariantHolds, PTL DEF Spec, TimesFollowFile, TimesKept

-------------------------------------------------------------------------------
(* What the records list.                                                  *)

\* A record of subject d lists every job once, and only jobs that R registers
\* there.
HomeRecord(r, d, R) ==
  /\ \A k, l \in DOMAIN r.jobs : r.jobs[k] = r.jobs[l] => k = l
  /\ \A j \in Jobs : Lists(r, j) => /\ R[j] # None
                                    /\ R[j].subject = d
                                    /\ R[j].suffix = r.suffix

\* Every job is listed at most once, and where it is registered.  A client that
\* registers a job again breaks this: the job leaves its home for another.
AllAtHome ==
  \A d \in Subjects : \A i \in DOMAIN meta[d] : HomeRecord(meta[d][i], d, registered)

\* A step on the records of one subject keeps the jobs at home, if it keeps
\* those of the subject, and the registrations with the others.
LEMMA OneSubjectHome ==
  ASSUME AllAtHome, NEW d \in Subjects,
         \A x \in Subjects \ {d} : meta'[x] = meta[x],
         \A i \in DOMAIN meta'[d] : HomeRecord(meta'[d][i], d, registered'),
         \A j \in Jobs : registered[j] # None /\ registered[j].subject # d =>
                           registered'[j] = registered[j]
  PROVE  AllAtHome'
<1>1. ASSUME NEW x \in Subjects \ {d}, NEW i \in DOMAIN meta'[x]
      PROVE  HomeRecord(meta'[x][i], x, registered')
  <2>1. meta'[x] = meta[x] /\ HomeRecord(meta[x][i], x, registered)
    BY <1>1 DEF AllAtHome
  <2> QED
    BY <2>1 DEF HomeRecord
<1>2. \A x \in Subjects : \A i \in DOMAIN meta'[x] :
        HomeRecord(meta'[x][i], x, registered')
  BY <1>1
<1> QED
  BY <1>2 DEF AllAtHome, HomeRecord

\* A stored record is at home with the others.
LEMMA StoreHome ==
  ASSUME NEW md \in Seq(Record), NEW r \in Record, NEW d, NEW R,
         HomeRecord(r, d, R),
         \A i \in DOMAIN md : md[i].suffix # r.suffix => HomeRecord(md[i], d, R)
  PROVE  \A i \in DOMAIN StoreRecord(md, r) : HomeRecord(StoreRecord(md, r)[i], d, R)
<1> SUFFICES ASSUME NEW i \in DOMAIN StoreRecord(md, r)
             PROVE  HomeRecord(StoreRecord(md, r)[i], d, R)
  OBVIOUS
<1>1. \/ StoreRecord(md, r)[i] = r
      \/ i \in DOMAIN md /\ md[i].suffix # r.suffix /\ StoreRecord(md, r)[i] = md[i]
  BY StoreRecordIsSeq
<1> QED
  BY <1>1

\* A job that is registered for the first time is at home in the record stored
\* for it, be it a new one or a shared one.
LEMMA HomeRegister ==
  ASSUME "repeat" \notin Habits, IInv, TypeOK', AllAtHome, NEW j \in Jobs,
         NEW d \in Subjects, MayRegister(j, d), NEW r \in Record,
         meta' = [meta EXCEPT ![d] = StoreRecord(meta[d], r)],
         NEW g \in Registration, g.subject = d, g.suffix = r.suffix,
         registered' = [registered EXCEPT ![j] = g],
         \/ r.jobs = <<j>>
         \/ \E c \in DOMAIN meta[d] : /\ r.suffix = meta[d][c].suffix
                                      /\ r.jobs = Append(meta[d][c].jobs, j)
  PROVE  AllAtHome'
<1> DEFINE md == meta[d]
<1>1. TypeOK /\ md \in Seq(Record)
  BY RecordsInOrder DEF IInv
<1>2. registered[j] = None
  BY DEF MayRegister, Registered
<1>3. /\ meta'[d] = StoreRecord(md, r)
      /\ \A x \in Subjects \ {d} : meta'[x] = meta[x]
      /\ registered'[j] = g /\ g # None
      /\ \A k \in Jobs \ {j} : registered'[k] = registered[k]
  <2>1. g # None
    BY RegistrationAssumption DEF NoneIsNoRegistration
  <2> QED
    BY <1>1, <2>1 DEF TypeOK
<1>4. \A i \in DOMAIN md : HomeRecord(md[i], d, registered) /\ ~Lists(md[i], j)
  BY <1>2 DEF AllAtHome, HomeRecord
<1>5. \A i \in DOMAIN md : HomeRecord(md[i], d, registered')
  BY <1>3, <1>4 DEF HomeRecord
<1>6. HomeRecord(r, d, registered')
  <2>1. CASE r.jobs = <<j>>
    <3>1. \A k \in DOMAIN r.jobs : k = 1 /\ r.jobs[k] = j
      BY <2>1
    <3> QED
      BY <1>3, <3>1 DEF HomeRecord, Lists
  <2>2. ASSUME NEW c \in DOMAIN md, r.suffix = md[c].suffix,
               r.jobs = Append(md[c].jobs, j)
        PROVE  HomeRecord(r, d, registered')
    <3> DEFINE old == md[c].jobs
               n == Len(old)
    <3>1. md[c] \in Record /\ HomeRecord(md[c], d, registered') /\ ~Lists(md[c], j)
      BY <1>1, <1>4, <1>5, RecordsTyped
    <3>2. old \in Seq(Jobs) /\ n \in Nat
      BY <3>1 DEF Record
    <3>3. /\ DOMAIN old = 1..n /\ DOMAIN r.jobs = 1..(n + 1)
          /\ r.jobs[n + 1] = j
          /\ \A k \in 1..n : r.jobs[k] = old[k] /\ old[k] # j
      <4>1. /\ DOMAIN old = 1..n
            /\ Len(Append(old, j)) = n + 1 /\ DOMAIN Append(old, j) = 1..(n + 1)
            /\ Append(old, j)[n + 1] = j
            /\ \A k \in 1..n : Append(old, j)[k] = old[k]
        <5> HIDE DEF old
        <5> QED
          BY <3>2, SMTT(30)
      <4>2. \A k \in DOMAIN old : old[k] # j
        BY <3>1 DEF Lists
      <4> QED
        BY <2>2, <4>1, <4>2
    <3> HIDE DEF old, n
    <3>4. \A k, l \in 1..n : old[k] = old[l] => k = l
      BY <3>1, <3>3 DEF HomeRecord, old
    <3>5. ASSUME NEW k \in DOMAIN r.jobs, NEW l \in DOMAIN r.jobs,
                 r.jobs[k] = r.jobs[l]
          PROVE  k = l
      <4>1. (k \in 1..n \/ k = n + 1) /\ (l \in 1..n \/ l = n + 1)
        BY <3>2, <3>3
      <4> QED
        BY <3>3, <3>4, <3>5, <4>1
    <3>6. ASSUME NEW k \in Jobs, Lists(r, k)
          PROVE  /\ registered'[k] # None /\ registered'[k].subject = d
                 /\ registered'[k].suffix = r.suffix
      <4>1. CASE k = j
        BY <1>3, <4>1
      <4>2. CASE k # j
        <5>1. PICK x \in 1..(n + 1) : r.jobs[x] = k
          BY <3>3, <3>6 DEF Lists
        <5>2. x \in 1..n
          BY <3>2, <3>3, <4>2, <5>1
        <5>3. Lists(md[c], k)
          BY <3>3, <5>1, <5>2 DEF Lists, old
        <5> QED
          BY <2>2, <3>1, <5>3 DEF HomeRecord
      <4> QED
        BY <4>1, <4>2
    <3> QED
      BY <3>5, <3>6 DEF HomeRecord
  <2> QED
    BY <2>1, <2>2
<1>7. \A i \in DOMAIN meta'[d] : HomeRecord(meta'[d][i], d, registered')
  <2> DEFINE R == registered'
             new == StoreRecord(md, r)
  <2>1. \A i \in DOMAIN md : HomeRecord(md[i], d, R)
    BY <1>5
  <2>2. HomeRecord(r, d, R)
    BY <1>6
  <2> HIDE DEF R, md
  <2>3. \A i \in DOMAIN new : HomeRecord(new[i], d, R)
    BY <1>1, <2>1, <2>2, StoreHome
  <2> QED
    BY <1>3, <2>3 DEF R
<1>8. \A k \in Jobs : registered[k] # None => registered'[k] = registered[k]
  BY <1>2, <1>3
<1> QED
  BY <1>3, <1>7, <1>8, OneSubjectHome

\* A job listed once is gone from the record, and the others stay listed once.
LEMMA WithoutJobOnce ==
  ASSUME NEW r \in Record, NEW j \in Jobs, Lists(r, j),
         \A k, l \in DOMAIN r.jobs : r.jobs[k] = r.jobs[l] => k = l
  PROVE  LET q == WithoutJob(r, j)
         IN  /\ ~Lists(q, j)
             /\ \A k, l \in DOMAIN q.jobs : q.jobs[k] = q.jobs[l] => k = l
<1> DEFINE n == Len(r.jobs)
           q == WithoutJob(r, j)
<1>1. r.jobs \in Seq(Jobs) /\ n \in Nat /\ DOMAIN r.jobs = 1..n
  BY DEF Record
<1>2. PICK m \in 1..n, rest \in Seq(Jobs) :
        /\ r.jobs[m] = j
        /\ Len(rest) = n - 1
        /\ \A i \in 1..(m - 1) : rest[i] = r.jobs[i]
        /\ \A i \in m..(n - 1) : rest[i] = r.jobs[i + 1]
        /\ q = IF rest = <<>>
                 THEN [r EXCEPT !.jobs = <<>>, !.voms = FALSE, !.next = 0, !.end = 0]
                 ELSE [r EXCEPT !.jobs = rest]
  BY WithoutJobShifts
<1>3. q.jobs = rest
  <2>1. CASE rest = <<>>
    BY <1>2, <2>1, FreedIsRecord
  <2>2. CASE rest # <<>>
    BY <1>2, <2>2 DEF Record
  <2> QED
    BY <2>1, <2>2
<1>4. DOMAIN rest = 1..(n - 1)
  BY <1>2
<1> HIDE DEF n, q
<1> DEFINE at(i) == IF i < m THEN i ELSE i + 1
<1>5. ASSUME NEW i \in 1..(n - 1)
      PROVE  at(i) \in 1..n /\ at(i) # m /\ rest[i] = r.jobs[at(i)]
  <2>1. m \in Int /\ i \in Int
    BY <1>1
  <2>2. CASE i < m
    <3>1. i \in 1..(m - 1) /\ at(i) = i
      BY <1>1, <2>1, <2>2
    <3> QED
      BY <1>1, <1>2, <2>2, <3>1
  <2>3. CASE ~(i < m)
    <3>1. i \in m..(n - 1) /\ at(i) = i + 1
      BY <1>1, <2>1, <2>3
    <3> QED
      BY <1>1, <1>2, <2>1, <2>3, <3>1
  <2> QED
    BY <2>2, <2>3
<1>6. \A k, l \in 1..(n - 1) : at(k) = at(l) => k = l
  BY <1>1, <1>2
<1> HIDE DEF at
<1>7. \A k, l \in 1..(n - 1) : rest[k] = rest[l] => k = l
  BY <1>1, <1>5, <1>6
<1>8. \A i \in 1..(n - 1) : rest[i] # j
  BY <1>1, <1>2, <1>5
<1> QED
  BY <1>3, <1>4, <1>7, <1>8 DEF Lists, q

\* Unregistering a job at home takes it off all records.
LEMMA HomeRemoved ==
  ASSUME IInv, AllAtHome, NEW j \in Jobs, NEW d \in Subjects,
         NEW i \in DOMAIN meta[d], JobRemoved(j, d, i)
  PROVE  AllAtHome'
<1> DEFINE md == meta[d]
           r == md[i]
           q == WithoutJob(r, j)
<1>1. TypeOK /\ md \in Seq(Record) /\ r \in Record
  BY RecordsInOrder, RecordsTyped DEF IInv
<1>2. /\ meta'[d] = StoreRecord(md, q) /\ Lists(r, j)
      /\ \A x \in Subjects \ {d} : meta'[x] = meta[x]
      /\ \A k \in Jobs \ {j} : registered'[k] = registered[k]
  BY <1>1 DEF TypeOK, JobRemoved
<1>3. \A x \in DOMAIN md : HomeRecord(md[x], d, registered)
  BY DEF AllAtHome
<1>4. registered[j].subject = d /\ registered[j].suffix = r.suffix
  BY <1>2, <1>3 DEF HomeRecord
<1>5. /\ q \in Record /\ q.suffix = r.suffix
      /\ \A k \in Jobs : k # j => (Lists(q, k) <=> Lists(r, k))
  BY <1>1, <1>2, WithoutJobKeeps
<1>6. /\ ~Lists(q, j)
      /\ \A k, l \in DOMAIN q.jobs : q.jobs[k] = q.jobs[l] => k = l
  BY <1>1, <1>2, <1>3, WithoutJobOnce DEF HomeRecord
<1> DEFINE R == registered'
<1>7. HomeRecord(r, d, registered)
  BY <1>3
<1> HIDE DEF q, r, md
<1>8. HomeRecord(q, d, R)
  BY <1>2, <1>5, <1>6, <1>7 DEF HomeRecord
<1>9. ASSUME NEW x \in DOMAIN md, md[x].suffix # q.suffix
      PROVE  HomeRecord(md[x], d, R)
  <2>1. HomeRecord(md[x], d, registered)
    BY <1>3
  <2>2. ~Lists(md[x], j)
    BY <1>4, <1>5, <1>9, <2>1 DEF HomeRecord
  <2> QED
    BY <1>2, <2>1, <2>2 DEF HomeRecord
<1>10. \A x \in DOMAIN meta'[d] : HomeRecord(meta'[d][x], d, registered')
  <2> HIDE DEF R
  <2>1. \A x \in DOMAIN StoreRecord(md, q) : HomeRecord(StoreRecord(md, q)[x], d, R)
    BY <1>1, <1>5, <1>8, <1>9, StoreHome
  <2> QED
    BY <1>2, <2>1 DEF R
<1>11. \A k \in Jobs : registered[k] # None /\ registered[k].subject # d =>
                         registered'[k] = registered[k]
  BY <1>2, <1>4
<1> QED
  BY <1>2, <1>10, <1>11, OneSubjectHome

\* update_db forgets a job only when it takes it off its record.
LEMMA HomeUpdateDb ==
  ASSUME IInv, AllAtHome, UpdateDb \/ UpdateDbOvertaken
  PROVE  AllAtHome'
<1>1. PICK u \in Update :
        /\ u.subject \in Subjects
        /\ meta'[u.subject] = RecordsAfter(u)
        /\ \A x \in Subjects \ {u.subject} : meta'[x] = meta[x]
        /\ DOMAIN RecordsAfter(u) = DOMAIN meta[u.subject]
        /\ registered' = Forget(u.subject, RecordsAfter(u))
  BY DbUpdate
<1> DEFINE d == u.subject
           md == meta[d]
           new == RecordsAfter(u)
<1>2. TypeOK
  BY DEF IInv
<1>3. ASSUME NEW i \in DOMAIN md
      PROVE  HomeRecord(new[i], d, registered')
  <2>1. HomeRecord(md[i], d, registered)
    BY <1>1 DEF AllAtHome
  <2>2. /\ new[i].suffix = md[i].suffix
        /\ new[i].jobs = <<>> \/ new[i].jobs = md[i].jobs
    BY <1>2, RecordsAfterKeeps
  <2>3. CASE new[i].jobs = <<>>
    BY <2>3 DEF HomeRecord, Lists
  <2>4. CASE new[i].jobs = md[i].jobs
    <3>1. ASSUME NEW j \in Jobs, Lists(new[i], j)
          PROVE  /\ registered'[j] # None /\ registered'[j].subject = d
                 /\ registered'[j].suffix = new[i].suffix
      <4>1. Lists(md[i], j)
        BY <2>4, <3>1 DEF Lists
      <4>2. /\ registered[j] # None /\ registered[j].subject = d
            /\ registered[j].suffix = new[i].suffix
        BY <2>1, <2>2, <4>1 DEF HomeRecord
      <4>3. registered'[j] = registered[j]
        BY <1>1, <3>1, <4>2 DEF Forget
      <4> QED
        BY <4>2, <4>3
    <3> QED
      BY <2>1, <2>4, <3>1 DEF HomeRecord
  <2> QED
    BY <2>2, <2>3, <2>4
<1>4. \A j \in Jobs : registered[j] # None /\ registered[j].subject # d =>
                        registered'[j] = registered[j]
  BY <1>1 DEF Forget
<1>5. \A i \in DOMAIN meta'[d] : HomeRecord(meta'[d][i], d, registered')
  BY <1>1, <1>3
<1> QED
  BY <1>1, <1>4, <1>5, OneSubjectHome

\* While no client registers a job again every step keeps the jobs at home.
LEMMA HomeStep ==
  ASSUME "repeat" \notin Habits
  PROVE  IInv /\ IInv' /\ AllAtHome /\ [Next]_vars => AllAtHome'
<1> SUFFICES ASSUME IInv, IInv', AllAtHome, [Next]_vars PROVE AllAtHome'
  OBVIOUS
<1>1. TypeOK'
  BY DEF IInv
<1>2. CASE UNCHANGED <<meta, registered>>
  BY <1>2 DEF AllAtHome, HomeRecord
<1>3. ASSUME NEW j \in Jobs, NEW d \in Subjects, NEW server \in Servers,
             NEW p \in Proxy, NEW voms \in BOOLEAN,
             RegisterNew(j, d, server, p, voms)
      PROVE  AllAtHome'
  <2>1. PICK r \in Record : r.suffix \in Suffixes /\ OwnRecord(j, d, server, p, voms, r)
    BY <1>3, NewRecord
  <2>2. CASE meta' = meta /\ registered' = registered
    BY <1>2, <2>2
  <2> DEFINE g == [subject |-> d, suffix |-> r.suffix, server |-> server, voms |-> voms]
  <2>3. CASE /\ meta' = [meta EXCEPT ![d] = StoreRecord(meta[d], r)]
             /\ registered' = [registered EXCEPT ![j] = g]
    <3>1. g \in Registration /\ g.subject = d /\ g.suffix = r.suffix
      BY <2>1 DEF Registration
    <3>2. MayRegister(j, d) /\ r.jobs = <<j>>
      BY <1>3, <2>1 DEF RegisterNew, OwnRecord
    <3> HIDE DEF g
    <3> QED
      BY <1>1, <2>3, <3>1, <3>2, HomeRegister
  <2> QED
    BY <2>1, <2>2, <2>3 DEF OwnRecord
<1>4. ASSUME NEW j \in Jobs, NEW d \in Subjects, NEW server \in Servers,
             NEW voms \in BOOLEAN, RegisterShared(j, d, server, voms)
      PROVE  AllAtHome'
  <2>1. PICK c \in DOMAIN meta[d], q \in Record : JoinedRecord(j, d, server, c, q)
    BY <1>4, SharedRecord
  <2> DEFINE r == meta[d][c]
             g == [subject |-> d, suffix |-> r.suffix, server |-> server, voms |-> r.voms]
  <2>2. r \in Record /\ r.suffix \in Suffixes
    BY RecordsTyped DEF IInv
  <2>3. g \in Registration /\ g.subject = d /\ g.suffix = r.suffix
    BY <2>2 DEF Registration, Record
  <2>4. /\ q.suffix = r.suffix /\ q.jobs = Append(r.jobs, j)
        /\ meta' = [meta EXCEPT ![d] = StoreRecord(meta[d], q)]
        /\ registered' = [registered EXCEPT ![j] = g]
    BY <2>1 DEF JoinedRecord
  <2>5. MayRegister(j, d)
    BY <1>4 DEF RegisterShared
  <2> HIDE DEF g
  <2> QED
    BY <1>1, <2>3, <2>4, <2>5, HomeRegister
<1>5. ASSUME NEW j \in Jobs, Register(j)
      PROVE  AllAtHome'
  BY <1>3, <1>4, <1>5, Registers
<1>6. ASSUME NEW j \in Jobs,
             \/ Unregister(j) \/ UnregisterNamed(j) \/ UnregisterForeign(j)
             \/ CrashInUnregister(j)
      PROVE  AllAtHome'
  BY <1>6, Removals, HomeRemoved
<1>7. CASE UpdateDb \/ UpdateDbOvertaken
  BY <1>7, HomeUpdateDb
<1> QED
  BY <1>2, <1>5, <1>6, <1>7, OtherSteps

\* A job that is not registered is in no record, whatever is killed or renewed,
\* as long as no client registers a job that is registered: then the first
\* record goes on listing it.
THEOREM UnregisteredUnlisted ==
  ASSUME "repeat" \notin Habits
  PROVE  Spec => []UnregisteredNotListed
<1>1. Init => AllAtHome
  BY DEF Init, AllAtHome
<1>2. IInv /\ IInv' /\ AllAtHome /\ [Next]_vars => AllAtHome'
  BY HomeStep
<1>3. AllAtHome => UnregisteredNotListed
  BY DEF AllAtHome, HomeRecord, UnregisteredNotListed, Registered
<1> QED
  BY <1>1, <1>2, <1>3, InvariantHolds, PTL DEF Spec

-------------------------------------------------------------------------------
(* What a step may not do.                                                 *)

\* update_db takes the jobs off expired records only.
LEMMA DropsOnlyExpired ==
  ASSUME TypeOK, NEW u \in Update, NEW i \in DOMAIN meta[u.subject],
         RecordsAfter(u)[i].jobs # meta[u.subject][i].jobs
  PROVE  meta[u.subject][i].end < now
<1> DEFINE d == u.subject
           r == meta[d][i]
           current == file[d][r.suffix]
<1>1. d \in Subjects
  BY DEF Update
<1>2. r \in Record /\ r.suffix \in Suffixes /\ now \in Nat
  BY <1>1, RecordsTyped DEF TypeOK
<1>3. current \in Proxy \union {None}
  BY <1>1, <1>2 DEF TypeOK
<1>4. PICK e \in Entry : RecordsAfter(u)[i] = UpdatedRecord(r, e, current, now)
  BY RecordsAfterTyped
<1> HIDE DEF r, current
<1>5. ASSUME ~Drops(r, e, now)
      PROVE  UpdatedRecord(r, e, current, now).jobs = r.jobs
  <2> DEFINE p == IF e.renewed THEN e.tmp ELSE current
  <2>1. p \in Proxy \union {None}
    BY <1>3 DEF Entry
  <2>2. UpdatedRecord(r, e, current, now) = Retimed(r, p, now)
    BY <1>5 DEF UpdatedRecord
  <2> QED
    BY <1>2, <2>1, <2>2, RetimedKeeps
<1>6. RecordsAfter(u)[i].jobs # r.jobs
  BY DEF r
<1>7. Drops(r, e, now)
  BY <1>4, <1>5, <1>6
<1> QED
  BY <1>7 DEF Drops, r

\* Only a request of its client or the end of its proxy's life takes a job off
\* its record.
THEOREM JobsDroppedWhenExpired == Spec => OnlyExpiryDropsJobs
<1> DEFINE Dropped(j) ==
      LET g == registered[j]
      IN  g # None /\ registered'[j] = None =>
            \/ Unregister(j)
            \/ UnregisterNamed(j)
            \/ UnregisterForeign(j)
            \/ CrashInUnregister(j)
            \/ \E i \in DOMAIN meta[g.subject] :
                 /\ meta[g.subject][i].suffix = g.suffix
                 /\ meta[g.subject][i].end < now
<1>1. ASSUME IInv, RegistrationHeld, [Next]_vars, NEW j \in Jobs
      PROVE  Dropped(j)
  <2> SUFFICES ASSUME registered[j] # None, registered'[j] = None
               PROVE  Dropped(j)
    OBVIOUS
  <2>1. TypeOK
    BY <1>1 DEF IInv
  <2>2. ASSUME NEW k \in Jobs, Register(k)
        PROVE  FALSE
    <3>1. PICK d \in Subjects, server \in Servers, p \in Proxy, voms \in BOOLEAN :
            \/ RegisterNew(k, d, server, p, voms)
            \/ RegisterShared(k, d, server, voms)
      BY <1>1, <2>2, Registers
    <3>2. \/ registered' = registered
          \/ \E g \in Registration : registered' = [registered EXCEPT ![k] = g]
      <4>1. CASE RegisterNew(k, d, server, p, voms)
        <5>1. PICK r \in Record :
                r.suffix \in Suffixes /\ OwnRecord(k, d, server, p, voms, r)
          BY <1>1, <4>1, NewRecord
        <5>2. [subject |-> d, suffix |-> r.suffix, server |-> server, voms |-> voms]
                \in Registration
          BY <5>1 DEF Registration
        <5> QED
          BY <5>1, <5>2 DEF OwnRecord
      <4>2. CASE RegisterShared(k, d, server, voms)
        <5>1. PICK c \in DOMAIN meta[d], q \in Record : JoinedRecord(k, d, server, c, q)
          BY <1>1, <4>2, SharedRecord
        <5>2. meta[d][c].suffix \in Suffixes /\ meta[d][c].voms \in BOOLEAN
          BY <2>1, RecordsTyped DEF Record
        <5>3. [subject |-> d, suffix |-> meta[d][c].suffix, server |-> server,
               voms |-> meta[d][c].voms] \in Registration
          BY <5>2 DEF Registration
        <5> QED
          BY <5>1, <5>3 DEF JoinedRecord
      <4> QED
        BY <3>1, <4>1, <4>2
    <3>3. registered'[j] = registered[j] \/ registered'[j] \in Registration
      BY <2>1, <3>2 DEF TypeOK
    <3> QED
      BY <3>3, RegistrationAssumption DEF NoneIsNoRegistration
  <2>3. ASSUME NEW k \in Jobs,
               \/ Unregister(k) \/ UnregisterNamed(k) \/ UnregisterForeign(k)
               \/ CrashInUnregister(k)
        PROVE  Dropped(j)
    <3>1. registered' = [registered EXCEPT ![k] = None]
      BY <1>1, <2>3, Removals DEF JobRemoved
    <3>2. k = j
      BY <2>1, <3>1 DEF TypeOK
    <3> QED
      BY <2>3, <3>2
  <2>4. CASE UpdateDb \/ UpdateDbOvertaken
    <3>1. PICK u \in Update :
            /\ DOMAIN RecordsAfter(u) = DOMAIN meta[u.subject]
            /\ registered' = Forget(u.subject, RecordsAfter(u))
      BY <1>1, <2>4, DbUpdate
    <3> DEFINE g == registered[j]
               md == meta[u.subject]
               new == RecordsAfter(u)
    <3>2. /\ g.subject = u.subject
          /\ ~\E i \in DOMAIN new : new[i].suffix = g.suffix /\ Lists(new[i], j)
      BY <3>1 DEF Forget
    <3>3. PICK i \in DOMAIN md : md[i].suffix = g.suffix /\ Lists(md[i], j)
      BY <1>1, <3>2, HeldByJob DEF Holds, Registered
    <3>4. new[i].suffix = md[i].suffix
      BY <2>1, RecordsAfterKeeps
    <3>5. ~Lists(new[i], j)
      BY <3>1, <3>2, <3>3, <3>4
    <3>6. new[i].jobs # md[i].jobs
      BY <3>3, <3>5 DEF Lists
    <3>7. md[i].end < now
      BY <2>1, <3>6, DropsOnlyExpired
    <3> QED
      BY <3>2, <3>3, <3>7
  <2>5. CASE UNCHANGED <<meta, registered>>
    BY <2>5
  <2> QED
    BY <1>1, <2>2, <2>3, <2>4, <2>5, OtherSteps
<1>2. IInv /\ RegistrationHeld /\ [Next]_vars => [\A j \in Jobs : Dropped(j)]_vars
  BY <1>1
<1> QED
  BY <1>2, InvariantHolds, RegistrationsKept, PTL DEF Spec, OnlyExpiryDropsJobs

-------------------------------------------------------------------------------
(* update_db loses no renewed proxy: what a watchdog reports comes in the  *)
(* order of the records, and is about records that are still there.        *)

\* The entries are about records of md and come in their order.
Answers(md, entries) ==
  /\ \A k \in DOMAIN entries :
       \E i \in DOMAIN md : md[i].suffix = entries[k].suffix
  /\ \A k, l \in DOMAIN entries : k < l => entries[k].suffix < entries[l].suffix

\* The tasks are lines of md, and all come after the entries.
Ahead(md, entries, due) ==
  /\ \A t \in due : t.line \in DOMAIN md /\ md[t.line].suffix = t.suffix
  /\ \A t, u \in due : t.line = u.line => t = u
  /\ \A k \in DOMAIN entries : \A t \in due : entries[k].suffix < t.suffix

\* What the watchdog x has renewed and has yet to renew follows the files M.
Tidy(x, M) ==
  IF x.phase = "renew"
    THEN Answers(M[x.subject], x.entries) /\ Ahead(M[x.subject], x.entries, x.due)
    ELSE x.entries = <<>>

ReportsInOrder ==
  /\ \A w \in Watchdogs : Tidy(dog[w], meta)
  /\ \A n \in DOMAIN updates : Answers(meta[updates[n].subject], updates[n].entries)

\* The records of md keep their places and their suffixes.
InPlace(md, new) ==
  \A i \in DOMAIN md : i \in DOMAIN new /\ new[i].suffix = md[i].suffix

\* Storing a record moves none.
LEMMA StoreInPlace ==
  ASSUME NEW md \in Seq(Record), NEW r \in Record
  PROVE  InPlace(md, StoreRecord(md, r))
<1>1. \A i \in DOMAIN md :
        /\ i \in DOMAIN StoreRecord(md, r)
        /\ StoreRecord(md, r)[i] = IF md[i].suffix = r.suffix THEN r ELSE md[i]
  BY StoreRecordIsSeq
<1> QED
  BY <1>1 DEF InPlace

\* No step moves a record: the handlers of the master rewrite the files line by
\* line, and a free record stays.
LEMMA RecordsInPlace ==
  ASSUME IInv, [Next]_vars, NEW d \in Subjects
  PROVE  InPlace(meta[d], meta'[d])
<1>1. TypeOK /\ meta \in [Subjects -> Seq(BoundedRecord)] /\ meta[d] \in Seq(Record)
  BY RecordsInOrder DEF IInv, TypeOK
<1>2. ASSUME meta'[d] = meta[d] PROVE InPlace(meta[d], meta'[d])
  BY <1>2 DEF InPlace
<1>3. ASSUME NEW x \in Subjects, NEW q \in Record,
             meta' = [meta EXCEPT ![x] = StoreRecord(meta[x], q)]
      PROVE  InPlace(meta[d], meta'[d])
  <2>1. CASE x = d
    <3>1. meta'[d] = StoreRecord(meta[d], q)
      BY <1>1, <1>3, <2>1
    <3> QED
      BY <1>1, <3>1, StoreInPlace
  <2>2. CASE x # d
    BY <1>1, <1>2, <1>3, <2>2
  <2> QED
    BY <2>1, <2>2
<1>4. ASSUME NEW j \in Jobs, Register(j) PROVE InPlace(meta[d], meta'[d])
  <2>1. PICK x \in Subjects, server \in Servers, p \in Proxy, voms \in BOOLEAN :
          RegisterNew(j, x, server, p, voms) \/ RegisterShared(j, x, server, voms)
    BY <1>4, Registers
  <2>2. CASE RegisterNew(j, x, server, p, voms)
    <3>1. PICK r \in Record : OwnRecord(j, x, server, p, voms, r)
      BY <2>2, NewRecord
    <3> QED
      BY <1>2, <1>3, <3>1 DEF OwnRecord
  <2>3. CASE RegisterShared(j, x, server, voms)
    <3>1. PICK c \in DOMAIN meta[x], q \in Record : JoinedRecord(j, x, server, c, q)
      BY <2>3, SharedRecord
    <3> QED
      BY <1>3, <3>1 DEF JoinedRecord
  <2> QED
    BY <2>1, <2>2, <2>3
<1>5. ASSUME NEW j \in Jobs,
             \/ Unregister(j) \/ UnregisterNamed(j) \/ UnregisterForeign(j)
             \/ CrashInUnregister(j)
      PROVE  InPlace(meta[d], meta'[d])
  <2>1. PICK x \in Subjects : \E c \in DOMAIN meta[x] : JobRemoved(j, x, c)
    BY <1>5, Removals
  <2>2. PICK c \in DOMAIN meta[x] : JobRemoved(j, x, c)
    BY <2>1
  <2>3. meta[x][c] \in Record
    BY <1>1, RecordsTyped
  <2>4. WithoutJob(meta[x][c], j) \in Record
    BY <2>2, <2>3, WithoutJobKeeps DEF JobRemoved
  <2> QED
    BY <1>3, <2>2, <2>4 DEF JobRemoved
<1>6. CASE UpdateDb \/ UpdateDbOvertaken
  <2>1. PICK u \in Update :
          /\ u.subject \in Subjects
          /\ meta'[u.subject] = RecordsAfter(u)
          /\ \A x \in Subjects \ {u.subject} : meta'[x] = meta[x]
          /\ DOMAIN RecordsAfter(u) = DOMAIN meta[u.subject]
    BY <1>6, DbUpdate
  <2>2. CASE u.subject = d
    <3>1. \A i \in DOMAIN meta[d] : RecordsAfter(u)[i].suffix = meta[d][i].suffix
      BY <1>1, <2>2, RecordsAfterKeeps
    <3> QED
      BY <2>1, <2>2, <3>1 DEF InPlace
  <2>3. CASE u.subject # d
    BY <1>2, <2>1, <2>3
  <2> QED
    BY <2>2, <2>3
<1> QED
  BY <1>2, <1>4, <1>5, <1>6, OtherSteps

\* What follows the records goes on following them.
LEMMA AnswersInPlace ==
  ASSUME NEW md, NEW new, InPlace(md, new), NEW entries, Answers(md, entries)
  PROVE  Answers(new, entries)
<1>1. ASSUME NEW k \in DOMAIN entries
      PROVE  \E i \in DOMAIN new : new[i].suffix = entries[k].suffix
  BY <1>1 DEF Answers, InPlace
<1> QED
  BY <1>1 DEF Answers

LEMMA AheadInPlace ==
  ASSUME NEW md, NEW new, InPlace(md, new), NEW entries, NEW due,
         Ahead(md, entries, due)
  PROVE  Ahead(new, entries, due)
<1>1. ASSUME NEW t \in due
      PROVE  t.line \in DOMAIN new /\ new[t.line].suffix = t.suffix
  BY <1>1 DEF Ahead, InPlace
<1> QED
  BY <1>1 DEF Ahead

\* The tasks of one reading have a line each.
LEMMA ReadingTidy ==
  ASSUME NEW md \in Seq(Record), NEW t, NEW force
  PROVE  Answers(md, <<>>) /\ Ahead(md, <<>>, DueTasks(md, t, force))
<1> DEFINE task(i) == [line |-> i, suffix |-> md[i].suffix,
                       try |-> md[i].end + ClockSkew >= t]
           due == {task(i) : i \in {k \in DOMAIN md : Due(md[k], t, force)}}
<1>1. DueTasks(md, t, force) = due
  BY DEF DueTasks
<1>2. \A i : task(i).line = i /\ task(i).suffix = md[i].suffix
  OBVIOUS
<1> HIDE DEF task
<1>3. \A x \in due : x.line \in DOMAIN md /\ md[x.line].suffix = x.suffix
                     /\ x = task(x.line)
  BY <1>2
<1>4. \A x, y \in due : x.line = y.line => x = y
  BY <1>3
<1> HIDE DEF due
<1>5. DOMAIN <<>> = {}
  OBVIOUS
<1> QED
  BY <1>1, <1>3, <1>4, <1>5 DEF Answers, Ahead

\* The lines are taken in their order.
LEMMA TasksInOrder ==
  ASSUME NEW md \in Seq(Record), Ascending(md), NEW entries \in Seq(Entry),
         NEW due \in SUBSET Task, due # {}, Answers(md, entries),
         Ahead(md, entries, due),
         NEW e \in Entry, e.suffix = FirstTask(due).suffix
  PROVE  /\ Answers(md, Append(entries, e))
         /\ Ahead(md, Append(entries, e), due \ {FirstTask(due)})
<1> DEFINE t == FirstTask(due)
           more == Append(entries, e)
<1>1. t \in due /\ \A u \in due : t.line <= u.line
  BY FirstTaskFirst
<1>2. t.line \in DOMAIN md /\ md[t.line].suffix = e.suffix
  BY <1>1 DEF Ahead
<1>3. \A u \in due \ {t} : e.suffix < u.suffix
  <2> SUFFICES ASSUME NEW u \in due \ {t} PROVE e.suffix < u.suffix
    OBVIOUS
  <2>1. u.line \in DOMAIN md /\ md[u.line].suffix = u.suffix /\ t.line # u.line
    BY <1>1 DEF Ahead
  <2>2. t.line < u.line
    BY <1>1, <1>2, <2>1
  <2> QED
    BY <1>2, <2>1, <2>2 DEF Ascending
<1>4. \A k \in DOMAIN entries : entries[k].suffix < e.suffix
  BY <1>1 DEF Ahead
<1> HIDE DEF t
<1>5. /\ Len(entries) \in Nat /\ DOMAIN entries = 1..Len(entries)
      /\ DOMAIN more = 1..(Len(entries) + 1)
      /\ \A k \in DOMAIN entries : more[k] = entries[k]
      /\ more[Len(entries) + 1] = e
  OBVIOUS
<1> HIDE DEF more
<1>6. \A k \in DOMAIN more : k \in DOMAIN entries \/ k = Len(entries) + 1
  BY <1>5
<1>7. Answers(md, more)
  <2>1. ASSUME NEW k \in DOMAIN more
        PROVE  \E i \in DOMAIN md : md[i].suffix = more[k].suffix
    <3>1. CASE k \in DOMAIN entries
      BY <1>5, <3>1 DEF Answers
    <3>2. CASE k = Len(entries) + 1
      BY <1>2, <1>5, <3>2
    <3> QED
      BY <1>6, <3>1, <3>2
  <2>2. ASSUME NEW k \in DOMAIN more, NEW l \in DOMAIN more, k < l
        PROVE  more[k].suffix < more[l].suffix
    <3>1. k \in DOMAIN entries
      BY <1>5, <2>2
    <3>2. CASE l \in DOMAIN entries
      BY <1>5, <2>2, <3>1, <3>2 DEF Answers
    <3>3. CASE l = Len(entries) + 1
      BY <1>4, <1>5, <3>1, <3>3
    <3> QED
      BY <1>6, <3>2, <3>3
  <2> QED
    BY <2>1, <2>2 DEF Answers
<1>8. ASSUME NEW k \in DOMAIN more, NEW u \in due \ {t}
      PROVE  more[k].suffix < u.suffix
  <2>1. CASE k \in DOMAIN entries
    BY <1>5, <2>1 DEF Ahead
  <2>2. CASE k = Len(entries) + 1
    BY <1>3, <1>5, <2>2
  <2> QED
    BY <1>6, <2>1, <2>2
<1> QED
  BY <1>7, <1>8 DEF Ahead, t, more

\* What check_renewal makes of the watchdog: its tasks are one reading's.
LEMMA ReadingTaken ==
  ASSUME TypeOK, NEW w \in Watchdogs, CheckRenewal(w)
  PROVE  \E d \in Subjects, force \in BOOLEAN :
           /\ dog'[w].entries = dog[w].entries
           /\ \/ dog'[w].phase = "scan"
              \/ /\ dog'[w].phase = "renew" /\ dog'[w].subject = d
                 /\ dog'[w].due = DueTasks(meta[d], now, force)
           /\ \A v \in Watchdogs \ {w} : dog'[v] = dog[v]
<1>1. dog \in [Watchdogs -> Watchdog] /\ dog[w] \in Watchdog
  BY DEF TypeOK
<1>2. PICK d \in dog[w].left, force \in BOOLEAN :
        LET due == DueTasks(meta[d], now, force)
        IN  dog' = [dog EXCEPT ![w].left = @ \ {d},
                               ![w].phase = IF due = {} THEN "scan" ELSE "renew",
                               ![w].subject = IF due = {} THEN None ELSE d,
                               ![w].due = due]
  BY DEF CheckRenewal
<1>3. d \in Subjects
  BY <1>1 DEF Watchdog
<1> DEFINE due == DueTasks(meta[d], now, force)
           a == [dog EXCEPT ![w].left = @ \ {d}]
           b == [a EXCEPT ![w].phase = IF due = {} THEN "scan" ELSE "renew"]
           c == [b EXCEPT ![w].subject = IF due = {} THEN None ELSE d]
           x == [c EXCEPT ![w].due = due]
<1>4. dog' = x
  BY <1>2
<1>5. due \in SUBSET Task
  BY <1>3, RecordsTyped, DueTasksTyped
<1> HIDE DEF due
<1>6. /\ a \in [Watchdogs -> Watchdog] /\ \A v \in Watchdogs \ {w} : a[v] = dog[v]
      /\ a[w].entries = dog[w].entries
  BY <1>1 DEF Watchdog
<1> HIDE DEF a
<1>7. /\ b \in [Watchdogs -> Watchdog] /\ \A v \in Watchdogs \ {w} : b[v] = dog[v]
      /\ b[w].entries = dog[w].entries
      /\ b[w].phase = IF due = {} THEN "scan" ELSE "renew"
  BY <1>6, ZenonT(30) DEF Watchdog, Phases
<1> HIDE DEF b
<1>8. /\ c \in [Watchdogs -> Watchdog] /\ \A v \in Watchdogs \ {w} : c[v] = dog[v]
      /\ c[w].entries = dog[w].entries
      /\ c[w].phase = IF due = {} THEN "scan" ELSE "renew"
      /\ c[w].subject = IF due = {} THEN None ELSE d
  BY <1>3, <1>7 DEF Watchdog
<1> HIDE DEF c
<1>9. /\ \A v \in Watchdogs \ {w} : x[v] = dog[v]
      /\ x[w].entries = dog[w].entries
      /\ x[w].phase = IF due = {} THEN "scan" ELSE "renew"
      /\ x[w].subject = IF due = {} THEN None ELSE d
      /\ x[w].due = due
  BY <1>5, <1>8 DEF Watchdog
<1> HIDE DEF x
<1> QED
  BY <1>3, <1>4, <1>9 DEF due

\* What a turn of the loop makes of it: the first task has become an entry.
LEMMA TaskDone ==
  ASSUME TypeOK, NEW w \in Watchdogs, RenewProxy(w)
  PROVE  /\ dog[w].phase = "renew" /\ dog[w].due # {} /\ dog'[w].phase = "renew"
         /\ dog'[w].subject = dog[w].subject
         /\ dog'[w].due = dog[w].due \ {FirstTask(dog[w].due)}
         /\ \E e \in Entry : /\ e.suffix = FirstTask(dog[w].due).suffix
                             /\ dog'[w].entries = Append(dog[w].entries, e)
         /\ \A v \in Watchdogs \ {w} : dog'[v] = dog[v]
<1> DEFINE t == FirstTask(dog[w].due)
<1>1. dog \in [Watchdogs -> Watchdog] /\ dog[w] \in Watchdog /\ now \in Nat
  BY DEF TypeOK
<1>2. t \in Task
  BY <1>1, FirstTaskFirst DEF RenewProxy, Watchdog
<1>3. PICK q \in Proxy \union {None} :
        dog' = [dog EXCEPT ![w].due = @ \ {t},
                           ![w].entries = Append(@, [suffix  |-> t.suffix,
                                                     renewed |-> q # None,
                                                     tmp     |-> q])]
  <2>1. Issued(RenewedLives) \subseteq Proxy
    BY <1>1, IssuedTyped, DaemonAssumption
  <2>2. \A p : Renewals(p) \subseteq Proxy
    BY <2>1 DEF Renewals
  <2> QED
    BY <2>2 DEF RenewProxy
<1> DEFINE e == [suffix |-> t.suffix, renewed |-> q # None, tmp |-> q]
           a == [dog EXCEPT ![w].due = @ \ {t}]
           x == [a EXCEPT ![w].entries = Append(@, e)]
<1>4. dog' = x
  BY <1>3
<1>5. e \in Entry /\ e.suffix = t.suffix
  BY <1>2, <1>3 DEF Entry, Task
<1> HIDE DEF t, e
<1>6. /\ a \in [Watchdogs -> Watchdog] /\ \A v \in Watchdogs \ {w} : a[v] = dog[v]
      /\ a[w].subject = dog[w].subject /\ a[w].phase = dog[w].phase
      /\ a[w].entries = dog[w].entries /\ a[w].due = dog[w].due \ {t}
  BY <1>1 DEF Watchdog
<1> HIDE DEF a
<1>7. /\ \A v \in Watchdogs \ {w} : x[v] = dog[v]
      /\ x[w].subject = dog[w].subject /\ x[w].phase = dog[w].phase
      /\ x[w].entries = Append(dog[w].entries, e) /\ x[w].due = dog[w].due \ {t}
  BY <1>6 DEF Watchdog
<1> HIDE DEF x
<1>8. dog[w].phase = "renew" /\ dog[w].due # {}
  BY DEF RenewProxy
<1> QED
  BY <1>4, <1>5, <1>7, <1>8 DEF t

\* What a step does to a watchdog, where it touches what it reports.
LEMMA DogSteps ==
  ASSUME TypeOK, [Next]_vars, NEW w \in Watchdogs
  PROVE  \/ dog'[w].phase # "renew" /\ dog'[w].entries \in {<<>>, dog[w].entries}
            /\ (dog'[w].entries = <<>> \/ dog[w].phase # "renew")
         \/ dog'[w] = dog[w]
         \/ CheckRenewal(w)
         \/ RenewProxy(w)
<1> DEFINE Rests == /\ dog'[w].phase # "renew"
                    /\ dog'[w].entries \in {<<>>, dog[w].entries}
                    /\ dog'[w].entries = <<>> \/ dog[w].phase # "renew"
           Goal == Rests \/ dog'[w] = dog[w] \/ CheckRenewal(w) \/ RenewProxy(w)
<1> SUFFICES Goal
  OBVIOUS
<1>1. dog \in [Watchdogs -> Watchdog]
  BY DEF TypeOK
<1>2. \A v \in Watchdogs : Resume(v).phase = "scan" /\ Resume(v).entries = <<>>
  BY <1>1 DEF Resume, Watchdog
<1>3. \A p : Idle(p).phase = p /\ Idle(p).entries = <<>>
  BY DEF Idle
<1>4. ASSUME NEW v \in Watchdogs, NEW x, dog' = [dog EXCEPT ![v] = x],
             x.phase # "renew", x.entries = <<>>
      PROVE  Goal
  BY <1>1, <1>4
<1>5. ASSUME NEW v \in Watchdogs, WakeUp(v) PROVE Goal
  BY <1>1, <1>5 DEF WakeUp, Watchdog
<1>6. ASSUME NEW v \in Watchdogs, FinishScan(v) PROVE Goal
  BY <1>1, <1>6 DEF FinishScan, Watchdog
<1>7. ASSUME NEW v \in Watchdogs, CheckRenewal(v) \/ RenewProxy(v), v # w
      PROVE  dog'[w] = dog[w]
  BY <1>7, ReadingTaken, TaskDone
<1>8. ASSUME NEW v \in Watchdogs, SendUpdate(v) PROVE Goal
  <2>1. CASE up /\ Len(updates) < Backlog
    <3>1. dog' = [dog EXCEPT ![v].phase = "wait", ![v].subject = None,
                             ![v].entries = <<>>]
      BY <1>8, <2>1 DEF SendUpdate
    <3> QED
      BY <1>1, <3>1 DEF Watchdog
  <2>2. CASE ~(up /\ Len(updates) < Backlog)
    BY <1>2, <1>4, <1>8, <2>2 DEF SendUpdate
  <2> QED
    BY <2>1, <2>2
<1>9. ASSUME NEW v \in Watchdogs, Timeout(v) \/ WatchdogExits(v) \/ WatchdogDies(v)
      PROVE  Goal
  BY <1>2, <1>3, <1>4, <1>9, ZenonT(30) DEF Timeout, WatchdogExits, WatchdogDies
<1>10. CASE UpdateDb \/ UpdateDbOvertaken
  <2>1. PICK u \in Update, lost \in SUBSET Nat : UpdateRepository(u, lost)
    BY <1>10, Requests
  <2>2. dog' = IF u.dog = None THEN dog ELSE [dog EXCEPT ![u.dog] = Resume(u.dog)]
    BY <2>1 DEF UpdateRepository
  <2>3. u.dog \in Watchdogs \union {None}
    BY DEF Update
  <2>4. CASE u.dog = None
    BY <2>2, <2>4
  <2>5. CASE u.dog # None
    BY <1>2, <1>4, <2>2, <2>3, <2>5
  <2> QED
    BY <2>4, <2>5
<1>11. CASE RestartWatchdog
  <2>1. child \in Watchdogs /\ dog' = [dog EXCEPT ![child] = Idle("sleep")]
    BY <1>11 DEF RestartWatchdog, TypeOK
  <2> QED
    BY <1>3, <1>4, <2>1
<1>12. CASE MasterRestart
  BY <1>3, <1>4, <1>12 DEF MasterRestart
<1>13. CASE MasterDies
  <2>1. dog'[w] = IF dog[w].phase = "wait" THEN Resume(w) ELSE dog[w]
    BY <1>13 DEF MasterDies
  <2> QED
    BY <1>2, <2>1
<1>14. CASE UNCHANGED dog
  BY <1>14
<1>15. ASSUME NEW j \in Jobs,
              \/ Register(j) \/ Unregister(j)
              \/ UnregisterNamed(j) \/ UnregisterForeign(j)
       PROVE  dog' = dog /\ updates' = updates
  <2>1. \A d, i, foreign : RemoveJob(j, d, i, foreign) => dog' = dog /\ updates' = updates
    BY DEF RemoveJob
  <2>2. CASE Register(j)
    BY <2>2 DEF Register, RegisterNew, RegisterShared
  <2>3. CASE Unregister(j) \/ UnregisterNamed(j) \/ UnregisterForeign(j)
    BY <2>1, <2>3 DEF Unregister, UnregisterNamed, UnregisterForeign
  <2> QED
    BY <1>15, <2>2, <2>3
<1>16. CASE UNCHANGED vars
  BY <1>14, <1>16 DEF vars
<1>17. CASE Tick
  BY <1>14, <1>17 DEF Tick
<1>18. CASE Crash \/ CrashInUpdateDb
            \/ \E j \in Jobs : CrashInRegister(j) \/ CrashInUnregister(j)
  BY <1>13, <1>18 DEF Crash, CrashInUpdateDb, CrashInRegister, CrashInUnregister
<1>19. ASSUME NEW v \in Watchdogs, WatchdogStep(v) PROVE Goal
  <2>1. CASE v = w /\ (CheckRenewal(v) \/ RenewProxy(v))
    BY <2>1
  <2>2. CASE v # w /\ (CheckRenewal(v) \/ RenewProxy(v))
    BY <1>7, <2>2
  <2> HIDE DEF Goal
  <2> QED
    BY <1>5, <1>6, <1>8, <1>19, <2>1, <2>2 DEF WatchdogStep
<1> HIDE DEF Goal
<1>20. CASE \E j \in Jobs : \/ Register(j) \/ Unregister(j)
                            \/ UnregisterNamed(j) \/ UnregisterForeign(j)
  BY <1>14, <1>15, <1>20
<1>21. ASSUME NEW v \in Watchdogs,
              WatchdogStep(v) \/ Timeout(v) \/ WatchdogExits(v) \/ WatchdogDies(v)
       PROVE  Goal
  BY <1>9, <1>19, <1>21
<1> QED
  BY <1>10, <1>11, <1>12, <1>16, <1>17, <1>18, <1>20, <1>21 DEF Next

\* The request v says of the same records what u says.
SameAnswers(u, v) ==
  /\ v.subject = u.subject
  /\ DOMAIN v.entries = DOMAIN u.entries
  /\ \A k \in DOMAIN u.entries : v.entries[k].suffix = u.entries[k].suffix

\* The requests in the queue after a step: one that was there, or the report
\* that a watchdog has just sent.
LEMMA QueueSteps ==
  ASSUME TypeOK, [Next]_vars, NEW n \in DOMAIN updates'
  PROVE  \/ \E m \in DOMAIN updates : SameAnswers(updates[m], updates'[n])
         \/ \E w \in Watchdogs : /\ dog[w].phase = "renew"
                                 /\ updates'[n].subject = dog[w].subject
                                 /\ updates'[n].entries = dog[w].entries
<1> DEFINE Old == \E m \in DOMAIN updates : SameAnswers(updates[m], updates'[n])
           New == \E w \in Watchdogs : /\ dog[w].phase = "renew"
                                       /\ updates'[n].subject = dog[w].subject
                                       /\ updates'[n].entries = dog[w].entries
<1> SUFFICES Old \/ New
  OBVIOUS
<1>1. /\ updates \in Seq(Update) /\ Len(updates) \in Nat
      /\ DOMAIN updates = 1..Len(updates)
      /\ \A m \in DOMAIN updates : updates[m] \in Update
  BY DEF TypeOK
<1>2. \A u : SameAnswers(u, u)
  BY DEF SameAnswers
<1>3. ASSUME updates' = updates PROVE Old
  BY <1>2, <1>3
<1>4. ASSUME updates' = <<>> PROVE FALSE
  BY <1>4
<1>5. ASSUME NEW w \in Watchdogs, NEW deleted \in BOOLEAN, AbandonUpdates(w, deleted)
      PROVE  Old
  <2>1. n \in DOMAIN updates /\ updates'[n] = Abandoned(updates[n], w, deleted)
    BY <1>5 DEF AbandonUpdates
  <2> DEFINE u == updates[n]
             cut == [k \in DOMAIN u.entries |->
                      IF deleted THEN [u.entries[k] EXCEPT !.tmp = None]
                      ELSE u.entries[k]]
             a == [u EXCEPT !.dog = None]
             b == [a EXCEPT !.entries = cut]
  <2>2. /\ u \in Update /\ u.entries \in Seq(Entry)
        /\ \A k \in DOMAIN u.entries : u.entries[k] \in Entry
    BY <1>1, <2>1 DEF Update
  <2>3. \A e \in Entry : [e EXCEPT !.tmp = None].suffix = e.suffix
    BY DEF Entry
  <2>4. /\ DOMAIN cut = DOMAIN u.entries
        /\ \A k \in DOMAIN u.entries : cut[k].suffix = u.entries[k].suffix
    BY <2>2, <2>3
  <2>5. updates'[n] = IF u.dog # w THEN u ELSE b
    BY <2>1 DEF Abandoned
  <2> HIDE DEF cut
  <2>6. b.subject = u.subject /\ b.entries = cut
    BY <2>2 DEF Update
  <2> HIDE DEF b
  <2>7. SameAnswers(u, updates'[n])
    BY <1>2, <2>4, <2>5, <2>6 DEF SameAnswers
  <2> QED
    BY <2>1, <2>7
<1>6. ASSUME NEW w \in Watchdogs, SendUpdate(w) PROVE Old \/ New
  <2>1. CASE up /\ Len(updates) < Backlog
    <3> DEFINE u == [subject |-> dog[w].subject, entries |-> dog[w].entries, dog |-> w]
    <3>1. updates' = Append(updates, u) /\ dog[w].phase = "renew"
      BY <1>6, <2>1 DEF SendUpdate
    <3>2. u.subject = dog[w].subject /\ u.entries = dog[w].entries
      OBVIOUS
    <3> HIDE DEF u
    <3>3. \/ n \in DOMAIN updates /\ updates'[n] = updates[n]
          \/ updates'[n] = u
      BY <1>1, <3>1
    <3> QED
      BY <1>2, <3>1, <3>2, <3>3
  <2>2. CASE ~(up /\ Len(updates) < Backlog)
    BY <1>3, <1>6, <2>2 DEF SendUpdate
  <2> QED
    BY <2>1, <2>2
<1>7. CASE UpdateDb \/ UpdateDbOvertaken
  <2>1. PICK u \in Update, lost \in SUBSET Nat : UpdateRepository(u, lost)
    BY <1>7, Requests
  <2>2. updates # <<>> /\ updates' = Tail(updates)
    BY <1>7, <2>1 DEF UpdateDb, UpdateDbOvertaken, UpdateRepository
  <2>3. n + 1 \in DOMAIN updates /\ updates'[n] = updates[n + 1]
    BY <1>1, <2>2
  <2> QED
    BY <1>2, <2>3
<1>8. ASSUME NEW j \in Jobs,
             \/ Register(j) \/ Unregister(j)
             \/ UnregisterNamed(j) \/ UnregisterForeign(j)
      PROVE  updates' = updates
  <2>1. \A d, i, foreign : RemoveJob(j, d, i, foreign) => updates' = updates
    BY DEF RemoveJob
  <2>2. CASE Register(j)
    BY <2>2 DEF Register, RegisterNew, RegisterShared
  <2>3. CASE Unregister(j) \/ UnregisterNamed(j) \/ UnregisterForeign(j)
    BY <2>1, <2>3 DEF Unregister, UnregisterNamed, UnregisterForeign
  <2> QED
    BY <1>8, <2>2, <2>3
<1>9. ASSUME NEW w \in Watchdogs,
             WatchdogStep(w) \/ Timeout(w) \/ WatchdogExits(w) \/ WatchdogDies(w)
      PROVE  Old \/ New
  <2>1. CASE SendUpdate(w)
    BY <1>6, <2>1
  <2>2. CASE \/ WakeUp(w) \/ CheckRenewal(w) \/ FinishScan(w) \/ RenewProxy(w)
             \/ WatchdogExits(w)
    BY <1>3, <2>2 DEF WakeUp, CheckRenewal, FinishScan, RenewProxy, WatchdogExits
  <2>3. CASE Timeout(w) \/ WatchdogDies(w)
    BY <1>5, <2>3 DEF Timeout, WatchdogDies
  <2> QED
    BY <1>9, <2>1, <2>2, <2>3 DEF WatchdogStep
<1>10. CASE Crash \/ CrashInUpdateDb
            \/ \E j \in Jobs : CrashInRegister(j) \/ CrashInUnregister(j)
  <2>1. MasterDies
    BY <1>10 DEF Crash, CrashInUpdateDb, CrashInRegister, CrashInUnregister
  <2> QED
    BY <1>4, <2>1 DEF MasterDies
<1>11. CASE UNCHANGED vars \/ Tick \/ RestartWatchdog \/ MasterRestart
  BY <1>3, <1>11 DEF vars, Tick, RestartWatchdog, MasterRestart
<1> HIDE DEF Old, New
<1> QED
  BY <1>3, <1>7, <1>8, <1>9, <1>10, <1>11 DEF Next

\* The watchdogs' reports stay in order: each file is read in one step, its
\* records never move, and the tasks are done line by line.
LEMMA ReportsStayInOrder == IInv /\ ReportsInOrder /\ [Next]_vars => ReportsInOrder'
<1> SUFFICES ASSUME IInv, ReportsInOrder, [Next]_vars PROVE ReportsInOrder'
  OBVIOUS
<1>1. TypeOK
  BY DEF IInv
<1>2. \A w \in Watchdogs : /\ dog[w] \in Watchdog
                           /\ dog[w].phase = "renew" => dog[w].subject \in Subjects
                           /\ dog[w].entries \in Seq(Entry) /\ dog[w].due \in SUBSET Task
  BY <1>1 DEF TypeOK, Watchdog
<1>3. \A n \in DOMAIN updates : updates[n].subject \in Subjects
  <2>1. \A n \in DOMAIN updates : updates[n] \in Update
    BY <1>1 DEF TypeOK
  <2> QED
    BY <2>1 DEF Update
<1>4. \A d \in Subjects : InPlace(meta[d], meta'[d])
  BY RecordsInPlace
<1>5. \A w \in Watchdogs : Tidy(dog[w], meta)
  BY DEF ReportsInOrder
<1>6. ASSUME NEW w \in Watchdogs
      PROVE  Tidy(dog'[w], meta')
  <2>1. CASE /\ dog'[w].phase # "renew" /\ dog'[w].entries \in {<<>>, dog[w].entries}
             /\ (dog'[w].entries = <<>> \/ dog[w].phase # "renew")
    BY <1>5, <2>1 DEF Tidy
  <2>2. CASE dog'[w] = dog[w]
    <3>1. CASE dog[w].phase = "renew"
      BY <1>2, <1>4, <1>5, <2>2, <3>1, AnswersInPlace, AheadInPlace DEF Tidy
    <3>2. CASE dog[w].phase # "renew"
      BY <1>5, <2>2, <3>2 DEF Tidy
    <3> QED
      BY <3>1, <3>2
  <2>3. CASE CheckRenewal(w)
    <3>1. PICK d \in Subjects, force \in BOOLEAN :
            /\ dog'[w].entries = dog[w].entries
            /\ \/ dog'[w].phase = "scan"
               \/ /\ dog'[w].phase = "renew" /\ dog'[w].subject = d
                  /\ dog'[w].due = DueTasks(meta[d], now, force)
      BY <1>1, <2>3, ReadingTaken
    <3>2. dog[w].entries = <<>> /\ meta' = meta
      BY <1>5, <2>3 DEF Tidy, CheckRenewal, disk
    <3>3. Answers(meta[d], <<>>) /\ Ahead(meta[d], <<>>, DueTasks(meta[d], now, force))
      BY RecordsInOrder, ReadingTidy
    <3> QED
      BY <3>1, <3>2, <3>3 DEF Tidy
  <2>4. CASE RenewProxy(w)
    <3> DEFINE md == meta[dog[w].subject]
               due == dog[w].due
    <3>1. /\ dog[w].phase = "renew" /\ due # {} /\ dog'[w].phase = "renew"
          /\ dog'[w].subject = dog[w].subject
          /\ dog'[w].due = due \ {FirstTask(due)}
      BY <1>1, <2>4, TaskDone
    <3>2. PICK e \in Entry : /\ e.suffix = FirstTask(due).suffix
                             /\ dog'[w].entries = Append(dog[w].entries, e)
      BY <1>1, <2>4, TaskDone
    <3>3. md \in Seq(Record) /\ Ascending(md)
      BY <1>2, <3>1, RecordsInOrder
    <3>4. Answers(md, dog[w].entries) /\ Ahead(md, dog[w].entries, due)
      BY <1>5, <3>1 DEF Tidy
    <3>5. due \in SUBSET Task /\ dog[w].entries \in Seq(Entry)
      BY <1>2
    <3>6. meta' = meta
      BY <2>4 DEF RenewProxy, disk
    <3> HIDE DEF md, due
    <3>7. /\ Answers(md, Append(dog[w].entries, e))
          /\ Ahead(md, Append(dog[w].entries, e), due \ {FirstTask(due)})
      BY <3>1, <3>2, <3>3, <3>4, <3>5, TasksInOrder
    <3> QED
      BY <3>1, <3>2, <3>6, <3>7 DEF Tidy, md
  <2> QED
    BY <1>1, <2>1, <2>2, <2>3, <2>4, DogSteps
<1>7. ASSUME NEW n \in DOMAIN updates'
      PROVE  Answers(meta'[updates'[n].subject], updates'[n].entries)
  <2>1. CASE \E m \in DOMAIN updates : SameAnswers(updates[m], updates'[n])
    <3>1. PICK m \in DOMAIN updates : SameAnswers(updates[m], updates'[n])
      BY <2>1
    <3>2. Answers(meta[updates[m].subject], updates[m].entries)
      BY DEF ReportsInOrder
    <3>3. Answers(meta'[updates[m].subject], updates[m].entries)
      BY <1>3, <1>4, <3>2, AnswersInPlace
    <3> QED
      BY <3>1, <3>3 DEF SameAnswers, Answers
  <2>2. CASE \E w \in Watchdogs : /\ dog[w].phase = "renew"
                                  /\ updates'[n].subject = dog[w].subject
                                  /\ updates'[n].entries = dog[w].entries
    BY <1>2, <1>4, <1>5, <2>2, AnswersInPlace DEF Tidy
  <2> QED
    BY <1>1, <2>1, <2>2, QueueSteps
<1> QED
  BY <1>6, <1>7 DEF ReportsInOrder

\* The reports are always in order.
LEMMA ReportsAlwaysInOrder == Spec => []ReportsInOrder
<1>1. Init => ReportsInOrder
  <2> SUFFICES ASSUME Init PROVE ReportsInOrder
    OBVIOUS
  <2>1. \A w \in Watchdogs : /\ dog[w].phase \in {"sleep", "dead"}
                             /\ dog[w].entries = <<>>
    BY DEF Init, Idle
  <2>2. DOMAIN updates = {}
    BY DEF Init
  <2> QED
    BY <2>1, <2>2 DEF ReportsInOrder, Tidy
<1> QED
  BY <1>1, ReportsStayInOrder, InvariantHolds, PTL DEF Spec

\* update_db loses no renewed proxy by itself, however the watchdogs' readings
\* and the requests of the clients interleave and whoever is killed: each one
\* that get_times accepts is in place when it returns, unless its watchdog gave up
\* and deleted it; then the old proxy is.
THEOREM RenewalsStored == Spec => EveryRenewalStored
<1> DEFINE Stores ==
      UpdateDb \/ UpdateDbOvertaken =>
        LET u == Head(updates)
        IN  \A k \in DOMAIN u.entries :
              LET e == u.entries[k]
              IN  e.renewed /\ Usable(e.tmp, now) =>
                    \/ file'[u.subject][e.suffix] = e.tmp
                    \/ /\ Overtaken
                       /\ file'[u.subject][e.suffix] = file[u.subject][e.suffix]
<1>1. ASSUME IInv, ReportsInOrder, UpdateDb \/ UpdateDbOvertaken,
             NEW k \in DOMAIN Head(updates).entries,
             Head(updates).entries[k].renewed,
             Usable(Head(updates).entries[k].tmp, now)
      PROVE  LET h == Head(updates)
                 a == h.entries[k]
             IN  \/ file'[h.subject][a.suffix] = a.tmp
                 \/ /\ Overtaken
                    /\ file'[h.subject][a.suffix] = file[h.subject][a.suffix]
  <2>1. PICK u \in Update, lost \in SUBSET Nat :
          /\ SameRequest(Head(updates), u)
          /\ ~Overtaken => u = Head(updates) /\ lost = {}
          /\ u.subject \in Subjects
          /\ file'[u.subject] = FilesAfter(u, lost, Len(meta[u.subject]))
    BY <1>1, DbUpdate
  <2> DEFINE h == Head(updates)
             a == h.entries[k]
             md == meta[u.subject]
             e == u.entries[k]
             old == file[u.subject][e.suffix]
             new == file'[u.subject][e.suffix]
  <2>2. TypeOK /\ md \in Seq(Record) /\ Ascending(md)
    BY <1>1, <2>1, RecordsInOrder DEF IInv
  <2>3. /\ h.subject = u.subject /\ DOMAIN u.entries = DOMAIN h.entries
        /\ \A l \in DOMAIN u.entries : u.entries[l].suffix = h.entries[l].suffix
        /\ e.renewed = a.renewed /\ e.tmp \in {None, a.tmp}
    BY <1>1, <2>1 DEF SameRequest
  <2>4. u.entries \in Seq(Entry) /\ k \in DOMAIN u.entries /\ e \in Entry
    BY <1>1, <2>3 DEF Update
  <2>5. Answers(md, u.entries)
    <3>1. 1 \in DOMAIN updates /\ h = updates[1]
      BY <1>1, <2>2 DEF TypeOK, UpdateDb, UpdateDbOvertaken
    <3>2. Answers(meta[h.subject], h.entries)
      BY <1>1, <3>1 DEF ReportsInOrder
    <3> HIDE DEF h
    <3> QED
      BY <2>3, <3>2 DEF Answers
  <2>6. PICK i \in DOMAIN md : md[i].suffix = e.suffix
    BY <2>4, <2>5 DEF Answers
  <2>7. Applies(md, u.entries, i) /\ Cursor(md, u.entries)[i] = k
    <3>1. \A x, y \in DOMAIN md : x < y => md[x].suffix < md[y].suffix
      BY <2>2 DEF Ascending
    <3>2. \A x, y \in DOMAIN u.entries : x < y => u.entries[x].suffix < u.entries[y].suffix
      BY <2>5 DEF Answers
    <3>3. md \in Seq(Record) /\ u.entries \in Seq(Entry) /\ k \in DOMAIN u.entries
      BY <2>2, <2>4
    <3> HIDE DEF md
    <3> QED
      BY <2>6, <3>1, <3>2, <3>3, EntryFound
  <2>8. FilesAfter(u, lost, Len(md))[md[i].suffix] =
          IF k \notin lost THEN UpdatedFile(md[i], e, file[u.subject][md[i].suffix], now)
          ELSE file[u.subject][md[i].suffix]
    <3>1. Len(md) \in Nat /\ Len(md) <= Len(md) /\ i <= Len(md)
      BY <2>2
    <3> QED
      BY <2>2, <2>7, <3>1, FilesAfterAt
  <2>9. new = IF k \notin lost /\ Usable(e.tmp, now) THEN e.tmp ELSE old
    <3>1. UpdatedFile(md[i], e, old, now) = IF Usable(e.tmp, now) THEN e.tmp ELSE old
      BY <1>1, <2>3 DEF UpdatedFile, Drops
    <3> QED
      BY <2>1, <2>6, <2>8, <3>1
  <2>10. e.tmp # a.tmp \/ k \in lost => Overtaken
    BY <2>1
  <2>11. Usable(a.tmp, now) /\ ~Usable(None, now)
    BY <1>1 DEF Usable
  <2>12. \/ new = a.tmp
         \/ Overtaken /\ new = old
    BY <2>3, <2>9, <2>10, <2>11
  <2>13. a.suffix = e.suffix
    BY <2>3, <2>4
  <2> QED
    BY <2>3, <2>12, <2>13
<1>2. IInv /\ ReportsInOrder => Stores
  BY <1>1
<1>3. IInv /\ ReportsInOrder /\ [Next]_vars => [Stores]_vars
  BY <1>2
<1> QED
  BY <1>3, InvariantHolds, ReportsAlwaysInOrder, PTL DEF Spec, EveryRenewalStored

-------------------------------------------------------------------------------
(* The daemon is a renewal service: each of its steps is one of the        *)
(* service's, or none.                                                     *)

\* The proxies the clients have.
Clients == [d \in Subjects |-> Proxies(meta[d])]

\* A record is the proxy of its suffix.
LEMMA ProxyOfRecord ==
  ASSUME NEW md \in Seq(Record), Ascending(md), NEW i \in DOMAIN md,
         md[i].suffix \in Suffixes
  PROVE  Proxies(md)[md[i].suffix] = Known(md[i])
<1> DEFINE s == md[i].suffix
           k == CHOOSE k \in DOMAIN md : md[k].suffix = s
<1>1. k \in DOMAIN md /\ md[k].suffix = s
  OBVIOUS
<1>2. k = i
  BY <1>1, OneRecordEach
<1>3. Proxies(md)[s] = Known(md[k])
  BY DEF Proxies
<1> QED
  BY <1>2, <1>3

\* A suffix without a record is no proxy.
LEMMA ProxyOfNone ==
  ASSUME NEW md, NEW s \in Suffixes, ~\E i \in DOMAIN md : md[i].suffix = s
  PROVE  Proxies(md)[s] = Unknown
BY DEF Proxies

\* Storing a record changes the proxy of its suffix and no other.
LEMMA ProxyStored ==
  ASSUME NEW md \in Seq(Record), NEW r \in Record, r.suffix \in Suffixes,
         Ascending(md), Ascending(StoreRecord(md, r))
  PROVE  Proxies(StoreRecord(md, r)) = [Proxies(md) EXCEPT ![r.suffix] = Known(r)]
<1> DEFINE new == StoreRecord(md, r)
<1>1. /\ new \in Seq(Record)
      /\ \A i \in DOMAIN md : /\ i \in DOMAIN new
                              /\ new[i] = IF md[i].suffix = r.suffix THEN r ELSE md[i]
      /\ \A i \in DOMAIN new \ DOMAIN md : new[i] = r
  BY StoreRecordIsSeq
<1>2. PICK n \in DOMAIN new : new[n] = r
  BY StoreRecordStores
<1> HIDE DEF new
<1>3. Proxies(new)[r.suffix] = Known(r)
  BY <1>1, <1>2, ProxyOfRecord DEF new
<1>4. ASSUME NEW s \in Suffixes, s # r.suffix
      PROVE  Proxies(new)[s] = Proxies(md)[s]
  <2>1. CASE \E i \in DOMAIN md : md[i].suffix = s
    <3>1. PICK i \in DOMAIN md : md[i].suffix = s
      BY <2>1
    <3>2. i \in DOMAIN new /\ new[i] = md[i]
      BY <1>1, <1>4, <3>1
    <3>3. Proxies(md)[s] = Known(md[i])
      BY <3>1, ProxyOfRecord
    <3>4. Proxies(new)[s] = Known(new[i])
      BY <1>1, <3>1, <3>2, ProxyOfRecord DEF new
    <3> QED
      BY <3>2, <3>3, <3>4
  <2>2. CASE ~\E i \in DOMAIN md : md[i].suffix = s
    <3>1. ~\E i \in DOMAIN new : new[i].suffix = s
      BY <1>1, <1>4, <2>2
    <3> QED
      BY <2>2, <3>1, ProxyOfNone
  <2> QED
    BY <2>1, <2>2
<1>5. /\ Proxies(new) = [s \in Suffixes |-> Proxies(new)[s]]
      /\ Proxies(md) = [s \in Suffixes |-> Proxies(md)[s]]
  BY DEF Proxies
<1> QED
  BY <1>3, <1>4, <1>5 DEF new

\* The same of the proxies of all subjects.
LEMMA ClientsStored ==
  ASSUME IInv, IInv', NEW d \in Subjects, NEW r \in Record, r.suffix \in Suffixes,
         meta' = [meta EXCEPT ![d] = StoreRecord(meta[d], r)]
  PROVE  /\ Clients' = [Clients EXCEPT ![d][r.suffix] = Known(r)]
         /\ Clients'[d][r.suffix] = Known(r)
<1>1. /\ meta[d] \in Seq(Record) /\ Ascending(meta[d])
      /\ meta'[d] = StoreRecord(meta[d], r)
      /\ \A x \in Subjects \ {d} : meta'[x] = meta[x]
  BY RecordsInOrder DEF IInv, TypeOK
<1>2. Ascending(meta'[d])
  BY DEF IInv, SuffixesAscending, Ascending
<1>3. Proxies(meta'[d]) = [Proxies(meta[d]) EXCEPT ![r.suffix] = Known(r)]
  BY <1>1, <1>2, ProxyStored
<1>4. /\ Clients' = [x \in Subjects |-> Proxies(meta'[x])]
      /\ Clients = [x \in Subjects |-> Proxies(meta[x])]
  BY DEF Clients, Proxies, Known, Unknown, Suffixes
<1>5. Proxies(meta[d])  = [s \in Suffixes |-> Proxies(meta[d])[s]]
  BY DEF Proxies
<1>6. Clients'[d] = [Clients[d] EXCEPT ![r.suffix] = Known(r)]
  BY <1>3, <1>4
<1>7. \A x \in Subjects \ {d} : Clients'[x] = Clients[x]
  BY <1>1, <1>4
<1> QED
  BY <1>4, <1>5, <1>6, <1>7

\* A registration with a new proxy file gives the job a proxy of its own.
LEMMA ServesOwn ==
  ASSUME IInv, IInv', NEW j \in Jobs, NEW d \in Subjects, NEW server \in Servers,
         NEW p \in Proxy, NEW voms \in BOOLEAN, RegisterNew(j, d, server, p, voms)
  PROVE  [Service!Next]_(Service!svars)
<1>1. PICK r \in Record : r.suffix \in Suffixes /\ OwnRecord(j, d, server, p, voms, r)
  BY NewRecord
<1> DEFINE s == r.suffix
           old == Clients[d][s]
           new == Clients'[d][s]
<1>2. now' = now
  BY DEF RegisterNew
<1>3. CASE meta' = meta /\ registered' = registered
  BY <1>2, <1>3 DEF Service!svars
<1>4. CASE /\ Usable(p, now) /\ r.end = p.leaf
           /\ meta' = [meta EXCEPT ![d] = StoreRecord(meta[d], r)]
           /\ registered' = [registered EXCEPT ![j] =
                [subject |-> d, suffix |-> s, server |-> server, voms |-> voms]]
  <2>1. /\ Clients' = [Clients EXCEPT ![d][s] = new]
        /\ new = Known(r)
    BY <1>1, <1>4, ClientsStored
  <2>2. /\ new.jobs = <<j>> /\ new.end = r.end
        /\ new.server = server /\ new.voms = voms
    BY <1>1, <2>1 DEF OwnRecord, Known
  <2>3. new.end + ClockSkew >= now
    BY <1>1, <1>4, <2>2, ScheduleAssumption DEF Usable, Proxy, IInv, TypeOK
  <2>4. old = Unknown
    <3>1. meta[d] \in Seq(Record) /\ Ascending(meta[d])
      BY RecordsInOrder
    <3>2. CASE \E i \in DOMAIN meta[d] : meta[d][i].suffix = s
      <4>1. PICK i \in DOMAIN meta[d] : meta[d][i].suffix = s
        BY <3>2
      <4>2. meta[d][i].jobs = <<>>
        BY <1>1, <4>1 DEF OwnRecord
      <4>3. old = Known(meta[d][i])
        BY <1>1, <3>1, <4>1, ProxyOfRecord DEF Clients
      <4> QED
        BY <4>2, <4>3 DEF Known
    <3>3. CASE ~\E i \in DOMAIN meta[d] : meta[d][i].suffix = s
      BY <1>1, <3>3, ProxyOfNone DEF Clients
    <3> QED
      BY <3>2, <3>3
  <2>5. Service!Own(j, d, s)
    BY <1>2, <1>4, <2>1, <2>2, <2>3, <2>4
       DEF Service!Own, Service!Told, Service!Unused, Unknown, Clients
  <2> QED
    BY <1>1, <2>5 DEF Service!Next
<1> QED
  BY <1>1, <1>3, <1>4 DEF OwnRecord

\* A record in use is known by what it has.
LEMMA KnownInUse ==
  ASSUME NEW r \in Record, r.jobs # <<>>
  PROVE  /\ Known(r) = [jobs |-> r.jobs, server |-> r.server,
                        voms |-> r.voms, end |-> r.end]
         /\ Known(r).jobs = r.jobs
BY DEF Known

\* A record that another job joins, or leaves to others, is known by its new
\* jobs.
LEMMA KnownOtherJobs ==
  ASSUME NEW r \in Record, NEW q \in Record, r.jobs # <<>>, q.jobs # <<>>,
         q.voms = r.voms, q.server = r.server, q.end = r.end
  PROVE  Known(q) = [Known(r) EXCEPT !.jobs = q.jobs]
<1>1. /\ Known(r) = [jobs |-> r.jobs, server |-> r.server,
                     voms |-> r.voms, end |-> r.end]
      /\ Known(q) = [jobs |-> q.jobs, server |-> r.server,
                     voms |-> r.voms, end |-> r.end]
  BY KnownInUse
<1> QED
  BY <1>1

\* A registration that shares a proxy joins its jobs.
LEMMA ServesJoin ==
  ASSUME IInv, IInv', NEW j \in Jobs, NEW d \in Subjects, NEW server \in Servers,
         NEW voms \in BOOLEAN, RegisterShared(j, d, server, voms)
  PROVE  Service!Next
<1>1. PICK c \in DOMAIN meta[d], q \in Record : JoinedRecord(j, d, server, c, q)
  BY SharedRecord
<1> DEFINE r == meta[d][c]
           s == r.suffix
           old == Clients[d][s]
           new == Clients'[d][s]
<1>2. now' = now
  BY DEF RegisterShared
<1>3. r \in Record /\ s \in Suffixes /\ q.suffix = s
  BY <1>1, RecordsTyped DEF IInv, JoinedRecord
<1>4. old = Known(r)
  BY <1>1, <1>3, RecordsInOrder, ProxyOfRecord DEF Clients
<1>5. Clients' = [Clients EXCEPT ![d][s] = Known(q)] /\ new = Known(q)
  BY <1>1, <1>3, ClientsStored DEF JoinedRecord
<1>6. /\ old.jobs \in Seq(Jobs) /\ old.jobs # <<>>
      /\ Len(old.jobs) < MaxProxies /\ ~old.voms
      /\ old.end >= now + CondorLimit + ClockSkew
  BY <1>1, <1>3, <1>4, ScheduleAssumption DEF JoinedRecord, Known, Record, IInv, TypeOK
<1>7. Len(old.jobs) \in 1..(MaxProxies - 1)
  BY <1>6, RecordsAssumption
<1>8. Known(q) = [old EXCEPT !.jobs = Append(old.jobs, j)]
  <2>1. q.jobs # <<>>
    BY <1>1, <1>3 DEF JoinedRecord, Record
  <2>2. /\ r.jobs # <<>> /\ q.jobs = Append(r.jobs, j)
        /\ q.voms = r.voms /\ q.server = r.server /\ q.end = r.end
    BY <1>1 DEF JoinedRecord
  <2>3. old.jobs = r.jobs
    BY <1>3, <1>4, <2>2, KnownInUse
  <2> QED
    BY <1>3, <1>4, <2>1, <2>2, <2>3, KnownOtherJobs
<1>9. new.server = server /\ new.voms = r.voms
  <2>1. q.jobs # <<>>
    BY <1>1, <1>3 DEF JoinedRecord, Record
  <2>2. new.server = q.server /\ new.voms = q.voms
    BY <1>5, <2>1 DEF Known
  <2> QED
    BY <1>1, <2>2 DEF JoinedRecord
<1>10. registered' = [registered EXCEPT ![j] =
          [subject |-> d, suffix |-> s, server |-> server, voms |-> r.voms]]
  BY <1>1 DEF JoinedRecord
<1> HIDE DEF r
<1>11. Service!Join(j, d, s)
  BY <1>2, <1>5, <1>6, <1>7, <1>8, <1>9, <1>10
     DEF Service!Join, Service!Told, Clients
<1> QED
  BY <1>3, <1>11 DEF Service!Next

\* What WithoutJob takes off a record.
LEMMA WithoutOne ==
  ASSUME NEW r \in Record, NEW j, Lists(r, j)
  PROVE  \E k \in DOMAIN r.jobs :
           LET rest == Service!Without(r.jobs, k)
           IN  /\ r.jobs[k] = j
               /\ WithoutJob(r, j) =
                    IF rest = <<>>
                      THEN [r EXCEPT !.jobs = <<>>, !.voms = FALSE, !.next = 0, !.end = 0]
                      ELSE [r EXCEPT !.jobs = rest]
<1> DEFINE at == {i \in DOMAIN r.jobs : r.jobs[i] = j}
           k == Min(at)
<1>1. at \in SUBSET Nat /\ at # {}
  <2>1. r.jobs \in Seq(Jobs)
    BY DEF Record
  <2> QED
    BY <2>1 DEF Lists
<1>2. k \in at
  <2> HIDE DEF at
  <2> QED
    BY <1>1, MinOfNaturals
<1>3. WithoutJob(r, j) =
        LET rest == Service!Without(r.jobs, k)
        IN  IF rest = <<>>
              THEN [r EXCEPT !.jobs = <<>>, !.voms = FALSE, !.next = 0, !.end = 0]
              ELSE [r EXCEPT !.jobs = rest]
  BY DEF WithoutJob, Service!Without
<1> HIDE DEF k
<1> QED
  BY <1>2, <1>3

\* Taking a job off a record takes it off its proxy, which goes with the last.
LEMMA ServesLeave ==
  ASSUME IInv, IInv', NEW j \in Jobs, NEW d \in Subjects, NEW i \in DOMAIN meta[d],
         JobRemoved(j, d, i), now' = now
  PROVE  Service!Next
<1> DEFINE r == meta[d][i]
           s == r.suffix
           old == Clients[d][s]
<1>1. r \in Record /\ s \in Suffixes /\ Lists(r, j)
  BY RecordsTyped DEF IInv, JobRemoved
<1>2. old = Known(r)
  BY <1>1, RecordsInOrder, ProxyOfRecord DEF Clients
<1>3. PICK q \in Record : q = WithoutJob(r, j) /\ q.suffix = s
  BY <1>1, WithoutJobKeeps
<1>4. /\ meta' = [meta EXCEPT ![d] = StoreRecord(meta[d], q)]
      /\ registered' = [registered EXCEPT ![j] = None]
  BY <1>3 DEF JobRemoved
<1>5. Clients' = [Clients EXCEPT ![d][s] = Known(q)]
  <2>1. q.suffix \in Suffixes
    BY <1>1, <1>3
  <2>2. Clients' = [Clients EXCEPT ![d][q.suffix] = Known(q)]
    BY <1>4, <2>1, ClientsStored
  <2> HIDE DEF s
  <2> QED
    BY <1>3, <2>2
<1>6. PICK k \in DOMAIN r.jobs :
        LET rest == Service!Without(r.jobs, k)
        IN  /\ r.jobs[k] = j
            /\ q = IF rest = <<>>
                     THEN [r EXCEPT !.jobs = <<>>, !.voms = FALSE, !.next = 0, !.end = 0]
                     ELSE [r EXCEPT !.jobs = rest]
  <2> HIDE DEF r
  <2> QED
    BY <1>1, <1>3, WithoutOne
<1> DEFINE rest == Service!Without(r.jobs, k)
<1>7. r.jobs # <<>>
  BY <1>1 DEF Record, Lists
<1>8. old.jobs = r.jobs
  BY <1>1, <1>2, <1>7, KnownInUse
<1> HIDE DEF r, rest
<1>9. Known(q) = IF rest = <<>> THEN Unknown ELSE [old EXCEPT !.jobs = rest]
  <2>1. CASE rest = <<>>
    <3>1. q.jobs = <<>>
      BY <1>1, <1>6, <2>1 DEF Record, rest
    <3> QED
      BY <2>1, <3>1 DEF Known
  <2>2. CASE rest # <<>>
    <3>1. /\ q.jobs = rest /\ q.server = r.server
          /\ q.voms = r.voms /\ q.end = r.end
      BY <1>1, <1>6, <2>2 DEF Record, rest
    <3> QED
      BY <1>1, <1>2, <1>7, <2>2, <3>1, KnownOtherJobs
  <2> QED
    BY <2>1, <2>2
<1>10. k \in DOMAIN old.jobs /\ old.jobs[k] = j /\ rest = Service!Without(old.jobs, k)
  BY <1>6, <1>8 DEF rest
<1>11. Clients' = [Clients EXCEPT ![d][s] = IF rest = <<>> THEN Unknown
                                           ELSE [Clients[d][s] EXCEPT !.jobs = rest]]
  BY <1>5, <1>9
<1>12. Service!Leave(j, d, s)
  BY <1>4, <1>10, <1>11 DEF Service!Leave, Service!Unused, Unknown, Clients
<1> QED
  BY <1>1, <1>12 DEF Service!Next

\* A record that an entry applies to stays as it is known, has expired, or is
\* known by another end.
LEMMA KnownUpdated ==
  ASSUME NEW r \in Record, NEW e \in Entry, NEW current \in Proxy \union {None},
         NEW t \in Nat
  PROVE  LET p == Known(r)
             n == Known(UpdatedRecord(r, e, current, t))
         IN  \/ n = p
             \/ p.end < t /\ n = Unknown
             \/ p # Unknown /\ n = [p EXCEPT !.end = n.end] /\ n.end + ClockSkew >= t
<1> DEFINE q == UpdatedRecord(r, e, current, t)
           made == IF e.renewed THEN e.tmp ELSE current
<1>1. made \in Proxy \union {None}
  BY DEF Entry
<1>2. q \in Record /\ (q.jobs = <<>> \/ q.jobs = r.jobs)
  BY UpdatedRecordKeeps
<1>3. CASE r.jobs = <<>>
  BY <1>2, <1>3 DEF Known
<1>4. CASE r.jobs # <<>> /\ Drops(r, e, t)
  <2>1. q.jobs = <<>>
    BY <1>4, FreedIsRecord DEF UpdatedRecord
  <2>2. Known(r).end = r.end
    BY <1>4 DEF Known
  <2> QED
    BY <1>4, <2>1, <2>2 DEF Drops, Known
<1>5. CASE r.jobs # <<>> /\ ~Drops(r, e, t)
  <2>1. q = Retimed(r, made, t)
    BY <1>5 DEF UpdatedRecord
  <2> HIDE DEF q, made
  <2>2. CASE ~Usable(made, t)
    BY <2>1, <2>2 DEF Retimed, q
  <2>3. CASE Usable(made, t)
    <3>1. /\ q.jobs = r.jobs /\ q.voms = r.voms /\ q.server = r.server
          /\ q.end = made.leaf
      BY <1>1, <2>1, <2>3, RetimedKeeps, RetimedInTime
    <3>2. made.leaf + ClockSkew >= t
      BY <1>1, <2>3, ScheduleAssumption, NoneAssumption DEF Usable, Proxy
    <3>3. /\ Known(r) = [jobs |-> r.jobs, server |-> r.server,
                         voms |-> r.voms, end |-> r.end]
          /\ Known(q) = [jobs |-> r.jobs, server |-> r.server,
                         voms |-> r.voms, end |-> q.end]
      BY <1>5, <3>1 DEF Known
    <3>4. Known(r) # Unknown
      <4>1. Known(r).jobs # Unknown.jobs
        BY <1>5, <3>3 DEF Unknown
      <4> QED
        BY <4>1
    <3>5. Known(q) = [Known(r) EXCEPT !.end = Known(q).end] /\ Known(q).end = made.leaf
      BY <3>1, <3>3
    <3> QED
      BY <3>2, <3>4, <3>5 DEF q
  <2> QED
    BY <2>2, <2>3
<1> QED
  BY <1>3, <1>4, <1>5

\* The same of a record and the entry update_db finds for it, if any.
LEMMA KnownAfter ==
  ASSUME TypeOK, NEW u \in Update, NEW i \in DOMAIN meta[u.subject]
  PROVE  LET p == Known(meta[u.subject][i])
             n == Known(RecordsAfter(u)[i])
         IN  \/ n = p
             \/ Service!Expires(p, n)
             \/ Service!Renewed(p, n)
<1> DEFINE d == u.subject
           r == meta[d][i]
           current == file[d][r.suffix]
<1>1. d \in Subjects
  BY DEF Update
<1>2. r \in Record /\ r.suffix \in Suffixes /\ now \in Nat
  BY <1>1, RecordsTyped DEF TypeOK
<1>3. current \in Proxy \union {None}
  BY <1>1, <1>2 DEF TypeOK
<1>4. \/ RecordsAfter(u)[i] = r
      \/ \E e \in Entry : RecordsAfter(u)[i] = UpdatedRecord(r, e, current, now)
  BY RecordsAfterTyped
<1>5. Service!Unused = Unknown
  BY DEF Service!Unused, Unknown
<1> HIDE DEF r, current
<1>6. CASE RecordsAfter(u)[i] = r
  BY <1>6 DEF r
<1>7. ASSUME NEW e \in Entry, RecordsAfter(u)[i] = UpdatedRecord(r, e, current, now)
      PROVE  LET p == Known(r)
                 n == Known(RecordsAfter(u)[i])
             IN  \/ n = p
                 \/ Service!Expires(p, n)
                 \/ Service!Renewed(p, n)
  BY <1>2, <1>3, <1>5, <1>7, KnownUpdated DEF Service!Expires, Service!Renewed
<1> QED
  BY <1>4, <1>6, <1>7 DEF r

\* update_db renews proxies and lets others expire, with their jobs.
LEMMA ServesUpdate ==
  ASSUME IInv, IInv', RegistrationHeld, UpdateDb \/ UpdateDbOvertaken
  PROVE  Service!Next
<1>1. PICK u \in Update :
        /\ u.subject \in Subjects /\ now' = now
        /\ meta'[u.subject] = RecordsAfter(u)
        /\ \A x \in Subjects \ {u.subject} : meta'[x] = meta[x]
        /\ DOMAIN RecordsAfter(u) = DOMAIN meta[u.subject]
        /\ registered' = Forget(u.subject, RecordsAfter(u))
  BY DbUpdate
<1> DEFINE d == u.subject
           md == meta[d]
           new == RecordsAfter(u)
<1>2. TypeOK /\ md \in Seq(Record) /\ Ascending(md) /\ now' = now
  BY <1>1, RecordsInOrder DEF IInv
<1>3. new \in Seq(Record) /\ Ascending(new)
  <2>1. new \in Seq(BoundedRecord) /\ meta'[d] \in Seq(BoundedRecord)
    BY <1>1, <1>2, RecordsAfterTyped
  <2>2. BoundedRecord \subseteq Record
    BY DEF BoundedRecord
  <2>3. Ascending(meta'[d])
    BY <1>1 DEF IInv, SuffixesAscending, Ascending
  <2>4. new \in Seq(Record)
    BY <2>1, <2>2
  <2> QED
    BY <1>1, <2>3, <2>4
<1>4. /\ Clients' = [x \in Subjects |-> Proxies(meta'[x])]
      /\ Clients = [x \in Subjects |-> Proxies(meta[x])]
  BY DEF Clients, Proxies, Known, Unknown, Suffixes
<1>5. Clients' = [Clients EXCEPT ![d] = Clients'[d]]
  BY <1>1, <1>4
<1>6. Clients[d] = Proxies(md) /\ Clients'[d] = Proxies(new)
  BY <1>1, <1>4
<1>7. ASSUME NEW i \in DOMAIN md
      PROVE  /\ md[i].suffix \in Suffixes /\ new[i].suffix = md[i].suffix
             /\ Proxies(md)[md[i].suffix] = Known(md[i])
             /\ Proxies(new)[md[i].suffix] = Known(new[i])
  <2>1. md[i].suffix \in Suffixes /\ new[i].suffix = md[i].suffix
    BY <1>1, <1>2, RecordsTyped, RecordsAfterKeeps
  <2> HIDE DEF md, new
  <2>2. i \in DOMAIN new
    BY <1>1 DEF md, new
  <2>3. Proxies(md)[md[i].suffix] = Known(md[i])
    BY <1>2, <2>1, ProxyOfRecord
  <2>4. Proxies(new)[new[i].suffix] = Known(new[i])
    BY <1>3, <2>1, <2>2, ProxyOfRecord
  <2> QED
    BY <2>1, <2>3, <2>4
<1>8. ASSUME NEW s \in Suffixes
      PROVE  \/ Clients'[d][s] = Clients[d][s]
             \/ Service!Expires(Clients[d][s], Clients'[d][s])
             \/ Service!Renewed(Clients[d][s], Clients'[d][s])
  <2>1. CASE \E i \in DOMAIN md : md[i].suffix = s
    <3>1. PICK i \in DOMAIN md : md[i].suffix = s
      BY <2>1
    <3>2. Clients[d][s] = Known(md[i]) /\ Clients'[d][s] = Known(new[i])
      BY <1>6, <1>7, <3>1
    <3> QED
      BY <1>2, <3>2, KnownAfter
  <2>2. CASE ~\E i \in DOMAIN md : md[i].suffix = s
    <3>1. ~\E i \in DOMAIN new : new[i].suffix = s
      BY <1>1, <1>7, <2>2
    <3> QED
      BY <1>6, <2>2, <3>1, ProxyOfNone
  <2> QED
    BY <2>1, <2>2
<1>9. ASSUME NEW j \in Jobs, Registered(j), registered[j].subject = d
      PROVE  Clients'[d][registered[j].suffix] = Unknown <=>
               ~\E i \in DOMAIN new : /\ new[i].suffix = registered[j].suffix
                                      /\ Lists(new[i], j)
  <2> DEFINE s == registered[j].suffix
  <2>1. PICK i \in DOMAIN md : md[i].suffix = s /\ Lists(md[i], j)
    BY <1>9, HeldByJob DEF Holds
  <2>2. Clients'[d][s] = Known(new[i]) /\ new[i].suffix = s
    BY <1>6, <1>7, <2>1
  <2>3. new[i].jobs = <<>> \/ new[i].jobs = md[i].jobs
    BY <1>2, RecordsAfterKeeps
  <2>4. CASE new[i].jobs = <<>>
    <3>1. \A k \in DOMAIN new : new[k].suffix = s => k = i
      BY <1>1, <1>3, <2>2, OneRecordEach
    <3>2. ~Lists(new[i], j)
      BY <2>4 DEF Lists
    <3> QED
      BY <2>2, <2>4, <3>1, <3>2 DEF Known
  <2>5. CASE new[i].jobs # <<>>
    <3>1. i \in DOMAIN new /\ Lists(new[i], j)
      BY <1>1, <2>1, <2>3, <2>5 DEF Lists
    <3>2. Known(new[i]) # Unknown
      <4>1. Known(new[i]).jobs # Unknown.jobs
        BY <2>5 DEF Known, Unknown
      <4> QED
        BY <4>1
    <3> QED
      BY <2>2, <3>1, <3>2
  <2> QED
    BY <2>4, <2>5
<1>10. registered' = [j \in Jobs |->
                        IF /\ registered[j] # None
                           /\ registered[j].subject = d
                           /\ Clients'[d][registered[j].suffix] = Unknown
                          THEN None ELSE registered[j]]
  <2> HIDE DEF d, new
  <2> QED
    BY <1>1, <1>9 DEF Forget, Registered, d, new
<1>11. Service!Update(d)
  BY <1>2, <1>5, <1>8, <1>10 DEF Service!Update, Service!Unused, Unknown, Clients
<1> QED
  BY <1>1, <1>11 DEF Service!Next

\* Only the clock moves the time.
LEMMA NowMoves ==
  ASSUME [Next]_vars
  PROVE  now' = now \/ Tick
<1>1. CASE UNCHANGED vars
  BY <1>1 DEF vars
<1>2. ASSUME NEW j \in Jobs,
             \/ Register(j) \/ Unregister(j) \/ UnregisterNamed(j)
             \/ UnregisterForeign(j) \/ CrashInRegister(j) \/ CrashInUnregister(j)
      PROVE  now' = now
  <2>1. CASE Register(j)
    BY <2>1 DEF Register, RegisterNew, RegisterShared
  <2>2. CASE Unregister(j)
    BY <2>2 DEF Unregister, RemoveJob
  <2>3. CASE UnregisterNamed(j)
    BY <2>3 DEF UnregisterNamed, RemoveJob
  <2>4. CASE UnregisterForeign(j)
    BY <2>4 DEF UnregisterForeign, RemoveJob
  <2>5. CASE CrashInRegister(j) \/ CrashInUnregister(j)
    BY <2>5 DEF CrashInRegister, CrashInUnregister, MasterDies
  <2> QED
    BY <1>2, <2>1, <2>2, <2>3, <2>4, <2>5
<1>3. CASE \/ UpdateDb \/ UpdateDbOvertaken \/ RestartWatchdog
           \/ Crash \/ CrashInUpdateDb \/ MasterRestart
  BY <1>3 DEF UpdateDb, UpdateDbOvertaken, UpdateRepository, RestartWatchdog,
              Crash, CrashInUpdateDb, MasterRestart, MasterDies
<1>4. CASE \E w \in Watchdogs : \/ WatchdogStep(w) \/ Timeout(w)
                                \/ WatchdogExits(w) \/ WatchdogDies(w)
  BY <1>4 DEF WatchdogStep, WakeUp, CheckRenewal, FinishScan, RenewProxy,
              SendUpdate, Timeout, WatchdogExits, WatchdogDies
<1> QED
  BY <1>1, <1>2, <1>3, <1>4 DEF Next

\* Each step of the daemon is one of the service's, or none.
LEMMA ServesStep ==
  IInv /\ IInv' /\ RegistrationHeld /\ [Next]_vars => [Service!Next]_(Service!svars)
<1> SUFFICES ASSUME IInv, IInv', RegistrationHeld, [Next]_vars
             PROVE  [Service!Next]_(Service!svars)
  OBVIOUS
<1>1. ASSUME NEW j \in Jobs, Register(j)
      PROVE  [Service!Next]_(Service!svars)
  BY <1>1, Registers, ServesOwn, ServesJoin
<1>2. ASSUME NEW j \in Jobs, now' = now,
             \/ Unregister(j) \/ UnregisterNamed(j) \/ UnregisterForeign(j)
             \/ CrashInUnregister(j)
      PROVE  Service!Next
  BY <1>2, Removals, ServesLeave
<1>3. CASE UpdateDb \/ UpdateDbOvertaken
  BY <1>3, ServesUpdate
<1>4. CASE Tick
  <2>1. UNCHANGED <<meta, registered>> /\ now' > now
    BY <1>4 DEF Tick, disk, IInv, TypeOK
  <2>2. Service!Tick
    BY <2>1 DEF Service!Tick
  <2> QED
    BY <2>2 DEF Service!Next
<1>5. CASE UNCHANGED <<meta, registered, now>>
  BY <1>5 DEF Service!svars
<1> QED
  BY <1>1, <1>2, <1>3, <1>4, <1>5, NowMoves, OtherSteps

\* Whoever is killed and whatever comes late or twice, the clients meet a renewal
\* service: each gets a proxy of its own or one that lasts and may be shared,
\* with the server and the kind it was told, and keeps it until it leaves or the
\* proxy's life is over.
THEOREM ServesClients == Spec => IsService
<1>1. Init => Service!Init
  <2> SUFFICES ASSUME Init PROVE Service!Init
    OBVIOUS
  <2>1. \A d \in Subjects : meta[d] = <<>>
    BY DEF Init
  <2>2. Proxies(<<>>) = [s \in Suffixes |-> Unknown]
    BY DEF Proxies
  <2> QED
    BY <2>1, <2>2, DaemonAssumption DEF Init, Service!Init, Service!Unused, Unknown
<1>2. IInv /\ IInv' /\ RegistrationHeld /\ [Next]_vars => [Service!Next]_(Service!svars)
  BY ServesStep
<1> QED
  BY <1>1, <1>2, InvariantHolds, RegistrationsKept, PTL DEF Spec, IsService, Service!Spec

===============================================================================
