------------------------- MODULE ProxyRenewal_proofs -------------------------
(***************************************************************************)
(* Proofs about the renewal daemon.                                        *)
(***************************************************************************)
EXTENDS ProxyRenewal, ProxyRecords_proofs

-------------------------------------------------------------------------------
(* Typing of the pieces.                                                   *)

\* The records of a subject are records, with suffixes up to the bound.
LEMMA RecordsTyped ==
  ASSUME TypeOK, NEW d \in Subjects
  PROVE  /\ meta[d] \in Seq(BoundedRecord)
         /\ meta[d] \in Seq(Record)
         /\ \A i \in DOMAIN meta[d] : /\ meta[d][i] \in BoundedRecord
                                      /\ meta[d][i] \in Record
                                      /\ meta[d][i].suffix \in Suffixes
                                      /\ meta[d][i].suffix <= MaxSuffix
<1>1. meta[d] \in Seq(BoundedRecord)
  BY DEF TypeOK
<1>2. BoundedRecord \subseteq Record
  BY DEF BoundedRecord
<1>3. meta[d] \in Seq(Record)
  BY <1>1, <1>2, SeqMonotonic
<1>4. \A i \in DOMAIN meta[d] : meta[d][i] \in BoundedRecord
  BY <1>1
<1>5. \A r \in BoundedRecord : r \in Record /\ r.suffix \in Suffixes
  BY DEF BoundedRecord
<1>6. \A s \in Suffixes : s <= MaxSuffix
  BY DaemonAssumption DEF Suffixes
<1> QED
  BY <1>1, <1>3, <1>4, <1>5, <1>6

\* Storing a record of the type keeps the repository files typed.
LEMMA StoreTyped ==
  ASSUME TypeOK, NEW d \in Subjects, NEW r \in Record, r.suffix \in Suffixes
  PROVE  [meta EXCEPT ![d] = StoreRecord(meta[d], r)]
           \in [Subjects -> Seq(BoundedRecord)]
<1>1. r \in BoundedRecord
  BY DEF BoundedRecord
<1>2. StoreRecord(meta[d], r) \in Seq(BoundedRecord)
  BY <1>1, RecordsTyped, StoreRecordIsSeq
<1> QED
  BY <1>2 DEF TypeOK

\* Proxies that are issued are proxies.
LEMMA IssuedTyped ==
  ASSUME now \in Nat, NEW lives \in SUBSET (Nat \X Nat)
  PROVE  Issued(lives) \subseteq Proxy
<1> SUFFICES ASSUME NEW l \in lives, NEW v \in BOOLEAN
             PROVE  [leaf |-> now + l[1],
                     chain |-> IF l[2] = 0 THEN 0 ELSE now + l[2],
                     voms |-> v] \in Proxy
  BY DEF Issued
<1>1. l[1] \in Nat /\ l[2] \in Nat
  OBVIOUS
<1>2. now + l[1] \in Nat /\ (IF l[2] = 0 THEN 0 ELSE now + l[2]) \in Nat
  BY <1>1
<1> QED
  BY <1>2 DEF Proxy

\* What registering with a candidate of the repository file comes to.
LEMMA NewSuffixTyped ==
  ASSUME TypeOK, NEW d \in Subjects, NEW server, NEW voms, NEW t
  PROVE  LET C == Candidates(meta[d], server, voms, t)
             s == NewSuffix(meta[d], C)
         IN  /\ s \in Nat
             /\ s <= MaxSuffix => s \in Suffixes
             /\ C = {} => \A i \in DOMAIN meta[d] : meta[d][i].suffix < s
             /\ C # {} => /\ Min(C) \in DOMAIN meta[d]
                          /\ s = meta[d][Min(C)].suffix
                          /\ \/ Free(meta[d][Min(C)])
                             \/ Shareable(meta[d][Min(C)], server, voms, t)
<1>1. /\ meta[d] \in Seq(Record)
      /\ \A i \in DOMAIN meta[d] : meta[d][i].suffix <= MaxSuffix
  BY RecordsTyped
<1>2. MaxSuffix \in Nat
  BY DaemonAssumption
<1>3. LET C == Candidates(meta[d], server, voms, t)
          s == NewSuffix(meta[d], C)
      IN  /\ s \in Nat
          /\ C = {} => \A i \in DOMAIN meta[d] : meta[d][i].suffix < s
          /\ C # {} => /\ Min(C) \in DOMAIN meta[d]
                       /\ s = meta[d][Min(C)].suffix
  BY <1>1, <1>2, NewSuffixIsNew
<1>4. LET C == Candidates(meta[d], server, voms, t)
      IN  C # {} => \/ Free(meta[d][Min(C)])
                    \/ Shareable(meta[d][Min(C)], server, voms, t)
  BY <1>1, FirstCandidate
<1> QED
  BY <1>2, <1>3, <1>4 DEF Suffixes

\* The watchdog that starts or goes on is a watchdog.
LEMMA IdleTyped ==
  ASSUME NEW phase \in Phases
  PROVE  Idle(phase) \in Watchdog /\ Idle(phase).phase = phase
BY DEF Idle, Watchdog

\* A watchdog that goes on with its scan is typed.
LEMMA ResumeTyped ==
  ASSUME TypeOK, NEW w \in Watchdogs
  PROVE  Resume(w) \in Watchdog /\ Resume(w).phase = "scan"
<1>1. dog[w] \in Watchdog
  BY DEF TypeOK
<1> DEFINE a == [dog[w] EXCEPT !.phase = "scan"]
           b == [a EXCEPT !.subject = None]
           c == [b EXCEPT !.due = {}]
           e == [c EXCEPT !.entries = <<>>]
<1>2. a \in Watchdog
  BY <1>1 DEF Watchdog, Phases
<1> HIDE DEF a
<1>3. b \in Watchdog
  BY <1>2 DEF Watchdog
<1> HIDE DEF b
<1>4. c \in Watchdog
  BY <1>3 DEF Watchdog
<1> HIDE DEF c
<1>5. <<>> \in Seq(Entry)
  OBVIOUS
<1>6. e \in Watchdog
  BY <1>4, <1>5 DEF Watchdog
<1> QED
  BY <1>6 DEF Resume, a, b, c

\* A queue whose requests were abandoned by a watchdog is a queue.
LEMMA AbandonTyped ==
  ASSUME TypeOK, NEW w \in Watchdogs, NEW deleted \in BOOLEAN
  PROVE  [k \in DOMAIN updates |-> Abandoned(updates[k], w, deleted)] \in Seq(Update)
<1>1. updates \in Seq(Update)
  BY DEF TypeOK
<1>2. ASSUME NEW u \in Update
      PROVE  Abandoned(u, w, deleted) \in Update
  <2> DEFINE cut == [k \in DOMAIN u.entries |->
                      IF deleted THEN [u.entries[k] EXCEPT !.tmp = None]
                      ELSE u.entries[k]]
             a == [u EXCEPT !.dog = None]
             b == [a EXCEPT !.entries = cut]
  <2>1. u.entries \in Seq(Entry) /\ \A k \in DOMAIN u.entries : u.entries[k] \in Entry
    BY DEF Update
  <2>2. \A e \in Entry : [e EXCEPT !.tmp = None] \in Entry
    BY DEF Entry
  <2>3. cut \in Seq(Entry)
    <3> DEFINE elt(k) == IF deleted THEN [u.entries[k] EXCEPT !.tmp = None]
                         ELSE u.entries[k]
    <3>1. DOMAIN u.entries = 1..Len(u.entries) /\ Len(u.entries) \in Nat
      BY <2>1
    <3>0. \A k \in DOMAIN u.entries : elt(k) \in Entry
      BY <2>1, <2>2
    <3>3. cut = [k \in DOMAIN u.entries |-> elt(k)]
      OBVIOUS
    <3> HIDE DEF elt, cut
    <3>2. cut \in [1..Len(u.entries) -> Entry] /\ Len(u.entries) \in Nat
      BY <3>0, <3>1, <3>3
    <3> QED
      BY <3>2
  <2> HIDE DEF cut
  <2>4. a \in Update
    BY DEF Update
  <2> HIDE DEF a
  <2>5. b \in Update
    BY <2>3, <2>4 DEF Update
  <2>6. Abandoned(u, w, deleted) = IF u.dog # w THEN u ELSE b
    BY DEF Abandoned, a, cut
  <2> QED
    BY <2>5, <2>6
<1>3. Len(updates) \in Nat /\ DOMAIN updates = 1..Len(updates)
  BY <1>1
<1>4. \A k \in 1..Len(updates) : Abandoned(updates[k], w, deleted) \in Update
  BY <1>1, <1>2
<1>5. [k \in DOMAIN updates |-> Abandoned(updates[k], w, deleted)]
        \in [1..Len(updates) -> Update]
  BY <1>3, <1>4
<1> QED
  BY <1>3, <1>5

\* The tasks of a reading are tasks, and the one taken first is one of them.
LEMMA DueTasksTyped ==
  ASSUME NEW md \in Seq(Record), NEW t, NEW force
  PROVE  DueTasks(md, t, force) \in SUBSET Task
<1>1. \A i \in DOMAIN md : i \in Nat \ {0} /\ md[i] \in Record
  OBVIOUS
<1>2. \A r \in Record : r.suffix \in Nat
  BY DEF Record
<1> DEFINE task(i) == [line |-> i, suffix |-> md[i].suffix,
                       try |-> md[i].end + ClockSkew >= t]
<1>3. \A i \in DOMAIN md : task(i) \in Task
  BY <1>1, <1>2 DEF Task
<1>4. DueTasks(md, t, force) = {task(i) : i \in {k \in DOMAIN md : Due(md[k], t, force)}}
  BY DEF DueTasks
<1> HIDE DEF task
<1> QED
  BY <1>3, <1>4

\* The first task is the task of the least line.
LEMMA FirstTaskFirst ==
  ASSUME NEW tasks \in SUBSET Task, tasks # {}
  PROVE  /\ FirstTask(tasks) \in tasks
         /\ \A u \in tasks : FirstTask(tasks).line <= u.line
<1> DEFINE S == {t.line : t \in tasks}
<1>1. S \in SUBSET Nat /\ S # {}
  BY DEF Task
<1>2. PICK m \in S : \A y \in S : m <= y
  <2> HIDE DEF S
  <2> QED
    BY <1>1, MinOfNaturals
<1>3. PICK t \in tasks : t.line = m
  BY <1>2
<1>4. \A u \in tasks : t.line <= u.line
  BY <1>2, <1>3
<1> QED
  BY <1>4 DEF FirstTask

\* What update_db makes of the repository files and the proxy files.
LEMMA RecordsAfterTyped ==
  ASSUME TypeOK, NEW u \in Update
  PROVE  /\ RecordsAfter(u) \in Seq(BoundedRecord)
         /\ DOMAIN RecordsAfter(u) = DOMAIN meta[u.subject]
         /\ \A i \in DOMAIN meta[u.subject] :
              \/ RecordsAfter(u)[i] = meta[u.subject][i]
              \/ \E e \in Entry :
                   RecordsAfter(u)[i] =
                     UpdatedRecord(meta[u.subject][i], e,
                       file[u.subject][meta[u.subject][i].suffix], now)
<1> DEFINE d == u.subject
           md == meta[d]
           rec(i) == IF Applies(md, u.entries, i)
                       THEN UpdatedRecord(md[i], u.entries[Cursor(md, u.entries)[i]],
                                          file[d][md[i].suffix], now)
                       ELSE md[i]
<1>1. d \in Subjects /\ u.entries \in Seq(Entry)
  BY DEF Update
<1>2. RecordsAfter(u) = [i \in DOMAIN md |-> rec(i)]
  BY DEF RecordsAfter
<1>3. ASSUME NEW i \in DOMAIN md
      PROVE  /\ \/ rec(i) = md[i]
                \/ \E e \in Entry :
                     rec(i) = UpdatedRecord(md[i], e, file[d][md[i].suffix], now)
             /\ rec(i) \in BoundedRecord
  <2>1. md[i] \in BoundedRecord /\ md[i] \in Record /\ md[i].suffix \in Suffixes
    BY <1>1, RecordsTyped
  <2>2. file[d][md[i].suffix] \in Proxy \union {None} /\ now \in Nat
    BY <1>1, <2>1 DEF TypeOK
  <2>3. CASE Applies(md, u.entries, i)
    <3> DEFINE e == u.entries[Cursor(md, u.entries)[i]]
    <3>1. Cursor(md, u.entries)[i] \in DOMAIN u.entries
      BY <2>3 DEF Applies
    <3>2. e \in Entry
      BY <1>1, <3>1
    <3>3. rec(i) = UpdatedRecord(md[i], e, file[d][md[i].suffix], now)
      BY <2>3
    <3> HIDE DEF e
    <3>4. /\ UpdatedRecord(md[i], e, file[d][md[i].suffix], now) \in Record
          /\ UpdatedRecord(md[i], e, file[d][md[i].suffix], now).suffix = md[i].suffix
      BY <2>1, <2>2, <3>2, UpdatedRecordKeeps
    <3> HIDE DEF rec
    <3> QED
      BY <2>1, <3>2, <3>3, <3>4 DEF BoundedRecord
  <2>4. CASE ~Applies(md, u.entries, i)
    BY <2>1, <2>4
  <2> QED
    BY <2>3, <2>4
<1>4. DOMAIN md = 1..Len(md) /\ Len(md) \in Nat
  BY <1>1, RecordsTyped
<1> HIDE DEF rec
<1>5. RecordsAfter(u) \in [1..Len(md) -> BoundedRecord]
  BY <1>2, <1>3, <1>4
<1> QED
  BY <1>2, <1>3, <1>4, <1>5

\* update_db leaves typed proxy files.
LEMMA FilesAfterTyped ==
  ASSUME TypeOK, NEW u \in Update, NEW lost, NEW n \in Nat
  PROVE  FilesAfter(u, lost, n) \in [Suffixes -> Proxy \union {None}]
<1> DEFINE d == u.subject
           md == meta[d]
           at(s) == {i \in 1..n : md[i].suffix = s /\ Applies(md, u.entries, i)}
<1>1. d \in Subjects /\ u.entries \in Seq(Entry)
  BY DEF Update
<1>2. ASSUME NEW s \in Suffixes
      PROVE  FilesAfter(u, lost, n)[s] \in Proxy \union {None}
  <2>1. file[d][s] \in Proxy \union {None}
    BY <1>1 DEF TypeOK
  <2>2. CASE at(s) = {}
    BY <2>1, <2>2 DEF FilesAfter
  <2>3. CASE at(s) # {}
    <3> DEFINE i == Min(at(s))
               k == Cursor(md, u.entries)[i]
    <3>1. at(s) \in SUBSET Nat
      OBVIOUS
    <3>2. i \in at(s)
      <4> HIDE DEF at
      <4> QED
        BY <2>3, <3>1, MinOfNaturals
    <3>3. FilesAfter(u, lost, n)[s] =
            IF k \in lost THEN file[d][s]
            ELSE UpdatedFile(md[i], u.entries[k], file[d][s], now)
      BY <2>3 DEF FilesAfter
    <3> HIDE DEF i
    <3>4. u.entries[k] \in Entry
      BY <1>1, <3>2 DEF Applies
    <3>5. UpdatedFile(md[i], u.entries[k], file[d][s], now) \in Proxy \union {None}
      BY <2>1, <3>4 DEF UpdatedFile, Entry
    <3> QED
      BY <2>1, <3>3, <3>5
  <2> QED
    BY <2>2, <2>3
<1>3. FilesAfter(u, lost, n) = [s \in Suffixes |-> FilesAfter(u, lost, n)[s]]
  BY DEF FilesAfter
<1> QED
  BY <1>2, <1>3

\* A request that has lost temporary files is the same request otherwise.
SameRequest(u, v) ==
  /\ v.subject = u.subject
  /\ v.dog = u.dog
  /\ DOMAIN v.entries = DOMAIN u.entries
  /\ \A k \in DOMAIN u.entries : /\ v.entries[k].suffix = u.entries[k].suffix
                                 /\ v.entries[k].renewed = u.entries[k].renewed
                                 /\ v.entries[k].tmp \in {None, u.entries[k].tmp}

LEMMA DeletedTyped ==
  ASSUME NEW u \in Update, NEW K
  PROVE  Deleted(u, K) \in Update /\ SameRequest(u, Deleted(u, K))
<1> DEFINE elt(k) == IF k \in K THEN [u.entries[k] EXCEPT !.tmp = None]
                     ELSE u.entries[k]
           cut == [k \in DOMAIN u.entries |-> elt(k)]
<1>1. /\ u.entries \in Seq(Entry) /\ DOMAIN u.entries = 1..Len(u.entries)
      /\ Len(u.entries) \in Nat /\ \A k \in DOMAIN u.entries : u.entries[k] \in Entry
  BY DEF Update
<1>2. \A e \in Entry : LET f == [e EXCEPT !.tmp = None]
                       IN  /\ f \in Entry /\ f.suffix = e.suffix
                           /\ f.renewed = e.renewed /\ f.tmp = None
  BY DEF Entry
<1>3. \A k \in DOMAIN u.entries : /\ elt(k) \in Entry
                                  /\ elt(k).suffix = u.entries[k].suffix
                                  /\ elt(k).renewed = u.entries[k].renewed
                                  /\ elt(k).tmp \in {None, u.entries[k].tmp}
  BY <1>1, <1>2
<1>4. Deleted(u, K) = [u EXCEPT !.entries = cut]
  BY DEF Deleted
<1> HIDE DEF elt
<1>5. cut \in Seq(Entry) /\ DOMAIN cut = DOMAIN u.entries
      /\ \A k \in DOMAIN u.entries : cut[k] = elt(k)
  <2>1. cut \in [1..Len(u.entries) -> Entry]
    BY <1>1, <1>3
  <2> QED
    BY <1>1, <2>1
<1> HIDE DEF cut
<1>6. /\ Deleted(u, K) \in Update /\ Deleted(u, K).entries = cut
      /\ Deleted(u, K).subject = u.subject /\ Deleted(u, K).dog = u.dog
  BY <1>4, <1>5 DEF Update
<1> QED
  BY <1>3, <1>5, <1>6 DEF SameRequest

\* What update_db works on: the request as it was sent or, when the watchdog
\* gives up meanwhile, one that is short of temporary files.
LEMMA Requests ==
  ASSUME TypeOK, UpdateDb \/ UpdateDbOvertaken
  PROVE  \E u \in Update, lost \in SUBSET Nat :
           /\ UpdateRepository(u, lost)
           /\ SameRequest(Head(updates), u)
           /\ ~Overtaken => u = Head(updates) /\ lost = {}
<1> DEFINE h == Head(updates)
<1>1. updates \in Seq(Update) /\ updates # <<>>
  BY DEF TypeOK, UpdateDb, UpdateDbOvertaken
<1>2. h \in Update
  BY <1>1, HeadTailProperties
<1>3. CASE UpdateDb
  <2>1. UpdateRepository(h, {}) /\ SameRequest(h, h)
    BY <1>3 DEF UpdateDb, SameRequest
  <2> HIDE DEF h
  <2> QED
    BY <1>2, <2>1 DEF h
<1>4. CASE ~UpdateDb
  <2>1. UpdateDbOvertaken /\ Overtaken
    BY <1>4 DEF Overtaken
  <2>2. PICK gone \in SUBSET Deletable(h) :
          \E lost \in SUBSET Deletable(Deleted(h, gone)) :
            UpdateRepository(Deleted(h, gone), lost)
    BY <2>1 DEF UpdateDbOvertaken
  <2>3. PICK lost \in SUBSET Deletable(Deleted(h, gone)) :
          UpdateRepository(Deleted(h, gone), lost)
    BY <2>2
  <2> HIDE DEF h
  <2>4. Deleted(h, gone) \in Update /\ SameRequest(h, Deleted(h, gone))
    BY <1>2, DeletedTyped
  <2>5. lost \in SUBSET Nat
    BY <2>4 DEF Deletable, Update
  <2> QED
    BY <2>1, <2>3, <2>4, <2>5 DEF h
<1> QED
  BY <1>3, <1>4

-------------------------------------------------------------------------------
(* Typing of the steps.                                                    *)

\* The initial state is typed.
LEMMA TypeInit == Init => TypeOK
<1> SUFFICES ASSUME Init PROVE TypeOK
  OBVIOUS
<1>1. <<>> \in Seq(BoundedRecord) /\ <<>> \in Seq(Update)
  OBVIOUS
<1>2. /\ dog \in [Watchdogs -> Watchdog]
      /\ \A w \in Watchdogs : dog[w].phase # "renew"
  BY IdleTyped DEF Init, Phases
<1> QED
  BY <1>1, <1>2, DaemonAssumption DEF Init, TypeOK

\* The handlers of the clients' requests change repository files, proxy files
\* and registrations within their types.
LEMMA TypeRegisterNew ==
  ASSUME TypeOK, NEW j \in Jobs, NEW d \in Subjects, NEW server \in Servers,
         NEW p \in Proxy, NEW voms \in BOOLEAN, RegisterNew(j, d, server, p, voms)
  PROVE  TypeOK'
<1> DEFINE md == meta[d]
           C == Candidates(md, server, voms, now)
           s == NewSuffix(md, C)
           r0 == [suffix |-> s, jobs |-> <<j>>, voms |-> voms, server |-> server,
                  next |-> 0, end |-> 0]
           r == Retimed(r0, p, now)
<1>1. s \in Nat /\ s \in Suffixes
  BY NewSuffixTyped DEF RegisterNew
<1>2. now \in Nat
  BY DEF TypeOK
<1>3. file' = [file EXCEPT ![d][s] = p]
  BY DEF RegisterNew
<1>4. \/ /\ meta' = [meta EXCEPT ![d] = StoreRecord(md, r)]
         /\ registered' = [registered EXCEPT ![j] =
              [subject |-> d, suffix |-> s, server |-> server, voms |-> voms]]
      \/ UNCHANGED <<meta, registered>>
  BY DEF RegisterNew
<1>5. UNCHANGED <<now, updates, dog, child, up, outside>>
  BY DEF RegisterNew
<1> HIDE DEF s
<1>6. r0 \in Record /\ r0.suffix = s
  BY <1>1 DEF Record
<1> HIDE DEF r0
<1>7. r \in Record /\ r.suffix \in Suffixes
  BY <1>1, <1>2, <1>6, RetimedKeeps
<1> HIDE DEF r
<1>8. meta' \in [Subjects -> Seq(BoundedRecord)]
  <2>1. [meta EXCEPT ![d] = StoreRecord(md, r)] \in [Subjects -> Seq(BoundedRecord)]
    BY <1>7, StoreTyped
  <2>2. meta \in [Subjects -> Seq(BoundedRecord)]
    BY DEF TypeOK
  <2> QED
    BY <1>4, <2>1, <2>2
<1>9. file' \in [Subjects -> [Suffixes -> Proxy \union {None}]]
  BY <1>1, <1>3 DEF TypeOK
<1>10. registered' \in [Jobs -> Registration \union {None}]
  <2>1. registered \in [Jobs -> Registration \union {None}]
    BY DEF TypeOK
  <2>2. [subject |-> d, suffix |-> s, server |-> server, voms |-> voms]
          \in Registration
    BY <1>1 DEF Registration
  <2> QED
    BY <1>4, <2>1, <2>2
<1> QED
  BY <1>5, <1>8, <1>9, <1>10 DEF TypeOK

\* Sharing a proxy keeps the types.
LEMMA TypeRegisterShared ==
  ASSUME TypeOK, NEW j \in Jobs, NEW d \in Subjects, NEW server \in Servers,
         NEW voms \in BOOLEAN, RegisterShared(j, d, server, voms)
  PROVE  TypeOK'
<1> DEFINE md == meta[d]
           r == md[Min(Candidates(md, server, voms, now))]
           q == [r EXCEPT !.jobs = Append(r.jobs, j)]
<1>1. Candidates(md, server, voms, now) # {}
  BY DEF RegisterShared, NeedsFile
<1>2. r \in Record /\ r.suffix \in Suffixes
  BY <1>1, NewSuffixTyped, RecordsTyped
<1>3. /\ meta' = [meta EXCEPT ![d] = StoreRecord(md, q)]
      /\ registered' = [registered EXCEPT ![j] =
           [subject |-> d, suffix |-> r.suffix, server |-> server, voms |-> r.voms]]
      /\ UNCHANGED <<now, file, updates, dog, child, up, outside>>
  BY DEF RegisterShared
<1> HIDE DEF r
<1>4. q \in Record /\ q.suffix = r.suffix
  BY <1>2 DEF Record
<1> HIDE DEF q
<1>5. meta' \in [Subjects -> Seq(BoundedRecord)]
  BY <1>2, <1>3, <1>4, StoreTyped
<1>6. registered' \in [Jobs -> Registration \union {None}]
  BY <1>2, <1>3 DEF TypeOK, Registration, Record
<1> QED
  BY <1>3, <1>5, <1>6 DEF TypeOK

\* So does taking a job off its record.
LEMMA TypeRemoveJob ==
  ASSUME TypeOK, NEW j \in Jobs, NEW d \in Subjects, NEW i \in DOMAIN meta[d],
         Lists(meta[d][i], j), NEW foreign, RemoveJob(j, d, i, foreign)
  PROVE  TypeOK'
<1> DEFINE r == WithoutJob(meta[d][i], j)
<1>1. r \in Record /\ r.suffix \in Suffixes
  BY RecordsTyped, WithoutJobKeeps, ZenonT(30)
<1>2. /\ meta' = [meta EXCEPT ![d] = StoreRecord(meta[d], r)]
      /\ registered' = [registered EXCEPT ![j] = None]
      /\ file' = [file EXCEPT ![d][r.suffix] = None] \/ UNCHANGED file
      /\ outside' = [outside EXCEPT ![d] = FALSE] \/ UNCHANGED outside
      /\ UNCHANGED <<now, updates, dog, child, up>>
  BY DEF RemoveJob
<1> HIDE DEF r
<1>3. meta' \in [Subjects -> Seq(BoundedRecord)]
  BY <1>1, <1>2, StoreTyped
<1>4. file' \in [Subjects -> [Suffixes -> Proxy \union {None}]]
  <2>1. file \in [Subjects -> [Suffixes -> Proxy \union {None}]]
    BY DEF TypeOK
  <2>2. [file EXCEPT ![d][r.suffix] = None]
          \in [Subjects -> [Suffixes -> Proxy \union {None}]]
    BY <1>1, <2>1
  <2> QED
    BY <1>2, <2>1, <2>2
<1>5. outside' \in [Subjects -> BOOLEAN]
  BY <1>2 DEF TypeOK
<1>6. registered' \in [Jobs -> Registration \union {None}]
  BY <1>2 DEF TypeOK
<1> QED
  BY <1>2, <1>3, <1>4, <1>5, <1>6 DEF TypeOK

\* The history of registrations stays typed.
LEMMA TypeForget ==
  ASSUME TypeOK, NEW d, NEW md
  PROVE  Forget(d, md) \in [Jobs -> Registration \union {None}]
<1>1. \A j \in Jobs : registered[j] \in Registration \union {None}
  BY DEF TypeOK
<1> QED
  BY <1>1 DEF Forget

\* update_db keeps the types.
LEMMA TypeUpdateDb == TypeOK /\ (UpdateDb \/ UpdateDbOvertaken) => TypeOK'
<1> SUFFICES ASSUME TypeOK, UpdateDb \/ UpdateDbOvertaken PROVE TypeOK'
  OBVIOUS
<1>1. updates \in Seq(Update) /\ updates # <<>>
  BY DEF TypeOK, UpdateDb, UpdateDbOvertaken
<1>2. Tail(updates) \in Seq(Update)
  BY <1>1, HeadTailProperties
<1>0. PICK u \in Update, lost \in SUBSET Nat : UpdateRepository(u, lost)
  BY Requests
<1>3. /\ meta' = [meta EXCEPT ![u.subject] = RecordsAfter(u)]
      /\ file' = [file EXCEPT ![u.subject] = FilesAfter(u, lost, Len(meta[u.subject]))]
      /\ registered' = Forget(u.subject, RecordsAfter(u))
      /\ dog' = IF u.dog = None THEN dog ELSE [dog EXCEPT ![u.dog] = Resume(u.dog)]
      /\ updates' = Tail(updates)
      /\ UNCHANGED <<now, child, up, outside>>
  BY <1>0 DEF UpdateRepository
<1>4. u.subject \in Subjects /\ u.dog \in Watchdogs \union {None}
  BY DEF Update
<1>5. meta' \in [Subjects -> Seq(BoundedRecord)]
  <2>1. RecordsAfter(u) \in Seq(BoundedRecord)
    BY RecordsAfterTyped
  <2> QED
    BY <1>3, <1>4, <2>1 DEF TypeOK
<1>6. file' \in [Subjects -> [Suffixes -> Proxy \union {None}]]
  <2>1. Len(meta[u.subject]) \in Nat
    BY <1>4, RecordsTyped
  <2>2. FilesAfter(u, lost, Len(meta[u.subject])) \in [Suffixes -> Proxy \union {None}]
    BY <2>1, FilesAfterTyped
  <2> QED
    BY <1>3, <1>4, <2>2 DEF TypeOK
<1>7. /\ dog' \in [Watchdogs -> Watchdog]
      /\ \A w \in Watchdogs : dog'[w].phase = "renew" => dog'[w].subject # None
  <2>1. CASE u.dog = None
    BY <1>3, <2>1 DEF TypeOK
  <2>2. CASE u.dog # None
    <3>1. Resume(u.dog) \in Watchdog /\ Resume(u.dog).phase = "scan"
      BY <1>4, <2>2, ResumeTyped
    <3> QED
      BY <1>3, <1>4, <2>2, <3>1 DEF TypeOK
  <2> QED
    BY <2>1, <2>2
<1>8. registered' \in [Jobs -> Registration \union {None}]
  BY <1>3, TypeForget
<1> QED
  BY <1>2, <1>3, <1>5, <1>6, <1>7, <1>8 DEF TypeOK

\* A watchdog only changes itself and, when it sends or gives up, the queue.
LEMMA TypeWatchdog ==
  ASSUME TypeOK, NEW w \in Watchdogs,
         WatchdogStep(w) \/ Timeout(w) \/ WatchdogExits(w) \/ WatchdogDies(w)
  PROVE  TypeOK'
<1>1. ASSUME dog' \in [Watchdogs -> Watchdog], updates' \in Seq(Update),
             \A v \in Watchdogs \ {w} : dog'[v] = dog[v],
             dog'[w].phase = "renew" => dog'[w].subject # None,
             UNCHANGED <<now, meta, file, child, up, outside, registered>>
      PROVE  TypeOK'
  <2>1. \A v \in Watchdogs : dog'[v].phase = "renew" => dog'[v].subject # None
    BY <1>1 DEF TypeOK
  <2> QED
    BY <1>1, <2>1 DEF TypeOK
<1>2. /\ dog \in [Watchdogs -> Watchdog] /\ dog[w] \in Watchdog
      /\ updates \in Seq(Update) /\ now \in Nat
      /\ dog[w].phase = "renew" => dog[w].subject # None
  BY DEF TypeOK
<1>3. CASE WakeUp(w)
  <2> DEFINE a == [dog EXCEPT ![w].phase = "scan"]
             x == [a EXCEPT ![w].left = Subjects]
  <2>1. a \in [Watchdogs -> Watchdog] /\ a[w].phase = "scan"
    BY <1>2 DEF Watchdog, Phases
  <2>2. \A v \in Watchdogs \ {w} : a[v] = dog[v]
    BY <1>2
  <2>3. dog' = x
    BY <1>3 DEF WakeUp
  <2> HIDE DEF a
  <2>4. x \in [Watchdogs -> Watchdog] /\ x[w].phase = "scan"
    BY <2>1 DEF Watchdog
  <2>5. \A v \in Watchdogs \ {w} : x[v] = dog[v]
    BY <2>1, <2>2
  <2>6. UNCHANGED <<now, disk, updates, child, up, outside, registered>>
    BY <1>3 DEF WakeUp
  <2> HIDE DEF x
  <2> QED
    BY <1>1, <1>2, <2>3, <2>4, <2>5, <2>6 DEF disk
<1>4. CASE CheckRenewal(w)
  <2>1. PICK d \in dog[w].left, force \in BOOLEAN :
          LET due == DueTasks(meta[d], now, force)
          IN  dog' = [dog EXCEPT ![w].left = @ \ {d},
                                 ![w].phase = IF due = {} THEN "scan" ELSE "renew",
                                 ![w].subject = IF due = {} THEN None ELSE d,
                                 ![w].due = due]
    BY <1>4 DEF CheckRenewal
  <2>2. d \in Subjects /\ d # None
    BY <1>2, DaemonAssumption DEF Watchdog
  <2> DEFINE due == DueTasks(meta[d], now, force)
  <2>3. due \in SUBSET Task
    BY <2>2, RecordsTyped, DueTasksTyped
  <2> DEFINE a == [dog EXCEPT ![w].left = @ \ {d}]
             b == [a EXCEPT ![w].phase = IF due = {} THEN "scan" ELSE "renew"]
             c == [b EXCEPT ![w].subject = IF due = {} THEN None ELSE d]
             x == [c EXCEPT ![w].due = due]
  <2>4. dog' = x
    BY <2>1
  <2> HIDE DEF due
  <2>5. a \in [Watchdogs -> Watchdog] /\ \A v \in Watchdogs \ {w} : a[v] = dog[v]
    BY <1>2 DEF Watchdog
  <2> HIDE DEF a
  <2>6. /\ b \in [Watchdogs -> Watchdog]
        /\ \A v \in Watchdogs \ {w} : b[v] = dog[v]
        /\ b[w].phase = "renew" => due # {}
    BY <2>5, ZenonT(30) DEF Watchdog, Phases
  <2> HIDE DEF b
  <2>7. /\ c \in [Watchdogs -> Watchdog]
        /\ \A v \in Watchdogs \ {w} : c[v] = dog[v]
        /\ c[w].phase = "renew" => c[w].subject # None
    BY <2>2, <2>6 DEF Watchdog
  <2> HIDE DEF c
  <2>8. /\ x \in [Watchdogs -> Watchdog]
        /\ \A v \in Watchdogs \ {w} : x[v] = dog[v]
        /\ x[w].phase = "renew" => x[w].subject # None
    BY <2>3, <2>7 DEF Watchdog
  <2>9. UNCHANGED <<now, disk, updates, child, up, outside, registered>>
    BY <1>4 DEF CheckRenewal
  <2> HIDE DEF x
  <2> QED
    BY <1>1, <1>2, <2>4, <2>8, <2>9 DEF disk
<1>5. CASE FinishScan(w)
  <2>1. dog' = [dog EXCEPT ![w].phase = "sleep"]
    BY <1>5 DEF FinishScan
  <2>2. /\ dog' \in [Watchdogs -> Watchdog] /\ dog'[w].phase = "sleep"
        /\ \A v \in Watchdogs \ {w} : dog'[v] = dog[v]
    BY <1>2, <2>1 DEF Watchdog, Phases
  <2>3. UNCHANGED <<now, disk, updates, child, up, outside, registered>>
    BY <1>5 DEF FinishScan
  <2> QED
    BY <1>1, <1>2, <2>2, <2>3 DEF disk
<1>6. CASE RenewProxy(w)
  <2> DEFINE t == FirstTask(dog[w].due)
  <2>1. t \in Task
    BY <1>2, <1>6, FirstTaskFirst DEF RenewProxy, Watchdog
  <2>2. PICK q \in Proxy \union {None} :
          dog' = [dog EXCEPT ![w].due = @ \ {t},
                             ![w].entries = Append(@, [suffix  |-> t.suffix,
                                                       renewed |-> q # None,
                                                       tmp     |-> q])]
    <3>1. Issued(RenewedLives) \subseteq Proxy
      BY <1>2, IssuedTyped, DaemonAssumption
    <3>2. \A p : Renewals(p) \subseteq Proxy
      BY <3>1 DEF Renewals
    <3> QED
      BY <1>6, <3>2 DEF RenewProxy
  <2> DEFINE e == [suffix |-> t.suffix, renewed |-> q # None, tmp |-> q]
             a == [dog EXCEPT ![w].due = @ \ {t}]
             x == [a EXCEPT ![w].entries = Append(@, e)]
  <2>3. dog' = x
    BY <2>2
  <2> HIDE DEF t
  <2>4. e \in Entry
    BY <2>1, <2>2 DEF Entry, Task
  <2> HIDE DEF e
  <2>5. /\ a \in [Watchdogs -> Watchdog]
        /\ \A v \in Watchdogs \ {w} : a[v] = dog[v]
        /\ a[w].subject = dog[w].subject /\ a[w].phase = dog[w].phase
    BY <1>2 DEF Watchdog
  <2> HIDE DEF a
  <2>6. Append(a[w].entries, e) \in Seq(Entry)
    <3>1. a[w].entries \in Seq(Entry)
      BY <2>5 DEF Watchdog
    <3> QED
      BY <2>4, <3>1
  <2>7. /\ x \in [Watchdogs -> Watchdog]
        /\ \A v \in Watchdogs \ {w} : x[v] = dog[v]
        /\ x[w].subject = dog[w].subject /\ x[w].phase = dog[w].phase
    BY <2>5, <2>6 DEF Watchdog
  <2>8. UNCHANGED <<now, disk, updates, child, up, outside, registered>>
    BY <1>6 DEF RenewProxy
  <2> HIDE DEF x
  <2> QED
    BY <1>1, <1>2, <2>3, <2>7, <2>8 DEF disk
<1>7. CASE SendUpdate(w)
  <2>1. UNCHANGED <<now, disk, child, up, outside, registered>>
    BY <1>7 DEF SendUpdate
  <2>2. CASE up /\ Len(updates) < Backlog
    <3> DEFINE m == [subject |-> dog[w].subject, entries |-> dog[w].entries, dog |-> w]
               a == [dog EXCEPT ![w].phase = "wait"]
               b == [a EXCEPT ![w].subject = None]
               x == [b EXCEPT ![w].entries = <<>>]
    <3>1. updates' = Append(updates, m) /\ dog' = x
      BY <1>7, <2>2 DEF SendUpdate
    <3>2. m \in Update
      BY <1>2, <1>7 DEF SendUpdate, Watchdog, Update
    <3> HIDE DEF m
    <3>3. updates' \in Seq(Update)
      BY <1>2, <3>1, <3>2
    <3>4. /\ a \in [Watchdogs -> Watchdog] /\ a[w].phase = "wait"
          /\ \A v \in Watchdogs \ {w} : a[v] = dog[v]
      BY <1>2 DEF Watchdog, Phases
    <3> HIDE DEF a
    <3>5. /\ b \in [Watchdogs -> Watchdog] /\ b[w].phase = "wait"
          /\ \A v \in Watchdogs \ {w} : b[v] = dog[v]
      BY <3>4 DEF Watchdog
    <3> HIDE DEF b
    <3>6. /\ x \in [Watchdogs -> Watchdog] /\ x[w].phase = "wait"
          /\ \A v \in Watchdogs \ {w} : x[v] = dog[v]
      <4>1. <<>> \in Seq(Entry)
        OBVIOUS
      <4> QED
        BY <3>5, <4>1 DEF Watchdog
    <3> HIDE DEF x
    <3> QED
      BY <1>1, <2>1, <3>1, <3>3, <3>6 DEF disk
  <2>3. CASE ~(up /\ Len(updates) < Backlog)
    <3>1. dog' = [dog EXCEPT ![w] = Resume(w)] /\ UNCHANGED updates
      BY <1>7, <2>3 DEF SendUpdate
    <3>2. /\ dog' \in [Watchdogs -> Watchdog] /\ dog'[w].phase = "scan"
          /\ \A v \in Watchdogs \ {w} : dog'[v] = dog[v]
      BY <1>2, <3>1, ResumeTyped
    <3> QED
      BY <1>1, <1>2, <2>1, <3>1, <3>2 DEF disk
  <2> QED
    BY <2>2, <2>3
<1>8. CASE Timeout(w)
  <2>1. /\ dog' = [dog EXCEPT ![w] = Resume(w)]
        /\ updates' = [k \in DOMAIN updates |-> Abandoned(updates[k], w, TRUE)]
        /\ UNCHANGED <<now, disk, child, up, outside, registered>>
    BY <1>8 DEF Timeout, AbandonUpdates
  <2>2. updates' \in Seq(Update)
    BY <2>1, AbandonTyped
  <2>3. /\ dog' \in [Watchdogs -> Watchdog] /\ dog'[w].phase = "scan"
        /\ \A v \in Watchdogs \ {w} : dog'[v] = dog[v]
    BY <1>2, <2>1, ResumeTyped
  <2> QED
    BY <1>1, <2>1, <2>2, <2>3 DEF disk
<1>9. CASE WatchdogDies(w)
  <2>1. /\ dog' = [dog EXCEPT ![w] = Idle("dead")]
        /\ updates' = [k \in DOMAIN updates |-> Abandoned(updates[k], w, FALSE)]
        /\ UNCHANGED <<now, disk, child, up, outside, registered>>
    BY <1>9 DEF WatchdogDies, AbandonUpdates
  <2>2. updates' \in Seq(Update)
    BY <2>1, AbandonTyped
  <2>3. Idle("dead") \in Watchdog /\ Idle("dead").phase = "dead"
    BY IdleTyped DEF Phases, Idle
  <2>4. /\ dog' \in [Watchdogs -> Watchdog] /\ dog'[w].phase = "dead"
        /\ \A v \in Watchdogs \ {w} : dog'[v] = dog[v]
    BY <1>2, <2>1, <2>3
  <2> QED
    BY <1>1, <2>1, <2>2, <2>4 DEF disk
<1>10. CASE WatchdogExits(w)
  <2>1. /\ dog' = [dog EXCEPT ![w] = Idle("dead")]
        /\ UNCHANGED <<now, disk, updates, child, up, outside, registered>>
    BY <1>10 DEF WatchdogExits
  <2>2. Idle("dead") \in Watchdog /\ Idle("dead").phase = "dead"
    BY IdleTyped DEF Phases, Idle
  <2>3. /\ dog' \in [Watchdogs -> Watchdog] /\ dog'[w].phase = "dead"
        /\ \A v \in Watchdogs \ {w} : dog'[v] = dog[v]
    BY <1>2, <2>1, <2>2
  <2> QED
    BY <1>1, <1>2, <2>1, <2>3 DEF disk
<1> QED
  BY <1>3, <1>4, <1>5, <1>6, <1>7, <1>8, <1>9, <1>10 DEF WatchdogStep

\* The deaths of the master keep the types; a handler that is cut off leaves
\* part of its writes on disk.
LEMMA TypeMasterDies ==
  ASSUME TypeOK, MasterDies,
         meta' \in [Subjects -> Seq(BoundedRecord)],
         file' \in [Subjects -> [Suffixes -> Proxy \union {None}]],
         registered' \in [Jobs -> Registration \union {None}]
  PROVE  TypeOK'
<1>1. dog' = [w \in Watchdogs |-> IF dog[w].phase = "wait" THEN Resume(w) ELSE dog[w]]
  BY DEF MasterDies
<1>2. /\ dog' \in [Watchdogs -> Watchdog]
      /\ \A w \in Watchdogs : dog'[w].phase = "renew" => dog'[w].subject # None
  <2>1. \A w \in Watchdogs : Resume(w) \in Watchdog /\ Resume(w).phase = "scan"
    BY ResumeTyped
  <2> QED
    BY <1>1, <2>1 DEF TypeOK
<1>3. <<>> \in Seq(Update)
  OBVIOUS
<1>4. up' = FALSE /\ updates' = <<>> /\ UNCHANGED <<now, child, outside>>
  BY DEF MasterDies
<1> QED
  BY <1>2, <1>3, <1>4 DEF TypeOK

\* So does the death of the master.
LEMMA TypeCrash ==
  ASSUME TypeOK, \/ Crash \/ CrashInUpdateDb
                 \/ \E j \in Jobs : CrashInRegister(j) \/ CrashInUnregister(j)
  PROVE  TypeOK'
<1>1. /\ meta \in [Subjects -> Seq(BoundedRecord)]
      /\ file \in [Subjects -> [Suffixes -> Proxy \union {None}]]
      /\ registered \in [Jobs -> Registration \union {None}]
      /\ now \in Nat /\ updates \in Seq(Update)
  BY DEF TypeOK
<1>2. CASE Crash
  BY <1>1, <1>2, TypeMasterDies DEF Crash, disk
<1>3. CASE CrashInUpdateDb
  <2> DEFINE u == Head(updates)
  <2>1. u \in Update
    BY <1>1, <1>3, HeadTailProperties DEF CrashInUpdateDb
  <2>2. /\ MasterDies /\ UNCHANGED <<meta, registered>>
        /\ \E n \in DOMAIN meta[u.subject], lost \in SUBSET Deletable(u) :
             file' = [file EXCEPT ![u.subject] = FilesAfter(u, lost, n)]
    BY <1>3 DEF CrashInUpdateDb
  <2> HIDE DEF u
  <2>3. PICK n \in DOMAIN meta[u.subject], lost \in SUBSET Deletable(u) :
          file' = [file EXCEPT ![u.subject] = FilesAfter(u, lost, n)]
    BY <2>2
  <2>4. u.subject \in Subjects
    BY <2>1 DEF Update
  <2>5. n \in Nat
    BY <2>4, RecordsTyped
  <2>6. FilesAfter(u, lost, n) \in [Suffixes -> Proxy \union {None}]
    BY <2>1, <2>5, FilesAfterTyped
  <2>7. file' \in [Subjects -> [Suffixes -> Proxy \union {None}]]
    BY <1>1, <2>3, <2>4, <2>6
  <2> QED
    BY <1>1, <2>2, <2>7, TypeMasterDies
<1>4. ASSUME NEW j \in Jobs, CrashInRegister(j)
      PROVE  TypeOK'
  <2>1. PICK d \in Subjects, s \in Suffixes, p \in Proxy :
          file' = [file EXCEPT ![d][s] = p]
    <3>1. Issued(ClientLives) \subseteq Proxy
      BY <1>1, IssuedTyped, DaemonAssumption
    <3>2. PICK d \in Subjects, server \in Servers, p \in Issued(ClientLives) :
            \E voms \in VomsFound(p) :
              LET s == NewSuffix(meta[d], Candidates(meta[d], server, voms, now))
              IN  s <= MaxSuffix /\ file' = [file EXCEPT ![d][s] = p]
      BY <1>4 DEF CrashInRegister
    <3> QED
      BY <3>1, <3>2, NewSuffixTyped
  <2>2. file' \in [Subjects -> [Suffixes -> Proxy \union {None}]]
    BY <1>1, <2>1
  <2>3. MasterDies /\ UNCHANGED <<meta, registered>>
    BY <1>4 DEF CrashInRegister
  <2> QED
    BY <1>1, <2>2, <2>3, TypeMasterDies
<1>5. ASSUME NEW j \in Jobs, CrashInUnregister(j)
      PROVE  TypeOK'
  <2>1. PICK d \in Subjects : \E i \in DOMAIN meta[d] :
          /\ Lists(meta[d][i], j)
          /\ meta' = [meta EXCEPT ![d] =
                        StoreRecord(meta[d], WithoutJob(meta[d][i], j))]
    BY <1>5 DEF CrashInUnregister
  <2>2. PICK i \in DOMAIN meta[d] :
          /\ Lists(meta[d][i], j)
          /\ meta' = [meta EXCEPT ![d] =
                        StoreRecord(meta[d], WithoutJob(meta[d][i], j))]
    BY <2>1
  <2>3. /\ WithoutJob(meta[d][i], j) \in Record
        /\ WithoutJob(meta[d][i], j).suffix \in Suffixes
    <3>1. meta[d][i] \in Record /\ meta[d][i].suffix \in Suffixes
      BY RecordsTyped
    <3> QED
      BY <2>2, <3>1, WithoutJobKeeps
  <2>4. meta' \in [Subjects -> Seq(BoundedRecord)]
    BY <2>2, <2>3, StoreTyped
  <2>5. registered' = [registered EXCEPT ![j] = None] /\ UNCHANGED file /\ MasterDies
    BY <1>5 DEF CrashInUnregister
  <2>6. registered' \in [Jobs -> Registration \union {None}]
    BY <1>1, <2>5
  <2> QED
    BY <1>1, <2>4, <2>5, <2>6, TypeMasterDies
<1> QED
  BY <1>2, <1>3, <1>4, <1>5

\* So does its restart.
LEMMA TypeRestart ==
  ASSUME TypeOK, RestartWatchdog \/ MasterRestart
  PROVE  TypeOK'
<1>1. PICK w \in Watchdogs : /\ dog' = [dog EXCEPT ![w] = Idle("sleep")]
                             /\ child' \in Watchdogs /\ up' \in BOOLEAN
                             /\ UNCHANGED <<now, meta, file, updates, outside, registered>>
  BY DEF RestartWatchdog, MasterRestart, TypeOK, disk
<1>2. Idle("sleep") \in Watchdog /\ Idle("sleep").phase = "sleep"
  BY IdleTyped DEF Phases
<1>3. /\ dog' \in [Watchdogs -> Watchdog]
      /\ \A v \in Watchdogs : dog'[v].phase = "renew" => dog'[v].subject # None
  BY <1>1, <1>2 DEF TypeOK
<1> QED
  BY <1>1, <1>3 DEF TypeOK

\* So do the requests of the clients.
LEMMA TypeRequest ==
  ASSUME TypeOK, NEW j \in Jobs,
         Register(j) \/ Unregister(j) \/ UnregisterNamed(j) \/ UnregisterForeign(j)
  PROVE  TypeOK'
<1>1. CASE Register(j)
  <2>1. PICK d \in Subjects, server \in Servers, p \in Issued(ClientLives) :
          \E voms \in VomsFound(p) : \/ RegisterNew(j, d, server, p, voms)
                                     \/ RegisterShared(j, d, server, voms)
    BY <1>1 DEF Register
  <2>2. PICK voms \in BOOLEAN : \/ RegisterNew(j, d, server, p, voms)
                                \/ RegisterShared(j, d, server, voms)
    BY <2>1 DEF VomsFound
  <2>3. p \in Proxy
    BY IssuedTyped, DaemonAssumption DEF TypeOK
  <2> QED
    BY <2>2, <2>3, TypeRegisterNew, TypeRegisterShared
<1>2. CASE Unregister(j)
  <2>1. PICK d \in Subjects :
          /\ \E i \in DOMAIN meta[d] : Lists(meta[d][i], j)
          /\ RemoveJob(j, d, FirstListing(meta[d], j), FALSE)
    BY <1>2 DEF Unregister
  <2>2. FirstListing(meta[d], j) \in DOMAIN meta[d]
        /\ Lists(meta[d][FirstListing(meta[d], j)], j)
    BY <2>1, RecordsTyped, FirstListingLists
  <2> QED
    BY <2>1, <2>2, TypeRemoveJob
<1>3. CASE UnregisterNamed(j)
  BY <1>3, TypeRemoveJob DEF UnregisterNamed
<1>4. CASE UnregisterForeign(j)
  BY <1>4, TypeRemoveJob DEF UnregisterForeign
<1> QED
  BY <1>1, <1>2, <1>3, <1>4

\* Every variable keeps its type, whatever the clients, the watchdogs and the
\* kills do.
THEOREM TypeCorrect == Spec => []TypeOK
<1>1. Init => TypeOK
  BY TypeInit
<1>2. TypeOK /\ [Next]_vars => TypeOK'
  <2> SUFFICES ASSUME TypeOK, [Next]_vars PROVE TypeOK'
    OBVIOUS
  <2>1. CASE Tick
    <3>1. now' \in Nat
      BY <2>1 DEF Tick, TypeOK
    <3> QED
      BY <2>1, <3>1 DEF Tick, TypeOK, disk
  <2>2. CASE \E j \in Jobs : \/ Register(j) \/ Unregister(j)
                             \/ UnregisterNamed(j) \/ UnregisterForeign(j)
    BY <2>2, TypeRequest
  <2>3. CASE \/ Crash \/ CrashInUpdateDb
             \/ \E j \in Jobs : CrashInRegister(j) \/ CrashInUnregister(j)
    BY <2>3, TypeCrash
  <2>4. CASE UpdateDb \/ UpdateDbOvertaken
    BY <2>4, TypeUpdateDb
  <2>5. CASE \E w \in Watchdogs : \/ WatchdogStep(w) \/ Timeout(w)
                                  \/ WatchdogExits(w) \/ WatchdogDies(w)
    BY <2>5, TypeWatchdog
  <2>6. CASE RestartWatchdog \/ MasterRestart
    BY <2>6, TypeRestart
  <2>7. CASE UNCHANGED vars
    BY <2>7 DEF vars, disk, TypeOK
  <2> QED
    BY <2>1, <2>2, <2>3, <2>4, <2>5, <2>6, <2>7 DEF Next
<1> QED
  BY <1>1, <1>2, PTL DEF Spec

-------------------------------------------------------------------------------
(* The safety properties that hold in every state whatever the clients    *)
(* do, whenever processes are killed and however many watchdogs run: the   *)
(* files stay in order, proxies are shared within the limits, renewals are *)
(* scheduled in time, and no step takes the file of a proxy that has not   *)
(* expired from its jobs.                                                  *)

\* The inductive invariant.
IInv ==
  /\ TypeOK
  /\ SuffixesAscending
  /\ SharingLimited
  /\ ScheduledInTime

(* The same for one subject and its records md. *)

Ascending(md) ==
  \A i, k \in DOMAIN md : i < k => md[i].suffix < md[k].suffix

GoodRecord(r, t) ==
  /\ Len(r.jobs) <= MaxProxies
  /\ r.voms => Len(r.jobs) = 1
  /\ r.jobs # <<>> => r.next <= t \/ r.next + Limit <= r.end

GoodFile(md, t) == Ascending(md) /\ \A i \in DOMAIN md : GoodRecord(md[i], t)

\* The invariant, one subject at a time.
LEMMA IInvBySubject ==
  IInv <=> TypeOK /\ \A d \in Subjects : GoodFile(meta[d], now)
BY DEF IInv, SuffixesAscending, SharingLimited, ScheduledInTime,
       GoodFile, Ascending, GoodRecord

\* The records of d whose jobs miss their proxy file.
Unserved(d) == {i \in DOMAIN meta[d] : ~Served(meta[d][i], file[d], now)}

\* Of the records md, all but those in K find their proxy among the files f.
AllServed(md, f, t, K) == \A i \in DOMAIN md \ K : Served(md[i], f, t)

\* A step leaves no jobs without their proxy that had it.
ServedKept ==
  \A d \in Subjects : AllServed(meta'[d], file'[d], now', Unserved(d))

\* A step on one repository file leaves the others as they are.
LEMMA OneSubject ==
  ASSUME IInv, TypeOK', NEW d \in Subjects,
         \A x \in Subjects \ {d} : meta'[x] = meta[x] /\ file'[x] = file[x],
         now' = now, GoodFile(meta'[d], now)
  PROVE  IInv'
<1>1. \A x \in Subjects : GoodFile(meta'[x], now')
  BY IInvBySubject
<1>2. IInv' <=> TypeOK' /\ \A x \in Subjects : GoodFile(meta'[x], now')
  BY DEF IInv, SuffixesAscending, SharingLimited, ScheduledInTime,
         GoodFile, Ascending, GoodRecord
<1> QED
  BY <1>1, <1>2

LEMMA OneSubjectServed ==
  ASSUME NEW d \in Subjects,
         \A x \in Subjects \ {d} : meta'[x] = meta[x] /\ file'[x] = file[x],
         now' = now, AllServed(meta'[d], file'[d], now, Unserved(d))
  PROVE  ServedKept
<1> SUFFICES ASSUME NEW x \in Subjects
             PROVE  AllServed(meta'[x], file'[x], now', Unserved(x))
  BY DEF ServedKept
<1>1. CASE x = d
  BY <1>1
<1>2. CASE x # d
  BY <1>2 DEF AllServed, Unserved
<1> QED
  BY <1>1, <1>2

\* A step that leaves the disk alone keeps the invariant and the proxies.
LEMMA SameFiles ==
  ASSUME IInv, TypeOK', UNCHANGED <<meta, file, now>>
  PROVE  IInv' /\ ServedKept
<1>1. IInv'
  BY DEF IInv, SuffixesAscending, SharingLimited, ScheduledInTime
<1>2. ServedKept
  BY DEF ServedKept, AllServed, Unserved
<1> QED
  BY <1>1, <1>2

\* No two records of a file in order have the same suffix.
LEMMA OneRecordEach ==
  ASSUME NEW md \in Seq(Record), Ascending(md), NEW i \in DOMAIN md,
         NEW k \in DOMAIN md, md[i].suffix = md[k].suffix
  PROVE  i = k
<1>1. i \in Nat /\ k \in Nat /\ md[i] \in Record
  OBVIOUS
<1>2. md[i].suffix \in Nat
  BY <1>1 DEF Record
<1>3. i < k \/ k < i => md[i].suffix < md[k].suffix \/ md[k].suffix < md[i].suffix
  BY DEF Ascending
<1> QED
  BY <1>1, <1>2, <1>3

\* Storing a good record keeps the repository file good.
LEMMA StoreGood ==
  ASSUME NEW md \in Seq(Record), NEW r \in Record, NEW t,
         GoodFile(md, t), GoodRecord(r, t),
         \/ \E i \in DOMAIN md : md[i].suffix = r.suffix
         \/ \A i \in DOMAIN md : md[i].suffix < r.suffix
  PROVE  GoodFile(StoreRecord(md, r), t)
<1> DEFINE new == StoreRecord(md, r)
<1>1. Ascending(new)
  BY StoreRecordAscends DEF GoodFile, Ascending
<1>2. ASSUME NEW i \in DOMAIN new
      PROVE  GoodRecord(new[i], t)
  <2>1. new[i] = r \/ (i \in DOMAIN md /\ new[i] = md[i])
    BY StoreRecordIsSeq
  <2> QED
    BY <2>1 DEF GoodFile
<1> QED
  BY <1>1, <1>2 DEF GoodFile

\* A record is stored whose proxy file is there, if that of the record it
\* replaces was; g are the proxy files after it.
LEMMA StoreServed ==
  ASSUME NEW md \in Seq(Record), NEW r \in Record, NEW f, NEW g, NEW t, NEW K,
         AllServed(md, f, t, K),
         \A i \in DOMAIN md : md[i].suffix = r.suffix => i \in K \/ Served(r, g, t),
         (\A i \in DOMAIN md : md[i].suffix # r.suffix) => Served(r, g, t),
         \A i \in DOMAIN md : md[i].suffix # r.suffix => g[md[i].suffix] = f[md[i].suffix]
  PROVE  AllServed(StoreRecord(md, r), g, t, K)
<1> DEFINE new == StoreRecord(md, r)
<1> SUFFICES ASSUME NEW i \in DOMAIN new \ K PROVE Served(new[i], g, t)
  BY DEF AllServed
<1>1. CASE i \notin DOMAIN md
  BY <1>1, StoreRecordIsSeq
<1>2. CASE i \in DOMAIN md /\ md[i].suffix = r.suffix
  BY <1>2, StoreRecordIsSeq
<1>3. CASE i \in DOMAIN md /\ md[i].suffix # r.suffix
  <2>1. new[i] = md[i]
    BY <1>3, StoreRecordIsSeq
  <2> QED
    BY <1>3, <2>1 DEF AllServed, Served
<1> QED
  BY <1>1, <1>2, <1>3

\* Registering with a new proxy file keeps the invariant.
LEMMA SafeRegisterNew ==
  ASSUME IInv, NEW j \in Jobs, NEW d \in Subjects, NEW server \in Servers,
         NEW p \in Proxy, NEW voms \in BOOLEAN, RegisterNew(j, d, server, p, voms)
  PROVE  IInv' /\ ServedKept
<1> DEFINE md == meta[d]
           C == Candidates(md, server, voms, now)
           s == NewSuffix(md, C)
           r0 == [suffix |-> s, jobs |-> <<j>>, voms |-> voms, server |-> server,
                  next |-> 0, end |-> 0]
           r == Retimed(r0, p, now)
<1>1. TypeOK /\ TypeOK' /\ now \in Nat /\ md \in Seq(Record)
      /\ GoodFile(md, now) /\ p # None
  BY TypeRegisterNew, RecordsTyped, IInvBySubject, NoneAssumption
     DEF IInv, TypeOK, MissingIsNoProxy
<1>2. s \in Suffixes /\ s \in Nat
      /\ (\/ \E i \in DOMAIN md : md[i].suffix = s
          \/ \A i \in DOMAIN md : md[i].suffix < s)
  BY <1>1, NewSuffixTyped DEF RegisterNew
<1>3. /\ file' = [file EXCEPT ![d][s] = p] /\ now' = now
      /\ \/ Usable(p, now) /\ meta' = [meta EXCEPT ![d] = StoreRecord(md, r)]
         \/ meta' = meta
  BY DEF RegisterNew
<1> HIDE DEF s
<1>4. /\ file'[d][s] = p
      /\ \A x \in Suffixes \ {s} : file'[d][x] = file[d][x]
      /\ \A x \in Subjects \ {d} : file'[x] = file[x]
  BY <1>1, <1>2, <1>3 DEF TypeOK
<1>5. \A i \in DOMAIN md : md[i].suffix \in Suffixes
  BY <1>1, RecordsTyped
<1>6. CASE meta' = meta
  <2>1. AllServed(md, file'[d], now, Unserved(d))
    BY <1>1, <1>4, <1>5 DEF AllServed, Unserved, Served
  <2>2. ServedKept
    BY <1>3, <1>4, <1>6, <2>1, OneSubjectServed
  <2> QED
    BY <1>1, <1>3, <1>4, <1>6, <2>2, OneSubject
<1>7. CASE Usable(p, now) /\ meta' = [meta EXCEPT ![d] = StoreRecord(md, r)]
  <2>1. r0 \in Record /\ r0.suffix = s /\ r0.jobs = <<j>>
    BY <1>2 DEF Record
  <2> HIDE DEF r0
  <2>2. /\ r \in Record /\ r.suffix = s /\ r.jobs = <<j>>
        /\ r.next <= now \/ r.next + Limit <= r.end
    BY <1>1, <1>7, <2>1, RetimedKeeps, RetimedInTime
  <2> HIDE DEF r
  <2>3. GoodRecord(r, now) /\ Served(r, file'[d], now)
    BY <1>1, <1>4, <2>2, RecordsAssumption DEF GoodRecord, Served
  <2>4. /\ GoodFile(StoreRecord(md, r), now)
        /\ AllServed(StoreRecord(md, r), file'[d], now, Unserved(d))
    <3>1. \/ \E i \in DOMAIN md : md[i].suffix = r.suffix
          \/ \A i \in DOMAIN md : md[i].suffix < r.suffix
      BY <1>2, <2>2
    <3>2. \A i \in DOMAIN md :
            md[i].suffix # r.suffix => file'[d][md[i].suffix] = file[d][md[i].suffix]
      BY <1>4, <1>5, <2>2
    <3>3. AllServed(md, file[d], now, Unserved(d))
      BY DEF AllServed, Unserved
    <3> QED
      BY <1>1, <2>2, <2>3, <3>1, <3>2, <3>3, StoreGood, StoreServed
  <2>5. /\ meta'[d] = StoreRecord(md, r)
        /\ \A x \in Subjects \ {d} : meta'[x] = meta[x]
    BY <1>1, <1>7 DEF TypeOK
  <2> QED
    BY <1>1, <1>3, <1>4, <2>4, <2>5, OneSubject, OneSubjectServed
<1> QED
  BY <1>3, <1>6, <1>7

\* So does sharing one.
LEMMA SafeRegisterShared ==
  ASSUME IInv, NEW j \in Jobs, NEW d \in Subjects, NEW server \in Servers,
         NEW voms \in BOOLEAN, RegisterShared(j, d, server, voms)
  PROVE  IInv' /\ ServedKept
<1> DEFINE md == meta[d]
           c == Min(Candidates(md, server, voms, now))
           r == md[c]
           q == [r EXCEPT !.jobs = Append(r.jobs, j)]
<1>1. TypeOK /\ TypeOK' /\ md \in Seq(Record) /\ GoodFile(md, now)
  BY TypeRegisterShared, RecordsTyped, IInvBySubject DEF IInv
<1>2. Candidates(md, server, voms, now) # {} /\ r.jobs # <<>>
  BY DEF RegisterShared, NeedsFile
<1>3. c \in DOMAIN md /\ Shareable(r, server, voms, now)
  BY <1>1, <1>2, NewSuffixTyped DEF Free
<1>4. r \in Record
  BY <1>1, <1>3, RecordsTyped
<1>5. /\ meta' = [meta EXCEPT ![d] = StoreRecord(md, q)]
      /\ UNCHANGED <<now, file>>
  BY DEF RegisterShared
<1> HIDE DEF c
<1>6. GoodRecord(r, now) /\ (c \in Unserved(d) \/ Served(r, file[d], now))
  BY <1>1, <1>3 DEF GoodFile, Unserved
<1>11. \A i \in DOMAIN md : md[i].suffix = r.suffix => i = c
  BY <1>1, <1>3, OneRecordEach DEF GoodFile
<1> HIDE DEF r
<1>7. /\ q \in Record /\ q.suffix = r.suffix /\ q.voms = r.voms
      /\ q.next = r.next /\ q.end = r.end
      /\ Len(q.jobs) = Len(r.jobs) + 1 /\ Len(r.jobs) \in Nat
  BY <1>4 DEF Record
<1> HIDE DEF q
<1>8. GoodRecord(q, now) /\ (c \in Unserved(d) \/ Served(q, file[d], now))
  BY <1>2, <1>3, <1>6, <1>7, RecordsAssumption DEF GoodRecord, Served, Shareable
<1>9. /\ GoodFile(StoreRecord(md, q), now)
      /\ AllServed(StoreRecord(md, q), file[d], now, Unserved(d))
  <2>1. md[c].suffix = q.suffix
    BY <1>7 DEF r
  <2>2. GoodFile(StoreRecord(md, q), now)
    BY <1>1, <1>3, <1>7, <1>8, <2>1, StoreGood
  <2>3. AllServed(md, file[d], now, Unserved(d))
    BY DEF AllServed, Unserved
  <2>4. /\ \A i \in DOMAIN md : md[i].suffix = q.suffix =>
             i \in Unserved(d) \/ Served(q, file[d], now)
        /\ ~\A i \in DOMAIN md : md[i].suffix # q.suffix
    BY <1>3, <1>7, <1>8, <1>11, <2>1
  <2> QED
    BY <1>1, <1>7, <2>2, <2>3, <2>4, StoreServed
<1>10. /\ meta'[d] = StoreRecord(md, q)
       /\ \A x \in Subjects \ {d} : meta'[x] = meta[x]
  BY <1>1, <1>5 DEF TypeOK
<1> QED
  BY <1>1, <1>5, <1>9, <1>10, OneSubject, OneSubjectServed

\* A job is taken off its record; the file may go with the last one.
LEMMA SafeWithoutJob ==
  ASSUME IInv, TypeOK', NEW j, NEW d \in Subjects, NEW i \in DOMAIN meta[d],
         Lists(meta[d][i], j), now' = now,
         meta' = [meta EXCEPT ![d] = StoreRecord(meta[d], WithoutJob(meta[d][i], j))],
         \/ /\ file' = [file EXCEPT ![d][meta[d][i].suffix] = None]
            /\ WithoutJob(meta[d][i], j).jobs = <<>>
         \/ file' = file
  PROVE  IInv' /\ ServedKept
<1> DEFINE md == meta[d]
           r == WithoutJob(md[i], j)
<1>1. TypeOK /\ md \in Seq(Record) /\ GoodFile(md, now)
      /\ md[i] \in Record /\ md[i].suffix \in Suffixes
      /\ \A k \in DOMAIN md : md[k].suffix \in Suffixes
  BY RecordsTyped, IInvBySubject DEF IInv
<1>2. /\ r \in Record /\ r.suffix = md[i].suffix
      /\ Len(r.jobs) = Len(md[i].jobs) - 1
      /\ r.jobs = <<>> => r.voms = FALSE
      /\ r.jobs # <<>> => /\ r.voms = md[i].voms
                         /\ r.next = md[i].next /\ r.end = md[i].end
  BY <1>1, WithoutJobKeeps
<1>3. /\ GoodRecord(md[i], now)
      /\ i \in Unserved(d) \/ Served(md[i], file[d], now)
      /\ \A k \in DOMAIN md : md[k].suffix = md[i].suffix => k = i
  <2>1. \A k \in DOMAIN md : md[k].suffix = md[i].suffix => k = i
    BY <1>1, OneRecordEach DEF GoodFile
  <2> QED
    BY <1>1, <2>1 DEF GoodFile, Unserved
<1>4. /\ Len(md[i].jobs) \in Nat /\ md[i].jobs # <<>> /\ Len(<<>>) = 0
      /\ r.jobs # <<>> => Len(r.jobs) \in Nat \ {0}
  <2>1. md[i].jobs \in Seq(Jobs) /\ r.jobs \in Seq(Jobs)
    BY <1>1, <1>2 DEF Record
  <2> QED
    BY <2>1 DEF Lists
<1> HIDE DEF r
<1>5. GoodRecord(r, now)
  BY <1>2, <1>3, <1>4, RecordsAssumption DEF GoodRecord
<1>6. /\ \A x \in Subjects \ {d} : file'[x] = file[x]
      /\ \A x \in Suffixes \ {r.suffix} : file'[d][x] = file[d][x]
      /\ r.jobs # <<>> => file'[d] = file[d]
  BY <1>1, <1>2 DEF TypeOK, r
<1>7. i \in Unserved(d) \/ Served(r, file'[d], now)
  BY <1>2, <1>3, <1>4, <1>6 DEF Served
<1>8. /\ GoodFile(StoreRecord(md, r), now)
      /\ AllServed(StoreRecord(md, r), file'[d], now, Unserved(d))
  <2>1. GoodFile(StoreRecord(md, r), now)
    BY <1>1, <1>2, <1>5, StoreGood
  <2>2. AllServed(md, file[d], now, Unserved(d))
    BY DEF AllServed, Unserved
  <2>3. /\ \A k \in DOMAIN md : md[k].suffix = r.suffix =>
             k \in Unserved(d) \/ Served(r, file'[d], now)
        /\ ~\A k \in DOMAIN md : md[k].suffix # r.suffix
        /\ \A k \in DOMAIN md :
             md[k].suffix # r.suffix => file'[d][md[k].suffix] = file[d][md[k].suffix]
    BY <1>1, <1>2, <1>3, <1>6, <1>7
  <2> QED
    BY <1>1, <1>2, <2>1, <2>2, <2>3, StoreServed
<1>9. /\ meta'[d] = StoreRecord(md, r)
      /\ \A x \in Subjects \ {d} : meta'[x] = meta[x]
  BY <1>1 DEF TypeOK, r
<1> QED
  BY <1>6, <1>8, <1>9, OneSubject, OneSubjectServed

\* So does unregistering.
LEMMA SafeUnregister ==
  ASSUME IInv, NEW j \in Jobs,
         Unregister(j) \/ UnregisterNamed(j) \/ UnregisterForeign(j)
  PROVE  IInv' /\ ServedKept
<1>1. TypeOK /\ TypeOK'
  BY TypeRequest DEF IInv
<1>2. ASSUME NEW d \in Subjects, NEW i \in DOMAIN meta[d], NEW foreign,
             Lists(meta[d][i], j), RemoveJob(j, d, i, foreign)
      PROVE  IInv' /\ ServedKept
  <2>1. /\ meta' = [meta EXCEPT ![d] =
                       StoreRecord(meta[d], WithoutJob(meta[d][i], j))]
        /\ now' = now
        /\ \/ /\ file' = [file EXCEPT ![d][WithoutJob(meta[d][i], j).suffix] = None]
              /\ WithoutJob(meta[d][i], j).jobs = <<>>
           \/ file' = file
    BY <1>2 DEF RemoveJob
  <2>2. WithoutJob(meta[d][i], j).suffix = meta[d][i].suffix
    BY <1>1, <1>2, RecordsTyped, WithoutJobKeeps
  <2> QED
    BY <1>1, <1>2, <2>1, <2>2, SafeWithoutJob
<1>3. CASE Unregister(j)
  <2>1. PICK d \in Subjects :
          /\ \E i \in DOMAIN meta[d] : Lists(meta[d][i], j)
          /\ RemoveJob(j, d, FirstListing(meta[d], j), FALSE)
    BY <1>3 DEF Unregister
  <2>2. /\ FirstListing(meta[d], j) \in DOMAIN meta[d]
        /\ Lists(meta[d][FirstListing(meta[d], j)], j)
    BY <1>1, <2>1, RecordsTyped, FirstListingLists
  <2> QED
    BY <1>2, <2>1, <2>2
<1>4. CASE UnregisterNamed(j)
  BY <1>2, <1>4 DEF UnregisterNamed
<1>5. CASE UnregisterForeign(j)
  BY <1>2, <1>5 DEF UnregisterForeign
<1> QED
  BY <1>3, <1>4, <1>5

\* What update_db does to the file of a record: in a file in order, no other
\* record's line decides about it.
LEMMA FilesAfterAt ==
  ASSUME TypeOK, NEW u \in Update, NEW lost, NEW n \in Nat,
         n <= Len(meta[u.subject]),
         Ascending(meta[u.subject]), NEW k \in DOMAIN meta[u.subject]
  PROVE  LET md == meta[u.subject]
             s  == md[k].suffix
             c  == Cursor(md, u.entries)[k]
         IN  FilesAfter(u, lost, n)[s] =
               IF k <= n /\ Applies(md, u.entries, k) /\ c \notin lost
                 THEN UpdatedFile(md[k], u.entries[c], file[u.subject][s], now)
                 ELSE file[u.subject][s]
<1> DEFINE d == u.subject
           md == meta[d]
           s == md[k].suffix
           c(i) == Cursor(md, u.entries)[i]
           at == {i \in 1..n : md[i].suffix = s /\ Applies(md, u.entries, i)}
<1>1. d \in Subjects
  BY DEF Update
<1>2. DOMAIN md = 1..Len(md) /\ Len(md) \in Nat /\ s \in Suffixes
      /\ md \in Seq(Record)
  BY <1>1, RecordsTyped
<1>3. \A i \in 1..n : md[i].suffix = s => i = k
  BY <1>2, OneRecordEach
<1>4. FilesAfter(u, lost, n)[s] =
        IF at = {} THEN file[d][s]
        ELSE IF c(Min(at)) \in lost THEN file[d][s]
        ELSE UpdatedFile(md[Min(at)], u.entries[c(Min(at))], file[d][s], now)
  BY <1>2 DEF FilesAfter
<1>5. CASE k <= n /\ Applies(md, u.entries, k)
  <2>1. k \in at
    BY <1>2, <1>5
  <2>2. at = {k}
    BY <1>3, <2>1
  <2>3. Min(at) = k
    <3>1. at \in SUBSET Nat /\ at # {}
      BY <2>1
    <3>2. Min(at) \in at
      <4> HIDE DEF at
      <4> QED
        BY <3>1, MinOfNaturals
    <3> QED
      BY <2>2, <3>2
  <2> HIDE DEF at
  <2> QED
    BY <1>4, <1>5, <2>1, <2>3
<1>6. CASE ~(k <= n /\ Applies(md, u.entries, k))
  <2>1. at = {}
    BY <1>3, <1>6
  <2> HIDE DEF at
  <2> QED
    BY <1>4, <1>6, <2>1
<1> QED
  BY <1>5, <1>6

\* What update_db does to one record and its proxy file: nothing, when there is
\* no entry for it, and the file stays when the renewed one is gone.
LEMMA RecordAfterAt ==
  ASSUME TypeOK, NEW u \in Update, NEW lost, Ascending(meta[u.subject]),
         NEW k \in DOMAIN meta[u.subject]
  PROVE  LET md == meta[u.subject]
             r  == md[k]
             q  == RecordsAfter(u)[k]
             old == file[u.subject][r.suffix]
             new == FilesAfter(u, lost, Len(md))[r.suffix]
             c  == Cursor(md, u.entries)[k]
         IN  /\ r \in Record /\ r.suffix \in Suffixes /\ q.suffix = r.suffix
             /\ old \in Proxy \union {None}
             /\ \/ q = r /\ new = old
                \/ /\ c \in DOMAIN u.entries /\ u.entries[c] \in Entry
                   /\ u.entries[c].suffix = r.suffix
                   /\ q = UpdatedRecord(r, u.entries[c], old, now)
                   /\ \/ c \notin lost /\ new = UpdatedFile(r, u.entries[c], old, now)
                      \/ c \in lost /\ new = old
<1> DEFINE d == u.subject
           md == meta[d]
           n == Len(md)
           r == md[k]
           q == RecordsAfter(u)[k]
           old == file[d][r.suffix]
           new == FilesAfter(u, lost, n)[r.suffix]
           c == Cursor(md, u.entries)[k]
<1>1. d \in Subjects /\ u.entries \in Seq(Entry)
  BY DEF Update
<1>2. r \in Record /\ r.suffix \in Suffixes /\ n \in Nat /\ k <= n /\ n <= n
  BY <1>1, RecordsTyped
<1>3. old \in Proxy \union {None} /\ now \in Nat
  BY <1>1, <1>2 DEF TypeOK
<1>4. new = IF k <= n /\ Applies(md, u.entries, k) /\ c \notin lost
              THEN UpdatedFile(r, u.entries[c], old, now) ELSE old
  BY <1>2, FilesAfterAt
<1>5. q = IF Applies(md, u.entries, k) THEN UpdatedRecord(r, u.entries[c], old, now)
          ELSE r
  BY DEF RecordsAfter
<1>6. Applies(md, u.entries, k) =>
        c \in DOMAIN u.entries /\ u.entries[c] \in Entry
          /\ u.entries[c].suffix = r.suffix
  BY <1>1 DEF Applies
<1>7. q.suffix = r.suffix
  <2> HIDE DEF r, q, old, c
  <2>1. CASE Applies(md, u.entries, k)
    BY <1>2, <1>3, <1>5, <1>6, <2>1, UpdatedRecordKeeps
  <2>2. CASE ~Applies(md, u.entries, k)
    BY <1>5, <2>2
  <2> QED
    BY <2>1, <2>2
<1> HIDE DEF r, q, old, new, c, n
<1> QED
  BY <1>2, <1>3, <1>4, <1>5, <1>6, <1>7 DEF r, q, old, new, c, n

\* What LiveJobsHaveProxy says of a step.
LiveKept ==
  \A d \in Subjects : \A i \in DOMAIN meta'[d] :
    \/ Served(meta'[d][i], file'[d], now')
    \/ i \in Unserved(d)
    \/ /\ i \in DOMAIN meta[d]
       /\ Overtaken /\ file[d][meta'[d][i].suffix] = None

LEMMA ServedIsLive == ServedKept => LiveKept
BY DEF ServedKept, LiveKept, AllServed

\* So does update_db, but one that is overtaken can date the record of a proxy
\* that is gone.
LEMMA SafeUpdateDb == IInv /\ (UpdateDb \/ UpdateDbOvertaken) => IInv' /\ LiveKept
<1> SUFFICES ASSUME IInv, UpdateDb \/ UpdateDbOvertaken PROVE IInv' /\ LiveKept
  OBVIOUS
<1>1. TypeOK /\ TypeOK' /\ now \in Nat
  BY TypeUpdateDb DEF IInv, TypeOK
<1>2. PICK u \in Update, lost \in SUBSET Nat :
        UpdateRepository(u, lost) /\ (~Overtaken => lost = {})
  BY <1>1, Requests
<1> DEFINE d == u.subject
           md == meta[d]
           n == Len(md)
           new == FilesAfter(u, lost, n)
<1>3. d \in Subjects
  BY DEF Update
<1>4. /\ meta' = [meta EXCEPT ![d] = RecordsAfter(u)]
      /\ file' = [file EXCEPT ![d] = new]
      /\ now' = now
  BY <1>2 DEF UpdateRepository
<1>5. /\ meta'[d] = RecordsAfter(u) /\ file'[d] = new
      /\ \A x \in Subjects \ {d} : meta'[x] = meta[x] /\ file'[x] = file[x]
  BY <1>1, <1>3, <1>4 DEF TypeOK
<1>6. /\ md \in Seq(Record) /\ n \in Nat /\ DOMAIN md = 1..n
      /\ GoodFile(md, now) /\ Ascending(md)
      /\ DOMAIN RecordsAfter(u) = DOMAIN md
  <2>1. md \in Seq(Record) /\ GoodFile(md, now)
    BY <1>1, <1>3, RecordsTyped, IInvBySubject
  <2> QED
    BY <1>1, <2>1, RecordsAfterTyped DEF GoodFile
<1>7. ASSUME NEW k \in DOMAIN md
      PROVE  LET q == RecordsAfter(u)[k]
             IN  /\ q.suffix = md[k].suffix
                 /\ GoodRecord(q, now)
                 /\ \/ Served(q, new, now)
                    \/ k \in Unserved(d)
                    \/ Overtaken /\ file[d][q.suffix] = None
  <2> DEFINE r == md[k]
             old == file[d][r.suffix]
             q == RecordsAfter(u)[k]
             e == u.entries[Cursor(md, u.entries)[k]]
  <2>1. /\ r \in Record /\ q.suffix = r.suffix /\ old \in Proxy \union {None}
        /\ \/ q = r /\ new[r.suffix] = old
           \/ /\ e \in Entry /\ q = UpdatedRecord(r, e, old, now)
              /\ \/ new[r.suffix] = UpdatedFile(r, e, old, now)
                 \/ Overtaken /\ new[r.suffix] = old
    BY <1>1, <1>2, <1>6, RecordAfterAt
  <2>2. /\ GoodRecord(r, now)
        /\ k \in Unserved(d) \/ (r.jobs # <<>> /\ r.end >= now => old # None)
    BY <1>6 DEF GoodFile, Unserved, Served
  <2> HIDE DEF q, e, new, r, old
  <2>3. CASE q = r /\ new[r.suffix] = old
    BY <2>1, <2>2, <2>3 DEF Served, q, r
  <2>4. CASE /\ e \in Entry /\ q = UpdatedRecord(r, e, old, now)
             /\ \/ new[r.suffix] = UpdatedFile(r, e, old, now)
                \/ Overtaken /\ new[r.suffix] = old
    <3>1. \/ q.jobs = <<>> /\ q.voms = FALSE
          \/ /\ q.jobs = r.jobs /\ q.voms = r.voms
             /\ \/ q.next = r.next /\ q.end = r.end
                \/ q.next <= now \/ q.next + Limit <= q.end
      BY <1>1, <2>1, <2>4, UpdatedRecordKeeps
    <3>2. GoodRecord(q, now)
      <4>1. CASE q.jobs = <<>> /\ q.voms = FALSE
        <5>1. Len(q.jobs) = 0
          BY <4>1
        <5> QED
          BY <4>1, <5>1, RecordsAssumption DEF GoodRecord
      <4>2. CASE q.jobs = r.jobs /\ q.voms = r.voms /\ q.next = r.next /\ q.end = r.end
        BY <2>2, <4>2 DEF GoodRecord
      <4>3. CASE /\ q.jobs = r.jobs /\ q.voms = r.voms
                 /\ q.next <= now \/ q.next + Limit <= q.end
        BY <2>2, <4>3 DEF GoodRecord
      <4> QED
        BY <3>1, <4>1, <4>2, <4>3
    <3>3. \/ Served(q, new, now)
          \/ k \in Unserved(d)
          \/ Overtaken /\ old = None
      <4>1. CASE r.jobs = <<>>
        BY <3>1, <4>1 DEF Served
      <4>2. CASE Overtaken /\ new[r.suffix] = old
        BY <2>1, <4>2 DEF Served
      <4>3. CASE r.jobs # <<>> /\ new[r.suffix] = UpdatedFile(r, e, old, now)
        <5>1. CASE r.end >= now => old # None
          BY <1>1, <2>1, <2>4, <4>3, <5>1, UpdatedFileKept DEF Served
        <5>2. CASE ~(r.end >= now => old # None)
          BY <2>2, <4>3, <5>2
        <5> QED
          BY <5>1, <5>2
      <4> QED
        BY <2>4, <4>1, <4>2, <4>3
    <3> QED
      BY <2>1, <3>2, <3>3 DEF q, r, old
  <2> QED
    BY <2>1, <2>3, <2>4
<1>8. GoodFile(RecordsAfter(u), now)
  <2>1. Ascending(RecordsAfter(u))
    BY <1>6, <1>7 DEF Ascending
  <2> QED
    BY <1>6, <1>7, <2>1 DEF GoodFile
<1>9. IInv'
  BY <1>1, <1>3, <1>4, <1>5, <1>8, OneSubject
<1>10. LiveKept
  <2> SUFFICES ASSUME NEW x \in Subjects, NEW i \in DOMAIN meta'[x]
               PROVE  \/ Served(meta'[x][i], file'[x], now')
                      \/ i \in Unserved(x)
                      \/ /\ i \in DOMAIN meta[x]
                         /\ Overtaken /\ file[x][meta'[x][i].suffix] = None
    BY DEF LiveKept
  <2> HIDE DEF new
  <2>1. CASE x = d
    BY <1>4, <1>5, <1>6, <1>7, <2>1
  <2>2. CASE x # d
    BY <1>4, <1>5, <2>2 DEF Unserved
  <2> QED
    BY <2>1, <2>2
<1> QED
  BY <1>9, <1>10

\* A killed handler leaves a state in which the invariant holds as well.
LEMMA SafeCrash ==
  ASSUME IInv, \/ Crash \/ CrashInUpdateDb
               \/ \E j \in Jobs : CrashInRegister(j) \/ CrashInUnregister(j)
  PROVE  IInv' /\ ServedKept
<1>1. TypeOK /\ TypeOK' /\ now \in Nat
  BY TypeCrash DEF IInv, TypeOK
<1>2. CASE Crash
  BY <1>1, <1>2, SameFiles DEF Crash, MasterDies, disk
<1>6. ASSUME UNCHANGED <<meta, now>>
      PROVE  IInv'
  BY <1>1, <1>6 DEF IInv, SuffixesAscending, SharingLimited, ScheduledInTime
<1>3. CASE CrashInUpdateDb
  <2> DEFINE u == Head(updates)
             d == u.subject
             md == meta[d]
  <2>1. u \in Update
    BY <1>1, <1>3, HeadTailProperties DEF TypeOK, CrashInUpdateDb
  <2>2. /\ meta' = meta /\ now' = now
        /\ \E n \in DOMAIN md, lost \in SUBSET Deletable(u) :
             file' = [file EXCEPT ![d] = FilesAfter(u, lost, n)]
    BY <1>3 DEF CrashInUpdateDb, MasterDies
  <2> HIDE DEF u
  <2>3. PICK n \in DOMAIN md, lost \in SUBSET Deletable(u) :
          file' = [file EXCEPT ![d] = FilesAfter(u, lost, n)]
    BY <2>2
  <2>4. d \in Subjects
    BY <2>1 DEF Update
  <2> DEFINE new == FilesAfter(u, lost, n)
  <2>5. /\ file'[d] = new
        /\ \A x \in Subjects \ {d} : file'[x] = file[x]
    BY <1>1, <2>3, <2>4 DEF TypeOK
  <2>6. n \in Nat /\ n <= Len(md) /\ Ascending(md)
    BY <1>1, <2>4, RecordsTyped, IInvBySubject DEF GoodFile
  <2>7. ASSUME NEW k \in DOMAIN md \ Unserved(d)
        PROVE  Served(md[k], new, now)
    <3> DEFINE r == md[k]
               c == Cursor(md, u.entries)[k]
               e == u.entries[c]
               old == file[d][r.suffix]
    <3>1. r \in Record /\ r.suffix \in Suffixes /\ Served(r, file[d], now)
      BY <1>1, <2>4, RecordsTyped DEF Unserved
    <3>2. old \in Proxy \union {None}
      BY <1>1, <2>4, <3>1 DEF TypeOK
    <3>3. new[r.suffix] =
            IF k <= n /\ Applies(md, u.entries, k) /\ c \notin lost
              THEN UpdatedFile(r, e, old, now) ELSE old
      BY <1>1, <2>1, <2>6, FilesAfterAt
    <3> HIDE DEF r, new
    <3>4. CASE ~(k <= n /\ Applies(md, u.entries, k) /\ c \notin lost)
      BY <3>1, <3>3, <3>4 DEF Served, r
    <3>5. CASE k <= n /\ Applies(md, u.entries, k) /\ c \notin lost
      <4>1. e \in Entry
        BY <2>1, <3>5 DEF Applies, Update
      <4> HIDE DEF e, c
      <4>2. CASE r.jobs # <<>> /\ r.end >= now
        <5>1. old # None
          BY <3>1, <4>2 DEF Served
        <5>2. UpdatedFile(r, e, old, now) # None
          BY <1>1, <3>1, <3>2, <4>1, <4>2, <5>1, UpdatedFileKept
        <5>3. Served(r, new, now)
          BY <3>3, <3>5, <5>2 DEF Served
        <5> QED
          BY <5>3 DEF r
      <4>3. CASE ~(r.jobs # <<>> /\ r.end >= now)
        BY <4>3 DEF Served, r
      <4> QED
        BY <4>2, <4>3
    <3> QED
      BY <3>4, <3>5
  <2>8. AllServed(meta'[d], file'[d], now, Unserved(d))
    BY <2>2, <2>5, <2>7 DEF AllServed
  <2> QED
    BY <1>6, <2>2, <2>4, <2>5, <2>8, OneSubjectServed
<1>4. ASSUME NEW j \in Jobs, CrashInRegister(j)
      PROVE  IInv' /\ ServedKept
  <2>1. PICK d \in Subjects, s \in Suffixes, p \in Proxy :
          file' = [file EXCEPT ![d][s] = p]
    <3>1. Issued(ClientLives) \subseteq Proxy
      BY <1>1, IssuedTyped, DaemonAssumption
    <3>2. PICK d \in Subjects, server \in Servers, p \in Issued(ClientLives) :
            \E voms \in VomsFound(p) :
              LET s == NewSuffix(meta[d], Candidates(meta[d], server, voms, now))
              IN  s <= MaxSuffix /\ file' = [file EXCEPT ![d][s] = p]
      BY <1>4 DEF CrashInRegister
    <3> QED
      BY <1>1, <3>1, <3>2, NewSuffixTyped
  <2>2. meta' = meta /\ now' = now /\ p # None
    BY <1>4, NoneAssumption DEF CrashInRegister, MasterDies, MissingIsNoProxy
  <2>3. /\ file'[d][s] = p
        /\ \A x \in Suffixes \ {s} : file'[d][x] = file[d][x]
        /\ \A x \in Subjects \ {d} : file'[x] = file[x]
    BY <1>1, <2>1 DEF TypeOK
  <2>4. \A i \in DOMAIN meta[d] : meta[d][i].suffix \in Suffixes
    BY <1>1, RecordsTyped
  <2>5. AllServed(meta'[d], file'[d], now, Unserved(d))
    BY <2>2, <2>3, <2>4 DEF AllServed, Unserved, Served
  <2> QED
    BY <1>6, <2>2, <2>3, <2>5, OneSubjectServed
<1>5. ASSUME NEW j \in Jobs, CrashInUnregister(j)
      PROVE  IInv' /\ ServedKept
  <2>1. PICK d \in Subjects : \E i \in DOMAIN meta[d] :
          /\ Lists(meta[d][i], j)
          /\ meta' = [meta EXCEPT ![d] =
                        StoreRecord(meta[d], WithoutJob(meta[d][i], j))]
    BY <1>5 DEF CrashInUnregister
  <2>2. file' = file /\ now' = now
    BY <1>5 DEF CrashInUnregister, MasterDies
  <2> QED
    BY <1>1, <2>1, <2>2, SafeWithoutJob
<1> QED
  BY <1>2, <1>3, <1>4, <1>5

\* Time passes: what was due stays due, and fewer proxies are alive.
LEMMA SafeTick == IInv /\ Tick => IInv' /\ ServedKept
<1> SUFFICES ASSUME IInv, Tick PROVE IInv' /\ ServedKept
  OBVIOUS
<1>1. TypeOK /\ now \in Nat /\ now' = now + 1 /\ meta' = meta /\ file' = file
  BY DEF IInv, TypeOK, Tick, disk
<1>2. TypeOK'
  BY <1>1 DEF TypeOK, Tick, disk
<1>3. ASSUME NEW d \in Subjects
      PROVE  /\ GoodFile(meta'[d], now')
             /\ AllServed(meta'[d], file'[d], now', Unserved(d))
  <2>1. GoodFile(meta[d], now)
    BY IInvBySubject
  <2>2. \A i \in DOMAIN meta[d] : meta[d][i].next \in Nat /\ meta[d][i].end \in Nat
    <3>1. \A i \in DOMAIN meta[d] : meta[d][i] \in Record
      BY <1>1, RecordsTyped
    <3> QED
      BY <3>1 DEF Record
  <2>3. ASSUME NEW i \in DOMAIN meta[d]
        PROVE  /\ GoodRecord(meta[d][i], now + 1)
               /\ Served(meta[d][i], file[d], now) => Served(meta[d][i], file[d], now + 1)
    BY <1>1, <2>1, <2>2 DEF GoodFile, GoodRecord, Served
  <2>4. GoodFile(meta'[d], now')
    BY <1>1, <2>1, <2>3 DEF GoodFile
  <2>5. AllServed(meta'[d], file'[d], now', Unserved(d))
    BY <1>1, <2>3 DEF AllServed, Unserved
  <2> QED
    BY <2>4, <2>5
<1>4. IInv' <=> TypeOK' /\ \A x \in Subjects : GoodFile(meta'[x], now')
  BY DEF IInv, SuffixesAscending, SharingLimited, ScheduledInTime,
         GoodFile, Ascending, GoodRecord
<1> QED
  BY <1>2, <1>3, <1>4 DEF ServedKept

\* Every step keeps the invariant and the proxies of jobs in use.
LEMMA SafeStep == IInv /\ [Next]_vars => IInv' /\ LiveKept
<1> SUFFICES ASSUME IInv, [Next]_vars PROVE IInv' /\ LiveKept
  OBVIOUS
<1>1. TypeOK
  BY DEF IInv
<1>2. CASE Tick
  BY <1>2, SafeTick, ServedIsLive
<1>3. ASSUME NEW j \in Jobs, Register(j)
      PROVE  IInv' /\ LiveKept
  <2>1. PICK d \in Subjects, server \in Servers, p \in Issued(ClientLives) :
          \E voms \in VomsFound(p) : \/ RegisterNew(j, d, server, p, voms)
                                     \/ RegisterShared(j, d, server, voms)
    BY <1>3 DEF Register
  <2>2. PICK voms \in BOOLEAN : \/ RegisterNew(j, d, server, p, voms)
                                \/ RegisterShared(j, d, server, voms)
    BY <2>1 DEF VomsFound
  <2>3. p \in Proxy
    BY <1>1, IssuedTyped, DaemonAssumption DEF TypeOK
  <2>4. IInv' /\ ServedKept
    BY <2>2, <2>3, SafeRegisterNew, SafeRegisterShared
  <2> QED
    BY <2>4, ServedIsLive
<1>4. CASE \E j \in Jobs : Unregister(j) \/ UnregisterNamed(j) \/ UnregisterForeign(j)
  BY <1>4, SafeUnregister, ServedIsLive
<1>5. CASE \/ Crash \/ CrashInUpdateDb
           \/ \E j \in Jobs : CrashInRegister(j) \/ CrashInUnregister(j)
  BY <1>5, SafeCrash, ServedIsLive
<1>6. CASE UpdateDb \/ UpdateDbOvertaken
  BY <1>6, SafeUpdateDb
<1>7. ASSUME NEW w \in Watchdogs,
             WatchdogStep(w) \/ Timeout(w) \/ WatchdogExits(w) \/ WatchdogDies(w)
      PROVE  IInv' /\ LiveKept
  <2>1. TypeOK'
    BY <1>1, <1>7, TypeWatchdog
  <2>2. UNCHANGED <<meta, file, now>>
    BY <1>7 DEF WatchdogStep, WakeUp, CheckRenewal, FinishScan, RenewProxy,
                SendUpdate, Timeout, WatchdogExits, WatchdogDies, disk
  <2> QED
    BY <2>1, <2>2, SameFiles, ServedIsLive
<1>8. CASE RestartWatchdog \/ MasterRestart
  <2>1. TypeOK'
    BY <1>1, <1>8, TypeRestart
  <2>2. UNCHANGED <<meta, file, now>>
    BY <1>8 DEF RestartWatchdog, MasterRestart, disk
  <2> QED
    BY <2>1, <2>2, SameFiles, ServedIsLive
<1>9. CASE UNCHANGED vars
  <2>1. TypeOK'
    BY <1>1, <1>9 DEF vars, disk, TypeOK
  <2> QED
    BY <1>9, <2>1, SameFiles, ServedIsLive DEF vars, disk
<1> QED
  BY <1>2, <1>3, <1>4, <1>5, <1>6, <1>7, <1>8, <1>9 DEF Next

\* The initial state satisfies it.
LEMMA SafeInit == Init => IInv
<1> SUFFICES ASSUME Init PROVE IInv
  OBVIOUS
<1>1. TypeOK
  BY TypeInit
<1>2. \A d \in Subjects : meta[d] = <<>>
  BY DEF Init
<1>3. \A d \in Subjects : DOMAIN meta[d] = {}
  BY <1>2
<1> QED
  BY <1>1, <1>3 DEF IInv, SuffixesAscending, SharingLimited, ScheduledInTime

\* The invariant holds in every state.
LEMMA InvariantHolds == Spec => []IInv
BY SafeInit, SafeStep, PTL DEF Spec

\* The records of every repository file come by strictly ascending suffix, which
\* is what update_db walks them by; no step sorts them.
THEOREM RecordsAscend == Spec => []SuffixesAscending
<1>1. IInv => SuffixesAscending
  BY DEF IInv
<1> QED
  BY <1>1, InvariantHolds, PTL

\* No proxy is shared by more than MAX_PROXIES jobs, one with VOMS attributes by
\* no two, for any number of jobs, servers and subjects.
THEOREM SharingStaysLimited == Spec => []SharingLimited
<1>1. IInv => SharingLimited
  BY DEF IInv
<1> QED
  BY <1>1, InvariantHolds, PTL

\* Every proxy in use is due already or will be due Limit before it ends.
THEOREM AlwaysScheduledInTime == Spec => []ScheduledInTime
<1>1. IInv => ScheduledInTime
  BY DEF IInv
<1> QED
  BY <1>1, InvariantHolds, PTL

\* A step takes the proxy file from no jobs whose record has not expired, though
\* the master be killed in the middle of a handler or the watchdog give up under
\* it; only an update_db that is overtaken dates a record whose file is gone.
THEOREM LiveJobsKeepProxy == Spec => LiveJobsHaveProxy
<1>1. IInv /\ [Next]_vars =>
        \A d \in Subjects : \A i \in DOMAIN meta'[d] :
          LET r == meta'[d][i]
          IN  ~Served(r, file'[d], now') =>
                /\ i \in DOMAIN meta[d]
                /\ \/ ~Served(meta[d][i], file[d], now)
                   \/ Overtaken /\ file[d][r.suffix] = None
  <2>1. IInv /\ [Next]_vars => LiveKept
    BY SafeStep
  <2> QED
    BY <2>1 DEF LiveKept, Unserved
<1> QED
  BY <1>1, InvariantHolds, PTL DEF Spec, LiveJobsHaveProxy

===============================================================================
