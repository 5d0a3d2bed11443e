------------------------- MODULE ProxyRecords_proofs -------------------------
(***************************************************************************)
(* What the operations on the records of a repository file return, keep    *)
(* and bound.                                                              *)
(***************************************************************************)
EXTENDS ProxyRecords, RenewalSchedule_proofs, SequenceTheorems

\* get_times keeps a record a record, and its suffix, jobs, VOMS mark and
\* server with it.
LEMMA RetimedKeeps ==
  ASSUME NEW r \in Record, NEW p \in Proxy \union {None}, NEW now \in Nat
  PROVE  LET q == Retimed(r, p, now)
         IN  /\ q \in Record
             /\ q.suffix = r.suffix /\ q.jobs = r.jobs
             /\ q.voms = r.voms /\ q.server = r.server
<1>1. CASE Usable(p, now)
  <2>1. p \in Proxy
    BY <1>1 DEF Usable
  <2>2. p.leaf \in Nat /\ now + Delta(now, p.leaf) \in Nat
    <3>1. p.leaf \in Nat
      BY <2>1 DEF Proxy
    <3>2. Delta(now, p.leaf) \in Nat
      BY <3>1, DeltaLeavesLimit
    <3> QED
      BY <3>1, <3>2
  <2> QED
    BY <1>1, <2>2 DEF Retimed, Record
<1>2. CASE ~Usable(p, now)
  BY <1>2 DEF Retimed
<1> QED
  BY <1>1, <1>2

\* A proxy that get_times has just accepted is scheduled in time.
LEMMA RetimedInTime ==
  ASSUME NEW r \in Record, NEW p \in Proxy \union {None}, NEW now \in Nat,
         Usable(p, now)
  PROVE  LET q == Retimed(r, p, now)
         IN  q.end = p.leaf /\ (q.next <= now \/ q.next + Limit <= q.end)
<1>1. p \in Proxy
  BY DEF Usable
<1>2. p.leaf \in Nat
  BY <1>1 DEF Proxy
<1>3. /\ Delta(now, p.leaf) \in Nat
      /\ Delta(now, p.leaf) # 0 => now + Delta(now, p.leaf) + Limit <= p.leaf
  BY <1>2, DeltaLeavesLimit
<1>4. /\ Retimed(r, p, now).next = now + Delta(now, p.leaf)
      /\ Retimed(r, p, now).end = p.leaf
  BY DEF Retimed, Record
<1> QED
  BY <1>3, <1>4, LimitIsNatural

\* The record a registration uses is the first of its candidates.
LEMMA FirstCandidate ==
  ASSUME NEW md \in Seq(Record), NEW server, NEW voms, NEW now,
         Candidates(md, server, voms, now) # {}
  PROVE  LET i == Min(Candidates(md, server, voms, now))
         IN  /\ i \in DOMAIN md
             /\ Free(md[i]) \/ Shareable(md[i], server, voms, now)
<1> DEFINE C == Candidates(md, server, voms, now)
<1>1. C \in SUBSET Nat /\ C # {}
  BY DEF Candidates
<1>2. Min(C) \in C
  <2> HIDE DEF C
  <2> QED
    BY <1>1, MinOfNaturals
<1> QED
  BY <1>2 DEF Candidates

\* last_suffix is at least -1 and at least every suffix of the file.
LEMMA LastSuffixIsLast ==
  ASSUME NEW md \in Seq(Record), NEW b \in Nat,
         \A i \in DOMAIN md : md[i].suffix <= b
  PROVE  /\ LastSuffix(md) \in Int
         /\ LastSuffix(md) >= -1
         /\ \A i \in DOMAIN md : md[i].suffix <= LastSuffix(md)
<1> DEFINE S == {-1} \union {md[i].suffix : i \in DOMAIN md}
<1>1. \A i \in DOMAIN md : md[i].suffix \in Nat
  <2>1. \A i \in DOMAIN md : md[i] \in Record
    OBVIOUS
  <2> QED
    BY <2>1 DEF Record
<1>2. S \in SUBSET Int /\ S # {} /\ \A x \in S : x <= b
  BY <1>1
<1>3. PICK m \in S : m = Max(S) /\ \A x \in S : m >= x
  <2>1. b \in Int
    OBVIOUS
  <2> HIDE DEF S
  <2> QED
    BY <1>2, <2>1, MaxOfIntegers
<1>4. m \in Int /\ m >= -1 /\ \A i \in DOMAIN md : md[i].suffix <= m
  BY <1>1, <1>2, <1>3
<1>5. LastSuffix(md) = Max(S)
  BY DEF LastSuffix
<1> HIDE DEF S
<1> QED
  BY <1>3, <1>4, <1>5

\* store_record replaces or appends.
LEMMA StoreRecordIsSeq ==
  ASSUME NEW R, NEW md \in Seq(R), NEW r \in R
  PROVE  /\ StoreRecord(md, r) \in Seq(R)
         /\ \A i \in DOMAIN md :
              /\ i \in DOMAIN StoreRecord(md, r)
              /\ StoreRecord(md, r)[i] =
                   IF md[i].suffix = r.suffix THEN r ELSE md[i]
         /\ \A i \in DOMAIN StoreRecord(md, r) \ DOMAIN md :
              /\ i = Len(md) + 1
              /\ StoreRecord(md, r)[i] = r
              /\ \A k \in DOMAIN md : md[k].suffix # r.suffix
<1> DEFINE new == [i \in DOMAIN md |-> IF md[i].suffix = r.suffix THEN r ELSE md[i]]
<1>1. CASE \E i \in DOMAIN md : md[i].suffix = r.suffix
  <2>1. StoreRecord(md, r) = new
    BY <1>1 DEF StoreRecord
  <2>2. new \in [1..Len(md) -> R]
    OBVIOUS
  <2> QED
    BY <2>1, <2>2
<1>2. CASE ~\E i \in DOMAIN md : md[i].suffix = r.suffix
  <2>1. StoreRecord(md, r) = Append(md, r)
    BY <1>2 DEF StoreRecord
  <2> QED
    BY <1>2, <2>1
<1> QED
  BY <1>1, <1>2

\* The suffix a registration gets: that of the free record, or one above all.
LEMMA NewSuffixIsNew ==
  ASSUME NEW md \in Seq(Record), NEW b \in Nat,
         \A i \in DOMAIN md : md[i].suffix <= b,
         NEW server, NEW voms, NEW now
  PROVE  LET C == Candidates(md, server, voms, now)
             s == NewSuffix(md, C)
         IN  /\ s \in Nat
             /\ C = {} => \A i \in DOMAIN md : md[i].suffix < s
             /\ C # {} => Min(C) \in DOMAIN md /\ s = md[Min(C)].suffix
<1> DEFINE C == Candidates(md, server, voms, now)
<1>1. \A i \in DOMAIN md : md[i].suffix \in Nat
  <2>1. \A i \in DOMAIN md : md[i] \in Record
    OBVIOUS
  <2> QED
    BY <2>1 DEF Record
<1>2. CASE C = {}
  <2>1. NewSuffix(md, C) = LastSuffix(md) + 1
    BY <1>2 DEF NewSuffix
  <2>2. /\ LastSuffix(md) \in Int
        /\ LastSuffix(md) >= -1
        /\ \A i \in DOMAIN md : md[i].suffix <= LastSuffix(md)
    BY LastSuffixIsLast
  <2>3. /\ LastSuffix(md) + 1 \in Nat
        /\ \A i \in DOMAIN md : md[i].suffix < LastSuffix(md) + 1
    BY <1>1, <2>2
  <2> QED
    BY <1>2, <2>1, <2>3
<1>3. CASE C # {}
  <2>1. Min(C) \in DOMAIN md
    BY <1>3, FirstCandidate
  <2>2. NewSuffix(md, C) = md[Min(C)].suffix
    BY <1>3 DEF NewSuffix
  <2>3. NewSuffix(md, C) \in Nat
    BY <1>1, <2>1, <2>2
  <2> QED
    BY <1>3, <2>1, <2>2, <2>3
<1> QED
  BY <1>2, <1>3

\* find_proxyname settles on a record that lists the job.
LEMMA FirstListingLists ==
  ASSUME NEW md \in Seq(Record), NEW j, \E i \in DOMAIN md : Lists(md[i], j)
  PROVE  /\ FirstListing(md, j) \in DOMAIN md
         /\ Lists(md[FirstListing(md, j)], j)
<1> DEFINE S == {i \in DOMAIN md : Lists(md[i], j)}
<1>1. S \in SUBSET Nat /\ S # {}
  OBVIOUS
<1>2. Min(S) \in S
  <2> HIDE DEF S
  <2> QED
    BY <1>1, MinOfNaturals
<1> QED
  BY <1>2 DEF FirstListing

\* A record that is freed is a record still, and keeps its suffix.
LEMMA FreedIsRecord ==
  ASSUME NEW r \in Record
  PROVE  LET q == [r EXCEPT !.jobs = <<>>, !.voms = FALSE, !.next = 0, !.end = 0]
         IN  q \in Record /\ q.suffix = r.suffix /\ q.jobs = <<>> /\ q.voms = FALSE
<1> DEFINE q1 == [r EXCEPT !.jobs = <<>>]
           q2 == [q1 EXCEPT !.voms = FALSE]
           q3 == [q2 EXCEPT !.next = 0]
           q4 == [q3 EXCEPT !.end = 0]
<1>1. <<>> \in Seq(Jobs)
  OBVIOUS
<1>2. q1 \in Record /\ q1.suffix = r.suffix /\ q1.jobs = <<>>
  BY <1>1 DEF Record
<1> HIDE DEF q1
<1>3. q2 \in Record /\ q2.suffix = r.suffix /\ q2.jobs = <<>> /\ q2.voms = FALSE
  BY <1>2 DEF Record
<1> HIDE DEF q2
<1>4. q3 \in Record /\ q3.suffix = r.suffix /\ q3.jobs = <<>> /\ q3.voms = FALSE
  BY <1>3 DEF Record
<1> HIDE DEF q3
<1>5. q4 \in Record /\ q4.suffix = r.suffix /\ q4.jobs = <<>> /\ q4.voms = FALSE
  BY <1>4 DEF Record
<1> QED
  BY <1>5 DEF q3, q2, q1

\* What unregistering leaves of the jobs of a record: those up to the first
\* occurrence of the job, and those behind it moved up by one.
LEMMA WithoutJobShifts ==
  ASSUME NEW r \in Record, NEW j, Lists(r, j)
  PROVE  \E k \in 1..Len(r.jobs), rest \in Seq(Jobs) :
           /\ r.jobs[k] = j
           /\ Len(rest) = Len(r.jobs) - 1
           /\ \A i \in 1..(k - 1) : rest[i] = r.jobs[i]
           /\ \A i \in k..(Len(r.jobs) - 1) : rest[i] = r.jobs[i + 1]
           /\ WithoutJob(r, j) =
                IF rest = <<>>
                  THEN [r EXCEPT !.jobs = <<>>, !.voms = FALSE, !.next = 0, !.end = 0]
                  ELSE [r EXCEPT !.jobs = rest]
<1> DEFINE at == {i \in DOMAIN r.jobs : r.jobs[i] = j}
           n  == Len(r.jobs)
<1>1. r.jobs \in Seq(Jobs) /\ n \in Nat /\ DOMAIN r.jobs = 1..n
  BY DEF Record
<1>2. at \in SUBSET Nat /\ at # {}
  BY <1>1 DEF Lists
<1>3. PICK k \in at : k = Min(at)
  <2> HIDE DEF at
  <2> QED
    BY <1>2, MinOfNaturals
<1>4. k \in 1..n /\ r.jobs[k] = j
  BY <1>1, <1>3
<1> DEFINE front == SubSeq(r.jobs, 1, k - 1)
           back  == SubSeq(r.jobs, k + 1, n)
           rest  == front \o back
<1>5. /\ front \in Seq(Jobs) /\ Len(front) = k - 1
      /\ \A i \in 1..(k - 1) : front[i] = r.jobs[i]
  BY <1>1, <1>4
<1>6. /\ back \in Seq(Jobs) /\ Len(back) = n - k
      /\ \A i \in 1..(n - k) : back[i] = r.jobs[k + i]
  BY <1>1, <1>4
<1> HIDE DEF front, back
<1>7. /\ rest \in Seq(Jobs) /\ Len(rest) = n - 1
      /\ \A i \in 1..(k - 1) : rest[i] = r.jobs[i]
      /\ \A i \in k..(n - 1) : rest[i] = r.jobs[i + 1]
  <2>1. Len(rest) = n - 1 /\ rest \in Seq(Jobs)
    <3>1. rest \in Seq(Jobs) /\ Len(rest) = Len(front) + Len(back)
      BY <1>5, <1>6, ConcatProperties
    <3> QED
      BY <1>1, <1>4, <1>5, <1>6, <3>1
  <2>2. \A i \in 1..(k - 1) : rest[i] = r.jobs[i]
    BY <1>1, <1>4, <1>5, <1>6
  <2>3. \A i \in k..(n - 1) : rest[i] = r.jobs[i + 1]
    <3> SUFFICES ASSUME NEW i \in k..(n - 1) PROVE rest[i] = r.jobs[i + 1]
      OBVIOUS
    <3>1. i - (k - 1) \in 1..(n - k) /\ k + (i - (k - 1)) = i + 1
      BY <1>1, <1>4
    <3>2. back[i - (k - 1)] = r.jobs[i + 1]
      BY <1>6, <3>1
    <3>3. rest[i] = back[i - (k - 1)]
      BY <1>1, <1>4, <1>5, <1>6, SMTT(30)
    <3> QED
      BY <3>2, <3>3
  <2> QED
    BY <2>1, <2>2, <2>3
<1>8. WithoutJob(r, j) =
        IF rest = <<>>
          THEN [r EXCEPT !.jobs = <<>>, !.voms = FALSE, !.next = 0, !.end = 0]
          ELSE [r EXCEPT !.jobs = rest]
  BY <1>3 DEF WithoutJob, front, back
<1> HIDE DEF rest
<1> QED
  BY <1>4, <1>7, <1>8

\* Unregistering takes one place of the job off a record and leaves the other
\* jobs in it; the record of the last one becomes free.
LEMMA WithoutJobKeeps ==
  ASSUME NEW r \in Record, NEW j, Lists(r, j)
  PROVE  LET q == WithoutJob(r, j)
         IN  /\ q \in Record
             /\ q.suffix = r.suffix
             /\ Len(q.jobs) = Len(r.jobs) - 1
             /\ \A k \in Jobs : k # j => (Lists(q, k) <=> Lists(r, k))
             /\ q.jobs = <<>> => q.voms = FALSE
             /\ q.jobs # <<>> => /\ q.voms = r.voms /\ q.server = r.server
                                /\ q.next = r.next /\ q.end = r.end
<1> DEFINE n == Len(r.jobs)
<1>1. r.jobs \in Seq(Jobs) /\ n \in Nat /\ DOMAIN r.jobs = 1..n
  BY DEF Record
<1>2. PICK k \in 1..n, rest \in Seq(Jobs) :
        /\ r.jobs[k] = j
        /\ Len(rest) = n - 1
        /\ \A i \in 1..(k - 1) : rest[i] = r.jobs[i]
        /\ \A i \in k..(n - 1) : rest[i] = r.jobs[i + 1]
        /\ WithoutJob(r, j) =
             IF rest = <<>>
               THEN [r EXCEPT !.jobs = <<>>, !.voms = FALSE, !.next = 0, !.end = 0]
               ELSE [r EXCEPT !.jobs = rest]
  BY WithoutJobShifts
<1>3. \A x \in Jobs : x # j =>
        ((\E i \in DOMAIN rest : rest[i] = x) <=> Lists(r, x))
  <2> SUFFICES ASSUME NEW x \in Jobs, x # j
               PROVE  (\E i \in DOMAIN rest : rest[i] = x) <=> Lists(r, x)
    OBVIOUS
  <2>1. ASSUME NEW i \in DOMAIN rest, rest[i] = x
        PROVE  Lists(r, x)
    <3>1. i \in 1..(n - 1)
      BY <1>2
    <3>2. CASE i < k
      BY <1>1, <1>2, <2>1, <3>1, <3>2 DEF Lists
    <3>3. CASE i >= k
      <4>1. r.jobs[i + 1] = x /\ i + 1 \in 1..n
        BY <1>1, <1>2, <2>1, <3>1, <3>3
      <4> QED
        BY <1>1, <4>1 DEF Lists
    <3> QED
      BY <1>2, <3>1, <3>2, <3>3
  <2>2. ASSUME NEW i \in DOMAIN r.jobs, r.jobs[i] = x
        PROVE  \E m \in DOMAIN rest : rest[m] = x
    <3>1. i \in 1..n /\ i # k
      BY <1>1, <1>2, <2>2
    <3>2. CASE i < k
      <4>1. i \in DOMAIN rest /\ rest[i] = x
        BY <1>1, <1>2, <2>2, <3>1, <3>2
      <4> QED
        BY <4>1
    <3>3. CASE i > k
      <4>1. i - 1 \in DOMAIN rest /\ i - 1 \in k..(n - 1) /\ (i - 1) + 1 = i
        BY <1>1, <1>2, <3>1, <3>3
      <4>2. rest[i - 1] = x
        BY <1>2, <2>2, <4>1
      <4> QED
        BY <4>1, <4>2
    <3> QED
      BY <1>2, <3>1, <3>2, <3>3
  <2> QED
    BY <2>1, <2>2 DEF Lists
<1>4. CASE rest = <<>>
  <2>1. WithoutJob(r, j) =
          [r EXCEPT !.jobs = <<>>, !.voms = FALSE, !.next = 0, !.end = 0]
    BY <1>2, <1>4
  <2>2. /\ WithoutJob(r, j) \in Record
        /\ WithoutJob(r, j).suffix = r.suffix
        /\ WithoutJob(r, j).jobs = <<>>
        /\ WithoutJob(r, j).voms = FALSE
    BY <2>1, FreedIsRecord
  <2> QED
    BY <1>2, <1>3, <1>4, <2>2 DEF Lists
<1>5. CASE rest # <<>>
  <2>1. WithoutJob(r, j) = [r EXCEPT !.jobs = rest]
    BY <1>2, <1>5
  <2>2. WithoutJob(r, j) \in Record /\ WithoutJob(r, j).jobs = rest
    BY <1>2, <2>1 DEF Record
  <2>3. /\ WithoutJob(r, j).suffix = r.suffix
        /\ WithoutJob(r, j).voms = r.voms
        /\ WithoutJob(r, j).server = r.server
        /\ WithoutJob(r, j).next = r.next
        /\ WithoutJob(r, j).end = r.end
    BY <2>1 DEF Record
  <2> QED
    BY <1>2, <1>3, <1>5, <2>2, <2>3 DEF Lists
<1> QED
  BY <1>4, <1>5

\* A record stored under a suffix of the file, or above all of them, leaves
\* the file in ascending order.
LEMMA StoreRecordAscends ==
  ASSUME NEW md \in Seq(Record), NEW r \in Record,
         \A i, k \in DOMAIN md : i < k => md[i].suffix < md[k].suffix,
         \/ \E i \in DOMAIN md : md[i].suffix = r.suffix
         \/ \A i \in DOMAIN md : md[i].suffix < r.suffix
  PROVE  LET new == StoreRecord(md, r)
         IN  \A i, k \in DOMAIN new : i < k => new[i].suffix < new[k].suffix
<1> DEFINE new == StoreRecord(md, r)
<1>1. /\ new \in Seq(Record)
      /\ \A i \in DOMAIN md :
           i \in DOMAIN new /\ new[i] = IF md[i].suffix = r.suffix THEN r ELSE md[i]
      /\ \A i \in DOMAIN new \ DOMAIN md :
           /\ i = Len(md) + 1
           /\ new[i] = r
           /\ \A k \in DOMAIN md : md[k].suffix # r.suffix
  BY StoreRecordIsSeq
<1> HIDE DEF new
<1>2. \A i \in DOMAIN md : new[i].suffix = md[i].suffix
  BY <1>1
<1> SUFFICES ASSUME NEW i \in DOMAIN new, NEW k \in DOMAIN new, i < k
             PROVE  new[i].suffix < new[k].suffix
  BY DEF new
<1>3. i \in Nat /\ k \in Nat /\ DOMAIN md = 1..Len(md) /\ Len(md) \in Nat
  BY <1>1
<1>4. CASE k \in DOMAIN md
  <2>1. i \in DOMAIN md
    BY <1>1, <1>3, <1>4
  <2> QED
    BY <1>2, <1>4, <2>1
<1>5. CASE k \notin DOMAIN md
  <2>1. /\ k = Len(md) + 1 /\ new[k] = r
        /\ \A m \in DOMAIN md : md[m].suffix # r.suffix
    BY <1>1, <1>5
  <2>2. i \in DOMAIN md
    BY <1>1, <1>3, <2>1
  <2> QED
    BY <1>2, <2>1, <2>2
<1> QED
  BY <1>4, <1>5

\* update_db keeps a record a record with its suffix; it frees it or leaves its
\* jobs, and what it schedules is in time.
LEMMA UpdatedRecordKeeps ==
  ASSUME NEW r \in Record, NEW e \in Entry, NEW current \in Proxy \union {None},
         NEW now \in Nat
  PROVE  LET q == UpdatedRecord(r, e, current, now)
         IN  /\ q \in Record
             /\ q.suffix = r.suffix
             /\ \/ q.jobs = <<>> /\ q.voms = FALSE
                \/ /\ q.jobs = r.jobs /\ q.voms = r.voms /\ q.server = r.server
                   /\ \/ q.next = r.next /\ q.end = r.end
                      \/ q.next <= now \/ q.next + Limit <= q.end
<1>1. CASE Drops(r, e, now)
  <2>1. UpdatedRecord(r, e, current, now) =
          [r EXCEPT !.jobs = <<>>, !.voms = FALSE, !.next = 0, !.end = 0]
    BY <1>1 DEF UpdatedRecord
  <2> QED
    BY <2>1, FreedIsRecord
<1>2. CASE ~Drops(r, e, now)
  <2> DEFINE p == IF e.renewed THEN e.tmp ELSE current
  <2>1. p \in Proxy \union {None}
    BY DEF Entry
  <2>2. UpdatedRecord(r, e, current, now) = Retimed(r, p, now)
    BY <1>2 DEF UpdatedRecord
  <2> HIDE DEF p
  <2>3. CASE Usable(p, now)
    BY <2>1, <2>2, <2>3, RetimedKeeps, RetimedInTime
  <2>4. CASE ~Usable(p, now)
    BY <2>2, <2>4 DEF Retimed
  <2> QED
    BY <2>3, <2>4
<1> QED
  BY <1>1, <1>2

\* update_db keeps the file of a proxy that has not expired, renewed or not, and
\* every file it schedules the next renewal by.
LEMMA UpdatedFileKept ==
  ASSUME NEW r \in Record, NEW e \in Entry, NEW current \in Proxy \union {None},
         NEW now \in Nat, r.end >= now => current # None
  PROVE  /\ UpdatedFile(r, e, current, now) \in Proxy \union {None}
         /\ r.end >= now => UpdatedFile(r, e, current, now) # None
         /\ LET q == UpdatedRecord(r, e, current, now)
            IN  q.jobs # <<>> /\ q.end >= now =>
                  UpdatedFile(r, e, current, now) # None
<1>1. r.end \in Nat /\ e.tmp \in Proxy \union {None}
  BY DEF Record, Entry
<1>2. CASE Drops(r, e, now)
  <2>1. UpdatedFile(r, e, current, now) = None
    BY <1>2 DEF UpdatedFile
  <2>2. ~(r.end >= now)
    BY <1>1, <1>2 DEF Drops
  <2>3. UpdatedRecord(r, e, current, now) =
          [r EXCEPT !.jobs = <<>>, !.voms = FALSE, !.next = 0, !.end = 0]
    BY <1>2 DEF UpdatedRecord
  <2>4. UpdatedRecord(r, e, current, now).jobs = <<>>
    BY <2>3, FreedIsRecord
  <2> QED
    BY <2>1, <2>2, <2>4
<1>3. CASE ~Drops(r, e, now) /\ e.renewed /\ Usable(e.tmp, now)
  BY <1>1, <1>3 DEF UpdatedFile, Usable
<1>4. CASE ~Drops(r, e, now) /\ e.renewed /\ ~Usable(e.tmp, now)
  BY <1>1, <1>4 DEF UpdatedFile, UpdatedRecord, Retimed
<1>5. CASE ~Drops(r, e, now) /\ ~e.renewed
  <2>1. r.end >= now
    BY <1>1, <1>5 DEF Drops
  <2> QED
    BY <1>5, <2>1 DEF UpdatedFile
<1> QED
  BY <1>2, <1>3, <1>4, <1>5

-------------------------------------------------------------------------------
(* The walk of update_db.                                                  *)

\* The entry under the cursor after record i, if it was c before.
EntryFrom(md, entries, c, i) ==
  Min({k \in c..(Len(entries) + 1) :
         k > Len(entries) \/ entries[k].suffix >= md[i].suffix})

\* A recursive definition says what it seems to: the cursor starts at the first
\* entry and takes one step per record.
LEMMA CursorIsDefined ==
  ASSUME NEW md \in Seq(Record), NEW entries
  PROVE  LET cursor == Cursor(md, entries)
         IN  cursor = [i \in 0..Len(md) |->
                         IF i = 0 THEN 1 ELSE EntryFrom(md, entries, cursor[i - 1], i)]
<1> DEFINE Walk(f, n) ==
             f = [i \in 0..n |-> IF i = 0 THEN 1 ELSE EntryFrom(md, entries, f[i - 1], i)]
           S == {n \in 0..Len(md) : ~\E f : Walk(f, n)}
<1>1. S \in SUBSET Nat /\ Len(md) \in Nat
  OBVIOUS
<1>2. ASSUME S # {} PROVE FALSE
  <2>1. PICK n \in S : \A j \in S : n <= j
    <3> HIDE DEF S
    <3> QED
      BY <1>1, <1>2, MinOfNaturals
  <2>2. n \in 0..Len(md) /\ \A f : ~Walk(f, n)
    OBVIOUS
  <2>3. n # 0
    <3>1. Walk([i \in 0..0 |-> 1], 0)
      OBVIOUS
    <3> HIDE DEF Walk
    <3> QED
      BY <2>2, <3>1
  <2>4. PICK g : Walk(g, n - 1)
    <3>1. n - 1 \in 0..Len(md) /\ ~(n <= n - 1)
      BY <1>1, <2>2, <2>3
    <3>2. n - 1 \notin S
      <4> HIDE DEF S
      <4> QED
        BY <2>1, <3>1
    <3> QED
      BY <3>1, <3>2
  <2> DEFINE h == [i \in 0..n |-> IF i = n THEN EntryFrom(md, entries, g[n - 1], n)
                                  ELSE g[i]]
  <2>5. \A i \in 0..(n - 1) :
          g[i] = IF i = 0 THEN 1 ELSE EntryFrom(md, entries, g[i - 1], i)
    BY <2>4
  <2>6. ASSUME NEW i \in 0..n
        PROVE  h[i] = IF i = 0 THEN 1 ELSE EntryFrom(md, entries, h[i - 1], i)
    <3>1. i # 0 => h[i - 1] = g[i - 1]
      BY <1>1, <2>2
    <3>2. CASE i = n
      BY <2>3, <3>1, <3>2
    <3>3. CASE i # n
      <4>1. i \in 0..(n - 1)
        BY <1>1, <2>2, <3>3
      <4> QED
        BY <2>5, <3>1, <3>3, <4>1
    <3> QED
      BY <3>2, <3>3
  <2>7. Walk(h, n)
    <3>1. h = [i \in 0..n |-> h[i]]
      OBVIOUS
    <3> HIDE DEF h
    <3> QED
      BY <2>6, <3>1
  <2> HIDE DEF Walk, h
  <2> QED
    BY <2>2, <2>7
<1>3. \E f : Walk(f, Len(md))
  <2>1. Len(md) \in 0..Len(md) /\ Len(md) \notin S
    BY <1>1, <1>2
  <2> QED
    BY <2>1
<1> DEFINE cursor == CHOOSE f : Walk(f, Len(md))
<1>4. Walk(cursor, Len(md))
  <2> HIDE DEF Walk
  <2> QED
    BY <1>3
<1>5. Cursor(md, entries) = cursor
  BY DEF Cursor, EntryFrom
<1> QED
  BY <1>4, <1>5

\* The suffixes of the records of a list are natural numbers.
LEMMA RecordFields ==
  ASSUME NEW md \in Seq(Record)
  PROVE  /\ Len(md) \in Nat /\ DOMAIN md = 1..Len(md)
         /\ \A n \in 1..Len(md) : md[n].suffix \in Nat
<1>1. Len(md) \in Nat /\ DOMAIN md = 1..Len(md)
  OBVIOUS
<1>2. ASSUME NEW n \in 1..Len(md)
      PROVE  md[n].suffix \in Nat
  <2>1. md[n] \in Record
    OBVIOUS
  <2> QED
    BY <2>1 DEF Record
<1> QED
  BY <1>1, <1>2

\* The same of the entries of a request.
LEMMA EntryFields ==
  ASSUME NEW entries \in Seq(Entry)
  PROVE  /\ Len(entries) \in Nat /\ DOMAIN entries = 1..Len(entries)
         /\ \A k \in 1..Len(entries) : entries[k].suffix \in Nat
<1>1. Len(entries) \in Nat /\ DOMAIN entries = 1..Len(entries)
  OBVIOUS
<1>2. ASSUME NEW k \in 1..Len(entries)
      PROVE  entries[k].suffix \in Nat
  <2>1. entries[k] \in Entry
    OBVIOUS
  <2> QED
    BY <2>1 DEF Entry
<1> QED
  BY <1>1, <1>2

\* When record i has been read the cursor is past the entries of smaller
\* suffixes, and past no other.
LEMMA CursorWalks ==
  ASSUME NEW md \in Seq(Record), NEW entries \in Seq(Entry),
         \A i, k \in DOMAIN md : i < k => md[i].suffix < md[k].suffix,
         NEW i \in DOMAIN md
  PROVE  LET c == Cursor(md, entries)[i]
         IN  /\ c \in 1..(Len(entries) + 1)
             /\ \A k \in 1..(c - 1) : entries[k].suffix < md[i].suffix
             /\ c \in DOMAIN entries => entries[c].suffix >= md[i].suffix
<1> DEFINE C == Cursor(md, entries)
           L == Len(entries)
           Passed(n) == /\ C[n] \in 1..(L + 1)
                        /\ n # 0 => /\ \A k \in 1..(C[n] - 1) :
                                         entries[k].suffix < md[n].suffix
                                    /\ C[n] \in DOMAIN entries =>
                                         entries[C[n]].suffix >= md[n].suffix
           S == {n \in 0..Len(md) : ~Passed(n)}
<1>1. /\ Len(md) \in Nat /\ DOMAIN md = 1..Len(md)
      /\ \A n \in 1..Len(md) : md[n].suffix \in Nat
  BY RecordFields
<1>2. L \in Nat /\ DOMAIN entries = 1..L /\ \A k \in 1..L : entries[k].suffix \in Nat
  BY EntryFields
<1>3. C = [n \in 0..Len(md) |->
             IF n = 0 THEN 1 ELSE EntryFrom(md, entries, C[n - 1], n)]
  BY CursorIsDefined
<1> HIDE DEF C, L
<1>4. C[0] = 1 /\ \A n \in 1..Len(md) : C[n] = EntryFrom(md, entries, C[n - 1], n)
  BY <1>1, <1>3
<1>5. Passed(0)
  BY <1>2, <1>4
<1>6. ASSUME NEW n \in 1..Len(md), Passed(n - 1)
      PROVE  Passed(n)
  <2> DEFINE fit == {k \in C[n - 1]..(L + 1) :
                       k > L \/ entries[k].suffix >= md[n].suffix}
  <2>1. fit \in SUBSET Nat /\ fit # {}
    <3>1. L + 1 \in fit
      BY <1>2, <1>6
    <3>2. fit \in SUBSET Nat
      BY <1>2, <1>6
    <3> QED
      BY <3>1, <3>2
  <2>2. C[n] = Min(fit)
    BY <1>4 DEF EntryFrom, L
  <2>3. C[n] \in fit /\ \A k \in fit : C[n] <= k
    <3> HIDE DEF fit
    <3>1. Min(fit) \in fit /\ \A k \in fit : Min(fit) <= k
      BY <2>1, MinOfNaturals
    <3> QED
      BY <2>2, <3>1
  <2>4. /\ C[n] \in C[n - 1]..(L + 1)
        /\ C[n] \in DOMAIN entries => entries[C[n]].suffix >= md[n].suffix
    BY <1>2, <2>3
  <2>5. C[n] \in 1..(L + 1)
    BY <1>2, <1>6, <2>4
  <2>6. ASSUME NEW k \in 1..(C[n] - 1)
        PROVE  entries[k].suffix < md[n].suffix
    <3>1. k \in 1..L /\ k < C[n]
      BY <1>2, <2>5
    <3>2. CASE k >= C[n - 1]
      <4>1. k \notin fit
        BY <1>2, <2>3, <2>5, <3>1
      <4>2. k \in C[n - 1]..(L + 1) /\ ~(k > L)
        BY <1>2, <1>6, <3>1, <3>2
      <4>3. ~(entries[k].suffix >= md[n].suffix)
        BY <4>1, <4>2
      <4> QED
        BY <1>1, <1>2, <3>1, <4>3
    <3>3. CASE ~(k >= C[n - 1])
      <4>1. C[n - 1] \in 1..(L + 1) /\ k \in 1..(C[n - 1] - 1)
        BY <1>2, <1>6, <3>1, <3>3
      <4>2. n - 1 # 0
        BY <1>4, <4>1
      <4>3. entries[k].suffix < md[n - 1].suffix
        BY <1>6, <4>1, <4>2
      <4>4. n - 1 \in DOMAIN md /\ n \in DOMAIN md /\ n - 1 < n
        BY <1>1, <4>2
      <4>5. md[n - 1].suffix < md[n].suffix
        BY <4>4
      <4> QED
        BY <1>1, <1>2, <3>1, <4>3, <4>4, <4>5
    <3> QED
      BY <3>2, <3>3
  <2> QED
    BY <2>4, <2>5, <2>6
<1>7. ASSUME S # {} PROVE FALSE
  <2>1. S \in SUBSET Nat
    BY <1>1
  <2>2. PICK n \in S : \A j \in S : n <= j
    <3> HIDE DEF S
    <3> QED
      BY <1>7, <2>1, MinOfNaturals
  <2>3. n \in 0..Len(md) /\ ~Passed(n)
    BY <2>2
  <2>4. n # 0
    <3> HIDE DEF Passed
    <3> QED
      BY <1>5, <2>3
  <2>5. n \in 1..Len(md) /\ n - 1 \in 0..Len(md) /\ ~(n <= n - 1)
    BY <1>1, <2>3, <2>4
  <2>6. n - 1 \notin S
    <3> HIDE DEF S
    <3> QED
      BY <2>2, <2>5
  <2>7. Passed(n - 1)
    <3> HIDE DEF Passed
    <3> QED
      BY <2>5, <2>6
  <2> HIDE DEF Passed
  <2> QED
    BY <1>6, <2>3, <2>5, <2>7
<1>8. Passed(i) /\ i # 0
  <2>1. i \in 0..Len(md) /\ i \notin S /\ i # 0
    BY <1>1, <1>7
  <2> HIDE DEF Passed
  <2> QED
    BY <2>1
<1> QED
  BY <1>8 DEF C, L

\* update_db finds the record of every entry, if both come in order.
LEMMA EntryFound ==
  ASSUME NEW md \in Seq(Record), NEW entries \in Seq(Entry),
         \A i, k \in DOMAIN md : i < k => md[i].suffix < md[k].suffix,
         \A k, l \in DOMAIN entries : k < l => entries[k].suffix < entries[l].suffix,
         NEW i \in DOMAIN md, NEW k \in DOMAIN entries,
         md[i].suffix = entries[k].suffix
  PROVE  Applies(md, entries, i) /\ Cursor(md, entries)[i] = k
<1> DEFINE c == Cursor(md, entries)[i]
<1>1. /\ c \in 1..(Len(entries) + 1)
      /\ \A l \in 1..(c - 1) : entries[l].suffix < md[i].suffix
      /\ c \in DOMAIN entries => entries[c].suffix >= md[i].suffix
  BY CursorWalks
<1>2. Len(entries) \in Nat /\ DOMAIN entries = 1..Len(entries)
  OBVIOUS
<1>3. \A l \in DOMAIN entries : entries[l].suffix \in Nat
  <2>1. \A l \in DOMAIN entries : entries[l] \in Entry
    OBVIOUS
  <2> QED
    BY <2>1 DEF Entry
<1> HIDE DEF c
<1>4. ~(k < c)
  <2>1. k < c => k \in 1..(c - 1)
    BY <1>1, <1>2
  <2> QED
    BY <1>1, <1>3, <2>1
<1>5. c \in DOMAIN entries /\ c <= k
  BY <1>1, <1>2, <1>4
<1>6. ~(c < k)
  <2>1. c < k => entries[c].suffix < entries[k].suffix
    BY <1>5
  <2> QED
    BY <1>1, <1>3, <1>5, <2>1
<1>7. c = k
  BY <1>1, <1>2, <1>4, <1>6
<1> QED
  BY <1>5, <1>7 DEF c, Applies

==============================================================================
