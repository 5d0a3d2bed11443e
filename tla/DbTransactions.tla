----------------------------- MODULE DbTransactions -----------------------------
(***************************************************************************)
(* The database layer, org.glite.lbjp-utils.db/src/db.c: one context with  *)
(* its connection to MySQL, transactions, single inserts as text or as a   *)
(* prepared statement, and buffered inserts, while the connection is lost  *)
(* and made again.                                                         *)
(*                                                                         *)
(* The MySQL server and its client library are external.  The library      *)
(* connects again by itself, but not while the server's last answer said   *)
(* that a transaction was open; a new session commits each statement.      *)
(***************************************************************************)
EXTENDS Integers, Sequences, FiniteSets

CONSTANTS Rows,         \* a row is its primary key
          Theirs,       \* rows other programs may insert
          RecordLimit,  \* record_limit of bufferedInsertInit, 0 for none
          SizeLimited,  \* size_limit is given too
          Faults        \* what may go wrong

ASSUME DbAssumption ==
  /\ IsFiniteSet(Rows) /\ Theirs \subseteq Rows
  /\ RecordLimit \in Nat
  /\ SizeLimited \in BOOLEAN
  /\ Faults \subseteq {"lost",     \* connections break
                      "refused",  \* the server does not take a new one
                      "error"}    \* a statement fails, or is a deadlock's victim

VARIABLES table,    \* the rows that are committed
          session,  \* the session at the server
          online,   \* the library has not noticed its end
          inTrans,  \* server_status: SERVER_STATUS_IN_TRANS
          stmt,     \* a prepared insert: none, ready, or of a dead session
          status,   \* ctx->err.code
          batch,    \* the bufInsert
          call,     \* the call in progress
          phase,    \* the caller: out of a transaction, in, or to roll back
          told,     \* history: rows reported as inserted in the transaction
          unbegun,  \* history: Transaction has returned 0 without one
          astray    \* history: a statement that failed at an end of a transaction
                    \* has left the session without AUTOCOMMIT

vars == <<table, session, online, inTrans, stmt, status, batch, call, phase,
          told, unbegun, astray>>

Session == [live : BOOLEAN,
            auto : BOOLEAN,          \* AUTOCOMMIT
            tx : BOOLEAN,            \* a transaction is open
            pending : SUBSET Rows]   \* its rows
Fresh == [live |-> TRUE, auto |-> TRUE, tx |-> FALSE, pending |-> {}]
Dead == [Fresh EXCEPT !.live = FALSE]

Batch == [open : BOOLEAN,
          rows : SUBSET Rows,    \* bi->rows, bi->rec_num of them
          given : SUBSET Rows,   \* history: all the rows since Init
          sound : BOOLEAN]       \* history: none has been lost
Closed == [open |-> FALSE, rows |-> {}, given |-> {}, sound |-> TRUE]

Commands == {"auto0", "begin", "commit", "rollback", "auto1", "insert", "prepare"}
Call == [op : {"none", "begin", "commit", "rollback", "insert", "prepare", "exec",
               "flush", "close"},
         cmds : Seq(Commands),   \* those to send
         rows : SUBSET Rows,     \* of the insert
         again : BOOLEAN]        \* retry_nr > 0
Calling(op, cmds, rows) == [op |-> op, cmds |-> cmds, rows |-> rows, again |-> FALSE]
NoCall == Calling("none", <<>>, {})

Init ==
  /\ table = {}
  /\ session = Fresh /\ online = TRUE /\ inTrans = FALSE
  /\ stmt = "none" /\ status = "ok"
  /\ batch = Closed /\ call = NoCall
  /\ phase = "out" /\ told = {} /\ unbegun = FALSE /\ astray = FALSE

\* The rows of a batch fit in the array bufferedInsertInit allocates, if it has
\* a limit: without one the array has no room, and the first row is written
\* past it (db.c:608, 655), of which the model tells nothing more.
TypeOK ==
  /\ table \subseteq Rows
  /\ session \in Session
  /\ online \in BOOLEAN /\ inTrans \in BOOLEAN
  /\ stmt \in {"none", "ready", "dead"}
  /\ status \in {"ok", "EEXIST", "EIO"}
  /\ batch \in Batch /\ (RecordLimit # 0 => Cardinality(batch.rows) <= RecordLimit)
  /\ call \in Call
  /\ phase \in {"out", "in", "failed"}
  /\ told \subseteq Rows
  /\ unbegun \in BOOLEAN /\ astray \in BOOLEAN

-------------------------------------------------------------------------------
(* The server: a command in session s. *)

Commits(cmd) == cmd \in {"begin", "commit", "auto1"}
Holds(s) == s.tx \/ ~s.auto
Clashes(rows, s) == rows \intersect (table \union s.pending) # {}

After(cmd, rows, s) ==
  [live |-> TRUE,
   auto |-> cmd # "auto0" /\ (cmd = "auto1" \/ s.auto),
   tx |-> \/ cmd = "begin"
          \/ cmd = "insert" /\ Holds(s)
          \/ cmd \in {"auto0", "prepare"} /\ s.tx,
   pending |-> CASE cmd = "insert" /\ Holds(s) -> s.pending \union rows
                 [] cmd = "rollback" \/ Commits(cmd) -> {}
                 [] OTHER -> s.pending]

\* The rows everybody sees then.
Visible(cmd, rows, s) ==
  CASE Commits(cmd) -> table \union s.pending
    [] cmd = "insert" /\ ~Holds(s) -> table \union rows
    [] OTHER -> table

-------------------------------------------------------------------------------
(* The ends of calls. *)

\* Faulty: a batch clears every error code of its statement, not only EEXIST.
CodeForgiving(op, r) ==
  CASE r = "lost" -> IF op \in {"exec", "prepare"} THEN status ELSE "ok"
    [] r # "lost" /\ op \in {"flush", "close"} -> "ok"
    [] OTHER -> r

\* The context's error code when the last statement of a call came to r.  A
\* second loss sets none: ExecSQL has cleared it, the prepared statements leave
\* it as it was.
Code(op, r) ==
  CASE r = "lost" -> IF op \in {"exec", "prepare"} THEN status ELSE "ok"
    [] r = "EEXIST" /\ op \in {"flush", "close"} -> "ok"
    [] OTHER -> r

\* What the caller learns: ExecSQL and ExecStmt return -1, the others the code.
Learns(op, r) ==
  IF r = "lost" /\ op \in {"insert", "exec"} THEN "EIO" ELSE Code(op, r)

\* Why the rows of a batch's statement need not be stored: the caller learns of
\* an error, the statement was lost twice, or a row of it existed.  (A duplicate
\* may be the statement itself, whose first answer was lost.)
Excused(op, rows, r) ==
  \/ Code(op, r) # "ok"
  \/ r = "lost"
  \/ r = "EEXIST" /\ ~(rows \subseteq table)

\* The counters are reset whatever became of the rows.  A batch sent while the
\* session is astray is not committed.
Batched(op, rows, r) ==
  CASE op = "flush" ->
         [batch EXCEPT !.rows = {}, !.sound = @ /\ ~astray /\ ~Excused(op, rows, r)]
    [] op = "close" ->
         [batch EXCEPT !.rows = {}, !.sound = @ /\ ~astray /\ ~Excused(op, rows, r),
                       !.open = Code(op, r) # "ok"]
    [] op = "rollback" \/ (op = "commit" /\ Code(op, r) # "ok") ->
         [batch EXCEPT !.sound = FALSE]
    [] OTHER -> batch

Phase(op, r) ==
  CASE op = "begin" -> IF Learns(op, r) = "ok" THEN "in" ELSE "out"
    [] op \in {"commit", "rollback"} -> "out"
    [] OTHER -> IF phase = "in" /\ Learns(op, r) = "EIO" THEN "failed" ELSE phase

Return(r) ==
  /\ call' = NoCall
  /\ status' = Code(call.op, r)
  /\ batch' = Batched(call.op, call.rows, r)
  /\ phase' = Phase(call.op, r)
  /\ told' = IF call.op \in {"begin", "commit", "rollback"} THEN {}
             ELSE told \union IF phase = "in" /\ r = "ok" THEN call.rows ELSE {}
  /\ unbegun' = CASE call.op = "begin" -> r = "lost"
                  [] call.op \in {"commit", "rollback"} -> FALSE
                  [] OTHER -> unbegun

\* A statement succeeded: the next one of the call, or its end.
GoOn ==
  IF Len(call.cmds) > 1
  THEN /\ call' = [call EXCEPT !.cmds = Tail(@), !.again = FALSE]
       /\ UNCHANGED <<status, batch, phase, told, unbegun>>
  ELSE Return("ok")

-------------------------------------------------------------------------------
(* mysql_query() in the loop of ExecSQL, and mysql_stmt_execute(). *)

Broken == IF stmt = "ready" THEN "dead" ELSE stmt

\* The session the command comes to.  A prepared statement makes no new one.
Reached ==
  IF online /\ session.live
  THEN IF call.op = "exec" /\ stmt # "ready" THEN {} ELSE {session}
  ELSE IF inTrans \/ call.op = "exec" THEN {} ELSE {Fresh}

Answered ==
  /\ call.cmds # <<>>
  /\ \E s \in Reached :
       LET cmd == Head(call.cmds)
       IN  /\ cmd = "insert" => ~Clashes(call.rows, s)
           /\ table' = Visible(cmd, call.rows, s)
           /\ session' = After(cmd, call.rows, s)
           /\ inTrans' = session'.tx
  /\ online' = TRUE
  /\ GoOn
  /\ stmt' = IF call.op = "prepare" THEN "ready" ELSE stmt
  /\ astray' = (astray /\ Head(call.cmds) # "begin")

Duplicate ==
  /\ call.cmds # <<>> /\ Head(call.cmds) = "insert"
  /\ \E s \in Reached : Clashes(call.rows, s) /\ session' = s
  /\ online' = TRUE
  /\ Return("EEXIST")
  /\ UNCHANGED <<table, inTrans, stmt, astray>>

\* Another error, of any statement; InnoDB rolls back the transaction of a
\* deadlock's victim.
StatementFails ==
  /\ "error" \in Faults
  /\ call.cmds # <<>>
  /\ \E s \in Reached : session' \in {s, [s EXCEPT !.tx = FALSE, !.pending = {}]}
  /\ online' = TRUE
  /\ astray' = /\ session'.tx \/ ~session'.auto
               /\ astray \/ Head(call.cmds) \notin {"insert", "prepare"}
  /\ Return("EIO")
  /\ UNCHANGED <<table, inTrans, stmt>>

\* CR_SERVER_LOST: once more, unless it was the second time.
Retry ==
  IF call.again \/ call.op = "exec"
  THEN Return("lost")
  ELSE /\ call' = [call EXCEPT !.again = TRUE]
       /\ UNCHANGED <<status, batch, phase, told, unbegun>>

\* The connection breaks before the server runs the command, or before its
\* answer arrives.
Lost ==
  /\ "lost" \in Faults
  /\ call.cmds # <<>>
  /\ \E s \in Reached :
       LET cmd == Head(call.cmds)
       IN  \/ UNCHANGED table
           \/ /\ cmd = "insert" => ~Clashes(call.rows, s)
              /\ table' = Visible(cmd, call.rows, s)
  /\ session' = Dead /\ online' = FALSE /\ stmt' = Broken /\ astray' = FALSE
  /\ Retry
  /\ UNCHANGED inTrans

\* The command was written to a connection the server has ended, or belongs to
\* a prepared statement of an earlier session.
LostAlready ==
  /\ call.cmds # <<>>
  /\ \/ online /\ ~session.live /\ online' = FALSE
     \/ call.op = "exec" /\ Reached = {} /\ ~(online /\ ~session.live)
        /\ UNCHANGED online
  /\ Retry
  /\ UNCHANGED <<table, session, inTrans, stmt, astray>>

\* Faulty: an error does not keep the call from its next statement.
GoneGoesOn ==
  /\ call.cmds # <<>> /\ call.op # "exec"
  /\ ~(online /\ session.live) /\ inTrans
  /\ inTrans' = FALSE /\ online' = FALSE
  /\ IF Len(call.cmds) > 1 THEN GoOn ELSE Return("EIO")
  /\ UNCHANGED <<table, session, stmt, astray>>

\* CR_SERVER_GONE_ERROR: no new session in the middle of a transaction.
Gone ==
  /\ call.cmds # <<>> /\ call.op # "exec"
  /\ ~(online /\ session.live) /\ inTrans
  /\ inTrans' = FALSE /\ online' = FALSE
  /\ Return("EIO")
  /\ UNCHANGED <<table, session, stmt, astray>>

Refused ==
  /\ "refused" \in Faults
  /\ call.cmds # <<>> /\ call.op # "exec"
  /\ ~(online /\ session.live) /\ ~inTrans
  /\ online' = FALSE
  /\ Return("EIO")
  /\ UNCHANGED <<table, session, inTrans, stmt, astray>>

Step == Answered \/ Duplicate \/ StatementFails \/ Lost \/ LostAlready \/ Gone \/ Refused

-------------------------------------------------------------------------------
(* The calls of the layer.  A caller who learns of an error in a transaction *)
(* rolls it back, but for duplicates, and closes its batch before it commits. *)

Starts(op, cmds, rows) ==
  /\ call = NoCall
  /\ call' = Calling(op, cmds, rows)
  /\ UNCHANGED <<table, session, online, inTrans, stmt, status, phase, told,
                 unbegun, astray>>

Transaction == /\ phase = "out" /\ ~batch.open
               /\ Starts("begin", <<"auto0", "begin">>, {})
               /\ UNCHANGED batch

\* Faulty: leaves AUTOCOMMIT off.
CommitOnly == /\ phase = "in" /\ ~batch.open
              /\ Starts("commit", <<"commit">>, {})
              /\ UNCHANGED batch

Commit == /\ phase = "in" /\ ~batch.open
          /\ Starts("commit", <<"commit", "auto1">>, {})
          /\ UNCHANGED batch

\* Faulty: switches AUTOCOMMIT on first, which commits.
RollbackLate == /\ phase \in {"in", "failed"}
                /\ Starts("rollback", <<"auto1", "rollback">>, {})
                /\ UNCHANGED batch

Rollback == /\ phase \in {"in", "failed"}
            /\ Starts("rollback", <<"rollback", "auto1">>, {})
            /\ UNCHANGED batch

ExecSQL(r) == /\ phase # "failed"
              /\ Starts("insert", <<"insert">>, {r})
              /\ UNCHANGED batch

PrepareStmt == /\ phase # "failed" /\ stmt = "none"
               /\ Starts("prepare", <<"prepare">>, {})
               /\ UNCHANGED batch

ExecStmt(r) == /\ phase # "failed" /\ stmt # "none"
               /\ Starts("exec", <<"insert">>, {r})
               /\ UNCHANGED batch

FreeStmt == /\ call = NoCall /\ stmt # "none"
            /\ stmt' = "none"
            /\ UNCHANGED <<table, session, online, inTrans, status, batch, call,
                           phase, told, unbegun, astray>>

bufferedInsertInit ==
  /\ phase # "failed" /\ ~batch.open /\ call = NoCall
  /\ batch' = [open |-> TRUE, rows |-> {}, given |-> {}, sound |-> TRUE]
  /\ status' = "ok"
  /\ UNCHANGED <<table, session, online, inTrans, stmt, call, phase, told,
                 unbegun, astray>>

\* Faulty: tests the limit before it counts the row.
FullBefore(rows) == RecordLimit # 0 /\ Cardinality(rows) > RecordLimit

Full(rows) == RecordLimit # 0 /\ Cardinality(rows) >= RecordLimit

bufferedInsert(r) ==
  LET rows == batch.rows \union {r}
  IN
  /\ phase # "failed" /\ batch.open /\ r \notin batch.rows /\ call = NoCall
  /\ batch' = [batch EXCEPT !.rows = rows, !.given = @ \union {r}]
  /\ \/ /\ Full(rows) \/ SizeLimited
        /\ call' = Calling("flush", <<"insert">>, rows)
        /\ UNCHANGED status
     \/ /\ ~Full(rows)
        /\ status' = "ok"
        /\ UNCHANGED call
  /\ UNCHANGED <<table, session, online, inTrans, stmt, phase, told, unbegun, astray>>

\* With nothing buffered it returns the code that is there.
bufferedInsertClose ==
  /\ phase # "failed" /\ batch.open /\ call = NoCall
  /\ IF batch.rows # {}
     THEN Starts("close", <<"insert">>, batch.rows) /\ UNCHANGED batch
     ELSE /\ batch' = [batch EXCEPT !.open = status # "ok"]
          /\ UNCHANGED <<table, session, online, inTrans, stmt, status, call,
                         phase, told, unbegun, astray>>

-------------------------------------------------------------------------------
\* An idle session ends: a timeout, or the server restarts.
SessionEnds ==
  /\ "lost" \in Faults /\ session.live
  /\ session' = Dead /\ stmt' = Broken /\ astray' = FALSE
  /\ UNCHANGED <<table, online, inTrans, status, batch, call, phase, told, unbegun>>

\* Another program inserts a row.
Others(r) ==
  /\ r \notin table \union session.pending
  /\ table' = table \union {r}
  /\ UNCHANGED <<session, online, inTrans, stmt, status, batch, call, phase,
                 told, unbegun, astray>>

Caller == \/ Transaction \/ Commit \/ Rollback \/ PrepareStmt \/ FreeStmt
          \/ bufferedInsertInit \/ bufferedInsertClose
          \/ \E r \in Rows : ExecSQL(r) \/ ExecStmt(r) \/ bufferedInsert(r)

Next == Caller \/ Step \/ SessionEnds \/ \E r \in Theirs : Others(r)

Spec == Init /\ [][Next]_vars

-------------------------------------------------------------------------------
(***************************************************************************)
(* When Commit returns 0, every row that a call of its transaction         *)
(* reported as inserted is in the table: also when the connection broke    *)
(* and was made again in between (db.c:207-214, 358-380).                  *)
(***************************************************************************)
CommitKept ==
  [][call.op = "commit" /\ call'.op = "none" /\ status' = "ok" =>
       told \subseteq table']_vars

(***************************************************************************)
(* Outside transactions the live session commits each statement: no way    *)
(* out of Transaction, Commit and Rollback leaves AUTOCOMMIT off, after    *)
(* which inserts would be reported and never committed (db.c:197-224); but *)
(* a statement of one of them that fails on the live connection does so,   *)
(* until the next Transaction (db.c:200, 209, 219).                        *)
(***************************************************************************)
AutoRestored ==
  phase = "out" /\ call = NoCall /\ session.live /\ ~astray =>
    session.auto /\ ~session.tx

(***************************************************************************)
(* A batch whose calls all returned 0 is in the table, once its            *)
(* transaction, if any, is committed; except rows of a statement with a    *)
(* duplicate, of one lost twice, and of one sent after a statement of      *)
(* Transaction, Commit or Rollback has failed and left AUTOCOMMIT off      *)
(* (db.c:616-688).                                                         *)
(***************************************************************************)
BatchKept ==
  phase = "out" /\ ~batch.open /\ batch.sound => batch.given \subseteq table

\* A transaction that Transaction has really begun.
Open == phase # "out" /\ ~unbegun

Abstract == INSTANCE AtomicTable WITH
  open <- Open,
  rows <- IF Open THEN told ELSE {},
  asked <- Open /\ call.op = "commit"

(***************************************************************************)
(* Transactions are atomic: no row of an open one is seen before Commit is *)
(* called, then all are or none; a Rollback leaves none (db.c:197-224).    *)
(* What a Commit or Rollback that fails on the live connection leaves open *)
(* is open no more for its caller, and the next Transaction commits it.    *)
(***************************************************************************)
IsAtomic == Abstract!Spec
===============================================================================
