-------------------------- MODULE DbTransactions_proofs --------------------------
(* Theorems about DbTransactions: its types, AUTOCOMMIT after a transaction,  *)
(* the rows of batches and transactions, and that it implements AtomicTable.  *)
EXTENDS DbTransactions, FiniteSetTheorems, TLAPS

-------------------------------------------------------------------------------
(* The inductive invariant. *)

Ending == {"commit", "rollback"}

\* The commands a call still has to send.
Shape ==
  \/ call = NoCall
  \/ /\ call.op = "begin" /\ call.rows = {}
     /\ call.cmds \in {<<"auto0", "begin">>, <<"begin">>}
  \/ /\ call.op \in Ending /\ call.rows = {}
     /\ call.cmds \in {<<call.op, "auto1">>, <<"auto1">>}
  \/ call.op = "prepare" /\ call.rows = {} /\ call.cmds = <<"prepare">>
  \/ call.op \in {"insert", "exec"} /\ call.cmds = <<"insert">>
  \/ /\ call.op \in {"flush", "close"} /\ call.cmds = <<"insert">>
     /\ call.rows = batch.rows /\ batch.open

\* The calls the caller may have made where it stands.
Placed ==
  /\ call.op = "begin" => phase = "out"
  /\ call.op = "commit" => phase = "in"
  /\ call.op = "rollback" => phase # "out"
  /\ phase = "failed" => call.op \in {"none", "rollback"}
  /\ call.op \in {"begin", "commit"} => ~batch.open

\* What library and server agree on.
Sane ==
  /\ session.live => online
  /\ ~session.live => session = Dead
  /\ ~session.tx => session.pending = {}
  /\ session.tx => inTrans
  /\ call.again /\ call.op # "exec" => ~online

Idle == ~session.tx /\ ~inTrans
Plain == session.auto /\ ~session.tx

\* The transaction is open, or its end has not been noticed.
Running == inTrans /\ (session.live => session.tx /\ session.pending = told)

Outside == phase = "out" => /\ told = {} /\ ~unbegun
                            /\ call.op # "begin" => Plain \/ astray

NeverBegun == unbegun => Plain /\ told \subseteq table

Inside ==
  phase = "in" /\ ~unbegun =>
    /\ call.op \notin Ending => Running
    /\ call.op = "commit" => \/ call.cmds = <<"commit", "auto1">> /\ Running
                             \/ call.cmds = <<"auto1">> /\ Idle /\ told \subseteq table

RolledBack == call.op = "rollback" /\ call.cmds = <<"auto1">> => Idle

Stored ==
  /\ batch.sound => batch.given \subseteq table \union batch.rows \union told
  /\ ~batch.open => batch.rows = {}

Fits(rows) == RecordLimit # 0 => Cardinality(rows) < RecordLimit

Counted == call.op # "flush" => Fits(batch.rows)

IInv == /\ TypeOK /\ Shape /\ Placed /\ Sane /\ Outside /\ NeverBegun /\ Inside
        /\ RolledBack /\ Stored /\ Counted

-------------------------------------------------------------------------------
(* Lemmas. *)

LEMMA CommandFacts ==
  \A a, b \in Commands :
    /\ <<a>> # <<>> /\ Len(<<a>>) = 1 /\ Head(<<a>>) = a
    /\ <<a, b>> # <<>> /\ Len(<<a, b>>) = 2 /\ Head(<<a, b>>) = a
    /\ Tail(<<a, b>>) = <<b>> /\ <<a>> # <<a, b>>
  OBVIOUS

LEMMA NoCallFacts ==
  /\ NoCall \in Call /\ NoCall.op = "none" /\ NoCall.rows = {}
  /\ NoCall.cmds = <<>> /\ NoCall.again = FALSE
<1>1. <<>> \in Seq(Commands)
  OBVIOUS
<1> QED
  BY <1>1 DEF NoCall, Calling, Call

LEMMA SessionFacts ==
  /\ Fresh \in Session /\ Fresh.live /\ Fresh.auto /\ ~Fresh.tx /\ Fresh.pending = {}
  /\ Dead \in Session /\ ~Dead.live /\ Dead.auto /\ ~Dead.tx /\ Dead.pending = {}
  BY DEF Fresh, Dead, Session

LEMMA RowsFinite ==
  ASSUME NEW R \in SUBSET Rows
  PROVE  /\ IsFiniteSet(R) /\ Cardinality(R) \in Nat
         /\ \A r \in Rows \ R : Cardinality(R \union {r}) = Cardinality(R) + 1
<1>1. IsFiniteSet(R)
  BY DbAssumption, FS_Subset
<1> QED
  BY <1>1, FS_CardinalityType, FS_AddElement

LEMMA NoRows == Cardinality({}) = 0
  BY FS_EmptySet

LEMMA InitInv == Init => IInv
<1> SUFFICES ASSUME Init PROVE IInv
  OBVIOUS
<1>1. TypeOK
  <2>1. batch \in Batch /\ batch.rows = {}
    BY DEF Init, Closed, Batch
  <2>2. RecordLimit # 0 => Cardinality(batch.rows) <= RecordLimit
    BY <2>1, NoRows, DbAssumption
  <2>3. call \in Call /\ session \in Session
    BY SessionFacts, NoCallFacts DEF Init
  <2> QED
    BY <2>1, <2>2, <2>3 DEF Init, TypeOK
<1>2. Shape /\ Placed /\ RolledBack
  BY NoCallFacts DEF Init, Shape, Placed, RolledBack
<1>3. Sane /\ Outside /\ NeverBegun /\ Inside
  BY SessionFacts, NoCallFacts
     DEF Init, Sane, Outside, NeverBegun, Inside, Plain, Idle
<1>4. Stored /\ Counted
  BY NoRows, DbAssumption DEF Init, Stored, Counted, Fits, Closed
<1> QED
  BY <1>1, <1>2, <1>3, <1>4 DEF IInv

\* What a command may leave of the server and the library.
Left == /\ table' \subseteq Rows /\ table \subseteq table'
        /\ session' \in Session
        /\ online' \in BOOLEAN /\ inTrans' \in BOOLEAN /\ astray' \in BOOLEAN
        /\ stmt' \in {"none", "ready", "dead"}
        /\ session'.live => online'
        /\ ~session'.live => session' = Dead
        /\ ~session'.tx => session'.pending = {}
        /\ session'.tx => inTrans'

Results == {"ok", "EEXIST", "EIO", "lost"}

\* Why a call may return.
Justified(r) ==
  /\ call.op = "begin" =>
       IF Learns(call.op, r) = "ok" /\ r # "lost"
       THEN inTrans' /\ (session'.live => session'.tx /\ session'.pending = {})
       ELSE Plain' \/ (astray' /\ r # "lost")
  /\ call.op \in Ending => Plain' \/ astray'
  /\ call.op = "commit" /\ Code(call.op, r) = "ok" => told \subseteq table
  /\ call.op \notin Ending \union {"begin"} =>
       /\ phase = "out" => /\ Plain' \/ astray'
                           /\ r = "ok" /\ ~astray => call.rows \subseteq table'
       /\ unbegun => Plain' /\ (r = "ok" => call.rows \subseteq table')
       /\ phase = "in" /\ ~unbegun /\ Learns(call.op, r) # "EIO" =>
            /\ inTrans'
            /\ session'.live =>
                 /\ session'.tx
                 /\ session'.pending = told \union IF r = "ok" THEN call.rows ELSE {}

LEMMA Returned ==
  ASSUME IInv, NEW r \in Results, call.op # "none", Return(r), Left, Justified(r)
  PROVE  IInv'
<1> USE DEF IInv
<1>1. /\ call \in Call /\ call.op \in {"begin", "commit", "rollback", "insert",
                                       "prepare", "exec", "flush", "close"}
      /\ call.rows \subseteq Rows /\ batch \in Batch /\ told \subseteq Rows
      /\ phase \in {"out", "in", "failed"} /\ status \in {"ok", "EEXIST", "EIO"}
      /\ unbegun \in BOOLEAN
  BY DEF TypeOK, Call
<1>2. /\ call' = NoCall /\ call'.op = "none" /\ call'.cmds = <<>> /\ ~call'.again
  BY NoCallFacts DEF Return
<1>3. status' \in {"ok", "EEXIST", "EIO"}
  BY <1>1 DEF Return, Code, Results
<1>4. batch' \in Batch /\ batch'.given = batch.given /\ batch'.rows \in {{}, batch.rows}
  BY <1>1 DEF Return, Batched, Batch
<1>5. Fits(batch'.rows)
  <2>1. CASE call.op = "flush"
    <3>1. batch'.rows = {}
      BY <1>1, <2>1 DEF Return, Batched, Batch
    <3> QED
      BY <3>1, NoRows, DbAssumption DEF Fits
  <2>2. CASE call.op # "flush"
    BY <1>4, <2>2, NoRows, DbAssumption DEF Counted, Fits
  <2> QED
    BY <2>1, <2>2
<1>6. phase' \in {"out", "in", "failed"} /\ told' \subseteq Rows /\ unbegun' \in BOOLEAN
  BY <1>1 DEF Return, Phase
<1>7. TypeOK'
  <2>1. batch'.rows \subseteq Rows
    BY <1>4 DEF Batch
  <2>2. \A x, y \in Int : x < y => x <= y
    OBVIOUS
  <2>3. Cardinality(batch'.rows) \in Nat /\ RecordLimit \in Nat
    BY <2>1, RowsFinite, DbAssumption
  <2> QED
    BY <1>2, <1>3, <1>4, <1>5, <1>6, <2>2, <2>3, NoCallFacts DEF TypeOK, Left, Fits
<1>8. Shape' /\ RolledBack' /\ Counted'
  BY <1>2, <1>5 DEF Shape, RolledBack, Counted
<1>9. Placed'
  BY <1>2 DEF Placed
<1>10. Sane'
  BY <1>2 DEF Sane, Left
<1>11. Outside' /\ NeverBegun' /\ Inside'
  <2>1. CASE call.op = "begin"
    <3>1. /\ phase = "out" /\ told' = {}
          /\ unbegun' = (r = "lost")
          /\ phase' = IF Learns(call.op, r) = "ok" THEN "in" ELSE "out"
      BY <2>1 DEF Return, Phase, Placed
    <3>2. r = "lost" => Learns(call.op, r) = "ok"
      BY <2>1 DEF Learns, Code
    <3>3. CASE Learns(call.op, r) = "ok" /\ r # "lost"
      <4>1. inTrans' /\ (session'.live => session'.tx /\ session'.pending = {})
        BY <2>1, <3>3 DEF Justified
      <4>2. phase' = "in" /\ unbegun' = FALSE
        BY <3>1, <3>3
      <4> QED
        BY <1>2, <3>1, <4>1, <4>2 DEF Outside, NeverBegun, Inside, Running, Ending
    <3>4. CASE ~(Learns(call.op, r) = "ok" /\ r # "lost")
      <4>1. Plain' \/ (astray' /\ r # "lost")
        BY <2>1, <3>4 DEF Justified
      <4>2. phase' = "out" \/ unbegun'
        BY <3>1, <3>4
      <4>3. /\ phase' = "out" => ~unbegun'
            /\ unbegun' => r = "lost"
        BY <3>1, <3>2
      <4> QED
        BY <1>2, <3>1, <4>1, <4>2, <4>3 DEF Outside, NeverBegun, Inside
    <3> QED
      BY <3>3, <3>4
  <2>2. CASE call.op \in Ending
    <3>1. phase' = "out" /\ told' = {} /\ unbegun' = FALSE
      <4>1. Phase(call.op, r) = "out"
        BY <2>2 DEF Phase, Ending
      <4>2. told' = {} /\ unbegun' = FALSE
        <5>1. CASE call.op = "commit"
          BY <5>1 DEF Return
        <5>2. CASE call.op = "rollback"
          BY <5>2 DEF Return
        <5> QED
          BY <2>2, <5>1, <5>2 DEF Ending
      <4> QED
        BY <4>1, <4>2 DEF Return
    <3> QED
      BY <2>2, <3>1 DEF Justified, Outside, NeverBegun, Inside
  <2>3. CASE call.op \notin Ending \union {"begin"}
    <3>1. /\ unbegun' = unbegun
          /\ phase' = IF phase = "in" /\ Learns(call.op, r) = "EIO" THEN "failed" ELSE phase
          /\ told' = IF phase = "in" /\ r = "ok" THEN told \union call.rows ELSE told
      BY <2>3 DEF Return, Phase, Ending
    <3>2. phase \in {"out", "in"}
      BY <1>1, <2>3 DEF Placed, Ending
    <3>3. CASE phase = "out"
      BY <1>2, <2>3, <3>1, <3>3
         DEF Justified, Outside, NeverBegun, Inside, Ending
    <3>4. CASE phase = "in" /\ unbegun
      <4>1. Plain' /\ told \subseteq table /\ (r = "ok" => call.rows \subseteq table')
        BY <2>3, <3>4 DEF Justified, NeverBegun
      <4>2. told' \subseteq table'
        BY <3>1, <4>1 DEF Left
      <4> QED
        BY <3>1, <3>4, <4>1, <4>2 DEF Outside, NeverBegun, Inside
    <3>5. CASE phase = "in" /\ ~unbegun
      <4>1. phase' = "in" => Running'
        BY <2>3, <3>1, <3>5 DEF Justified, Running
      <4> QED
        BY <1>2, <3>1, <3>5, <4>1 DEF Outside, NeverBegun, Inside, Ending
    <3> QED
      BY <1>1, <3>2, <3>3, <3>4, <3>5
  <2> QED
    BY <2>1, <2>2, <2>3
<1>12. Stored'
  <2>1. CASE call.op = "begin"
    <3>1. batch' = batch /\ told' = {} /\ told = {}
      BY <2>1 DEF Return, Batched, Placed, Outside
    <3> QED
      BY <3>1 DEF Stored, Left
  <2>2. CASE call.op \in Ending
    <3>1. /\ told' = {} /\ batch'.rows = batch.rows /\ batch'.open = batch.open
          /\ batch'.sound => /\ batch.sound /\ call.op = "commit"
                             /\ Code(call.op, r) = "ok"
      <4>1. told' = {}
        <5>1. CASE call.op = "commit"
          BY <5>1 DEF Return
        <5>2. CASE call.op = "rollback"
          BY <5>2 DEF Return
        <5> QED
          BY <2>2, <5>1, <5>2 DEF Ending
      <4>2. CASE call.op = "rollback" \/ Code(call.op, r) # "ok"
        <5>1. Batched(call.op, call.rows, r) = [batch EXCEPT !.sound = FALSE]
          <6>1. CASE call.op = "rollback"
            BY <6>1 DEF Batched
          <6>2. CASE call.op = "commit" /\ Code(call.op, r) # "ok"
            BY <6>2 DEF Batched
          <6> QED
            BY <2>2, <4>2, <6>1, <6>2 DEF Ending
        <5>2. /\ batch'.rows = batch.rows /\ batch'.open = batch.open
              /\ batch'.sound = FALSE
          BY <1>1, <5>1 DEF Return, Batch
        <5> QED
          BY <4>1, <5>2
      <4>3. CASE call.op = "commit" /\ Code(call.op, r) = "ok"
        <5>1. batch' = batch
          BY <4>3 DEF Return, Batched
        <5> QED
          BY <4>1, <4>3, <5>1
      <4> QED
        BY <2>2, <4>2, <4>3 DEF Ending
    <3>2. batch'.sound => told \subseteq table
      BY <3>1 DEF Justified
    <3> QED
      BY <1>4, <3>1, <3>2 DEF Stored, Left
  <2>3. CASE call.op \in {"insert", "prepare", "exec"}
    <3>1. batch' = batch /\ told \subseteq told'
      BY <2>3 DEF Return, Batched
    <3> QED
      BY <3>1 DEF Stored, Left
  <2>4. CASE call.op \in {"flush", "close"}
    <3>1. /\ batch'.rows = {} /\ told \subseteq told'
          /\ batch'.sound => batch.sound /\ ~astray /\ ~Excused(call.op, call.rows, r)
      BY <1>1, <2>4 DEF Return, Batched, Batch
    <3>2. batch'.sound => r = "ok" \/ call.rows \subseteq table
      BY <1>1, <3>1, <2>4 DEF Excused, Code, Results
    <3>3. call.rows = batch.rows
      BY <2>4, CommandFacts, NoCallFacts DEF Shape, Ending
    <3>4. phase \in {"out", "in"}
      BY <1>1, <2>4 DEF Placed
    <3>5. phase = "out" /\ r = "ok" /\ ~astray => call.rows \subseteq table'
      BY <2>4 DEF Justified, Ending
    <3>6. phase = "in" /\ r = "ok" => call.rows \subseteq told'
      BY <2>4 DEF Return
    <3> QED
      BY <1>4, <3>1, <3>2, <3>3, <3>4, <3>5, <3>6 DEF Stored, Left
  <2> QED
    BY <1>1, <2>1, <2>2, <2>3, <2>4 DEF Ending
<1> QED
  BY <1>7, <1>8, <1>9, <1>10, <1>11, <1>12
\* A call sends its command once more.
LEMMA Retried ==
  ASSUME IInv, call.cmds # <<>>, call.op # "exec",
         call' = [call EXCEPT !.again = TRUE],
         UNCHANGED <<status, batch, phase, told, unbegun, inTrans>>,
         table' \subseteq Rows, table \subseteq table', astray' \in BOOLEAN,
         session' = Dead, online' = FALSE, stmt' \in {"none", "ready", "dead"}
  PROVE  IInv'
<1> USE DEF IInv
<1>1. /\ call' \in Call /\ call'.op = call.op /\ call'.cmds = call.cmds
      /\ call'.rows = call.rows
  BY DEF TypeOK, Call
<1>2. TypeOK'
  BY <1>1, SessionFacts DEF TypeOK
<1>3. Shape'
  BY <1>1, NoCallFacts DEF Shape
<1>4. Placed' /\ Counted'
  BY <1>1 DEF Placed, Counted
<1>5. Sane'
  BY SessionFacts DEF Sane
<1>6. Outside' /\ NeverBegun' /\ Inside' /\ RolledBack'
  BY <1>1, SessionFacts
     DEF Outside, NeverBegun, Inside, RolledBack, Plain, Idle, Running
<1>7. Stored'
  BY DEF Stored
<1> QED
  BY <1>2, <1>3, <1>4, <1>5, <1>6, <1>7

\* A call goes on with its second command.
LEMMA Continued ==
  ASSUME IInv, Left, call.op # "begin" => Idle', online', call.op \in {"begin", "commit", "rollback"},
         NEW b \in {"begin", "auto1"}, b = "begin" <=> call.op = "begin",
         call' = [call EXCEPT !.cmds = <<b>>, !.again = FALSE],
         UNCHANGED <<status, batch, phase, told, unbegun>>,
         unbegun => Plain',
         call.op = "commit" => told \subseteq table'
  PROVE  IInv'
<1> USE DEF IInv
<1>1. /\ call' \in Call /\ call'.op = call.op /\ call'.cmds = <<b>>
      /\ call'.rows = call.rows /\ ~call'.again
  <2>1. <<b>> \in Seq(Commands)
    BY DEF Commands
  <2> QED
    BY <2>1 DEF TypeOK, Call
<1>2. call.rows = {} /\ call.op \in {"begin", "commit", "rollback"}
  BY NoCallFacts DEF Shape, Ending
<1>3. TypeOK'
  BY <1>1 DEF TypeOK, Left
<1>4. Shape'
  BY <1>1, <1>2 DEF Shape, Ending
<1>5. Placed' /\ Counted'
  BY <1>1 DEF Placed, Counted
<1>6. Sane'
  BY <1>1 DEF Sane, Left
<1>7. Outside' /\ NeverBegun' /\ Inside' /\ RolledBack'
  <2>1. Outside'
    BY <1>1, <1>2 DEF Outside, Ending, Placed
  <2>2. NeverBegun'
    BY DEF NeverBegun, Left
  <2>3. Inside'
    <3>1. phase = "in" => call.op # "begin"
      BY DEF Placed
    <3> QED
      BY <1>1, <1>2, <3>1 DEF Inside, Ending
  <2>4. RolledBack'
    BY DEF RolledBack
  <2> QED
    BY <2>1, <2>2, <2>3, <2>4
<1>8. Stored'
  BY DEF Stored, Left
<1> QED
  BY <1>3, <1>4, <1>5, <1>6, <1>7, <1>8

\* The session a command comes to.
LEMMA ReachedFacts ==
  ASSUME IInv, NEW s \in Reached
  PROVE  /\ s \in Session /\ s.live /\ (~s.tx => s.pending = {}) /\ (s.tx => inTrans)
         /\ Idle => ~s.tx
         /\ Plain => s.auto /\ ~s.tx
         /\ inTrans => s = session /\ session.live
         /\ call.again /\ call.op # "exec" => ~inTrans
<1>1. CASE online /\ session.live
  BY <1>1 DEF Reached, IInv, TypeOK, Sane, Idle, Plain
<1>2. CASE ~(online /\ session.live)
  <2>1. s = Fresh /\ ~inTrans
    BY <1>2 DEF Reached
  <2> QED
    BY <2>1, SessionFacts DEF Idle, Plain
<1> QED
  BY <1>1, <1>2

\* What a command does to its session.
LEMMA AfterFacts ==
  ASSUME NEW s \in Session, s.live, ~s.tx => s.pending = {},
         NEW rows \in SUBSET Rows, NEW cmd \in Commands
  PROVE  /\ After(cmd, rows, s) \in Session /\ After(cmd, rows, s).live
         /\ ~After(cmd, rows, s).tx => After(cmd, rows, s).pending = {}
         /\ cmd \in {"auto0", "prepare"} => /\ After(cmd, rows, s).tx <=> s.tx
                                            /\ After(cmd, rows, s).pending = s.pending
         /\ cmd = "begin" => /\ After(cmd, rows, s).tx
                             /\ After(cmd, rows, s).pending = {}
         /\ cmd \in {"commit", "rollback", "auto1"} => ~After(cmd, rows, s).tx
         /\ cmd = "insert" /\ ~Holds(s) => ~After(cmd, rows, s).tx
<1> DEFINE A == After(cmd, rows, s)
<1>1. s.auto \in BOOLEAN /\ s.tx \in BOOLEAN /\ s.pending \subseteq Rows
  BY DEF Session
<1>2. /\ A.live = TRUE
      /\ A.auto = (cmd # "auto0" /\ (cmd = "auto1" \/ s.auto))
      /\ A.tx = (\/ cmd = "begin"
                 \/ cmd = "insert" /\ Holds(s)
                 \/ cmd \in {"auto0", "prepare"} /\ s.tx)
      /\ A.pending = CASE cmd = "insert" /\ Holds(s) -> s.pending \union rows
                       [] cmd = "rollback" \/ Commits(cmd) -> {}
                       [] OTHER -> s.pending
  BY DEF After
<1>3. A.pending \subseteq Rows
  BY <1>1, <1>2 DEF Commits
<1>4. A \in Session
  BY <1>1, <1>2, <1>3 DEF After, Session
<1>5. cmd \in {"auto0", "begin", "commit", "rollback", "auto1", "insert", "prepare"}
  BY DEF Commands
<1>6. /\ cmd \in {"auto0", "prepare"} => A.tx = s.tx /\ A.pending = s.pending
      /\ cmd = "begin" => A.tx /\ A.pending = {}
      /\ cmd \in {"commit", "rollback", "auto1"} => ~A.tx /\ A.pending = {}
      /\ cmd = "insert" /\ Holds(s) => A.tx /\ A.pending = s.pending \union rows
      /\ cmd = "insert" /\ ~Holds(s) => ~A.tx /\ A.pending = s.pending /\ ~s.tx
  BY <1>1, <1>2 DEF Commits, Holds
<1>7. ~A.tx => A.pending = {}
  BY <1>5, <1>6
<1> QED
  BY <1>2, <1>4, <1>6, <1>7

LEMMA AfterAuto ==
  ASSUME NEW s, NEW rows, NEW cmd
  PROVE  After(cmd, rows, s).auto <=> cmd # "auto0" /\ (cmd = "auto1" \/ s.auto)
  BY DEF After

LEMMA AfterInsert ==
  ASSUME NEW s, NEW rows, Holds(s)
  PROVE  /\ After("insert", rows, s).tx
         /\ After("insert", rows, s).pending = s.pending \union rows
<1>1. After("insert", rows, s).tx
  BY DEF After
<1>2. After("insert", rows, s).pending = s.pending \union rows
  BY DEF After, Commits
<1> QED
  BY <1>1, <1>2

LEMMA VisibleFacts ==
  ASSUME IInv, NEW s \in Session, NEW rows \in SUBSET Rows, NEW cmd \in Commands
  PROVE  /\ Visible(cmd, rows, s) \subseteq Rows /\ table \subseteq Visible(cmd, rows, s)
         /\ Commits(cmd) => Visible(cmd, rows, s) = table \union s.pending
         /\ cmd = "insert" /\ ~Holds(s) => Visible(cmd, rows, s) = table \union rows
         /\ ~Commits(cmd) /\ ~(cmd = "insert" /\ ~Holds(s)) =>
              Visible(cmd, rows, s) = table
<1>1. s.pending \subseteq Rows /\ table \subseteq Rows
  BY DEF IInv, TypeOK, Session
<1>2. ~(Commits(cmd) /\ cmd = "insert")
  BY DEF Commits
<1> QED
  BY <1>1, <1>2 DEF Visible
\* The commands a call may be at.
LEMMA CallCases ==
  ASSUME IInv, call.cmds # <<>>
  PROVE  /\ call.op # "none" /\ call.rows \subseteq Rows /\ Head(call.cmds) \in Commands
         /\ \/ call.op = "begin" /\ call.cmds = <<"auto0", "begin">>
            \/ call.op = "begin" /\ call.cmds = <<"begin">>
            \/ call.op \in Ending /\ call.cmds = <<call.op, "auto1">>
            \/ call.op \in Ending /\ call.cmds = <<"auto1">>
            \/ call.op = "prepare" /\ call.cmds = <<"prepare">> /\ call.rows = {}
            \/ call.op \in {"insert", "exec", "flush", "close"} /\ call.cmds = <<"insert">>
<1>1. call.rows \subseteq Rows
  BY DEF IInv, TypeOK, Call
<1>2. \/ call.op = "begin" /\ call.cmds = <<"auto0", "begin">>
      \/ call.op = "begin" /\ call.cmds = <<"begin">>
      \/ call.op \in Ending /\ call.cmds = <<call.op, "auto1">>
      \/ call.op \in Ending /\ call.cmds = <<"auto1">>
      \/ call.op = "prepare" /\ call.cmds = <<"prepare">> /\ call.rows = {}
      \/ call.op \in {"insert", "exec", "flush", "close"} /\ call.cmds = <<"insert">>
  BY NoCallFacts DEF IInv, Shape
<1>3. Head(call.cmds) \in Commands /\ call.op # "none"
  BY <1>2, CommandFacts DEF Ending, Commands
<1> QED
  BY <1>1, <1>2, <1>3

LEMMA InsertOnly ==
  ASSUME IInv, call.cmds # <<>>, Head(call.cmds) = "insert"
  PROVE  /\ call.op \in {"insert", "exec", "flush", "close"}
         /\ call.cmds = <<"insert">> /\ phase \in {"out", "in"}
<1>1. call.op \in {"insert", "exec", "flush", "close"} /\ call.cmds = <<"insert">>
  BY CallCases, CommandFacts DEF Ending, Commands
<1> QED
  BY <1>1 DEF IInv, TypeOK, Placed

LEMMA AnsweredInv == IInv /\ Answered => IInv'
<1> SUFFICES ASSUME IInv, Answered PROVE IInv'
  OBVIOUS
<1> DEFINE cmd == Head(call.cmds)
<1>1. PICK s \in Reached : /\ cmd = "insert" => ~Clashes(call.rows, s)
                           /\ table' = Visible(cmd, call.rows, s)
                           /\ session' = After(cmd, call.rows, s)
                           /\ inTrans' = session'.tx
  BY DEF Answered
<1>2. /\ call.cmds # <<>> /\ online' = TRUE /\ GoOn
      /\ stmt' = IF call.op = "prepare" THEN "ready" ELSE stmt
      /\ astray' = (astray /\ cmd # "begin")
  BY DEF Answered
<1>3. /\ s \in Session /\ s.live /\ (~s.tx => s.pending = {}) /\ (s.tx => inTrans)
      /\ Idle => ~s.tx
      /\ Plain => s.auto /\ ~s.tx
      /\ inTrans => s = session /\ session.live
  BY ReachedFacts
<1>4. cmd \in Commands /\ call.rows \in SUBSET Rows /\ call.op # "none"
  BY <1>2, CallCases
<1>5. /\ session' \in Session /\ session'.live
      /\ session'.auto <=> cmd # "auto0" /\ (cmd = "auto1" \/ s.auto)
      /\ ~session'.tx => session'.pending = {}
      /\ cmd \in {"auto0", "prepare"} => /\ session'.tx <=> s.tx
                                         /\ session'.pending = s.pending
      /\ cmd = "begin" => session'.tx /\ session'.pending = {}
      /\ cmd \in {"commit", "rollback", "auto1"} => ~session'.tx
      /\ cmd = "insert" /\ Holds(s) =>
           session'.tx /\ session'.pending = s.pending \union call.rows
      /\ cmd = "insert" /\ ~Holds(s) => ~session'.tx
  <2> HIDE DEF cmd
  <2>1. session' = After(cmd, call.rows, s)
    BY <1>1 DEF cmd
  <2>2. /\ s \in Session /\ s.live /\ (~s.tx => s.pending = {})
        /\ cmd \in Commands /\ call.rows \in SUBSET Rows
    BY <1>3, <1>4
  <2> DEFINE A == After(cmd, call.rows, s)
  <2>3. A \in Session /\ A.live /\ (~A.tx => A.pending = {})
    BY <2>2, AfterFacts
  <2>4. A.auto <=> cmd # "auto0" /\ (cmd = "auto1" \/ s.auto)
    BY AfterAuto
  <2>5. cmd \in {"auto0", "prepare"} => (A.tx <=> s.tx) /\ A.pending = s.pending
    BY <2>2, AfterFacts
  <2>6. cmd = "begin" => A.tx /\ A.pending = {}
    BY <2>2, AfterFacts
  <2>7. cmd \in {"commit", "rollback", "auto1"} => ~A.tx
    BY <2>2, AfterFacts
  <2>8. cmd = "insert" /\ Holds(s) => A.tx /\ A.pending = s.pending \union call.rows
    BY AfterInsert
  <2>9. cmd = "insert" /\ ~Holds(s) => ~A.tx
    BY <2>2, AfterFacts
  <2> QED
    BY <2>1, <2>3, <2>4, <2>5, <2>6, <2>7, <2>8, <2>9
<1>6. Left
  <2>1. table' \subseteq Rows /\ table \subseteq table'
    BY <1>1, <1>3, <1>4, VisibleFacts
  <2>2. inTrans' \in BOOLEAN
    BY <1>1, <1>5 DEF Session
  <2>3. stmt' \in {"none", "ready", "dead"} /\ astray' \in BOOLEAN
    BY <1>2 DEF IInv, TypeOK
  <2> QED
    BY <1>1, <1>2, <1>5, <2>1, <2>2, <2>3 DEF Left
<1>7. ASSUME NEW c \in Commands, call.cmds = <<c>> PROVE Return("ok") /\ cmd = c
  BY <1>2, <1>7, CommandFacts DEF GoOn
<1>8. ASSUME NEW a \in Commands, NEW b \in Commands, call.cmds = <<a, b>>
      PROVE  /\ cmd = a
             /\ call' = [call EXCEPT !.cmds = <<b>>, !.again = FALSE]
             /\ UNCHANGED <<status, batch, phase, told, unbegun>>
  <2>1. Len(call.cmds) > 1 /\ Tail(call.cmds) = <<b>> /\ cmd = a
    BY <1>8, CommandFacts
  <2> QED
    BY <1>2, <2>1 DEF GoOn
<1> HIDE DEF cmd
<1>9. CASE call.op = "begin" /\ call.cmds = <<"auto0", "begin">>
  <2>1. /\ cmd = "auto0"
        /\ call' = [call EXCEPT !.cmds = <<"begin">>, !.again = FALSE]
        /\ UNCHANGED <<status, batch, phase, told, unbegun>>
    BY <1>8, <1>9 DEF Commands
  <2>2. ~unbegun
    BY <1>9 DEF IInv, Outside, Placed
  <2>3. call.op # "begin" => Idle'
    BY <1>9
  <2>4. unbegun => Plain'
    BY <2>2
  <2>5. call.op = "commit" => told \subseteq table'
    BY <1>9
  <2> QED
    BY <1>2, <1>6, <1>9, <2>1, <2>3, <2>4, <2>5, Continued
<1>10. CASE call.op = "begin" /\ call.cmds = <<"begin">>
  <2>1. Return("ok") /\ cmd = "begin"
    BY <1>7, <1>10 DEF Commands
  <2>2. session'.tx /\ session'.pending = {} /\ inTrans'
    BY <1>1, <1>5, <2>1
  <2>3. Justified("ok")
    BY <1>10, <2>2 DEF Justified, Learns, Code, Ending
  <2> QED
    BY <1>4, <1>6, <2>1, <2>3, Returned DEF Results
<1>11. CASE call.op \in Ending /\ call.cmds = <<call.op, "auto1">>
  <2>1. /\ cmd = call.op
        /\ call' = [call EXCEPT !.cmds = <<"auto1">>, !.again = FALSE]
        /\ UNCHANGED <<status, batch, phase, told, unbegun>>
    BY <1>8, <1>11 DEF Commands, Ending
  <2>2. Idle'
    BY <1>1, <1>5, <1>11, <2>1 DEF Idle, Ending
  <2>3. unbegun => Plain'
    BY <1>3, <1>5, <1>11, <2>1 DEF IInv, NeverBegun, Plain, Ending
  <2>4. call.op = "commit" => told \subseteq table'
    <3>1. SUFFICES ASSUME call.op = "commit" PROVE told \subseteq table'
      OBVIOUS
    <3>2. CASE unbegun
      BY <1>6, <3>2 DEF IInv, NeverBegun, Left
    <3>3. CASE ~unbegun
      <4>1. Running
        <5>1. call.cmds # <<"auto1">>
          BY <1>11, CommandFacts DEF Ending, Commands
        <5> QED
          BY <3>1, <3>3, <5>1 DEF IInv, Inside, Placed
      <4>2. s.pending = told
        BY <1>3, <4>1 DEF Running
      <4>3. Commits(cmd)
        BY <2>1, <3>1 DEF Commits
      <4>4. table' = table \union s.pending
        BY <1>1, <1>3, <1>4, <4>3, VisibleFacts
      <4> QED
        BY <4>2, <4>4
    <3> QED
      BY <3>2, <3>3
  <2> QED
    BY <1>2, <1>6, <1>11, <2>1, <2>2, <2>3, <2>4, Continued DEF Ending
<1>12. CASE call.op \in Ending /\ call.cmds = <<"auto1">>
  <2>1. Return("ok") /\ cmd = "auto1"
    BY <1>7, <1>12 DEF Commands
  <2>2. Plain'
    BY <1>1, <1>5, <2>1 DEF Plain
  <2>3. call.op = "commit" => told \subseteq table
    <3>1. call.cmds # <<"commit", "auto1">>
      BY <1>12, CommandFacts DEF Commands
    <3> QED
      BY <3>1 DEF IInv, Inside, NeverBegun, Placed
  <2>4. Justified("ok")
    BY <1>12, <2>2, <2>3 DEF Justified, Ending
  <2> QED
    BY <1>4, <1>6, <2>1, <2>4, Returned DEF Results
<1>13. CASE call.op = "prepare" /\ call.cmds = <<"prepare">> /\ call.rows = {}
  <2>1. Return("ok") /\ cmd = "prepare"
    <3>1. "prepare" \in Commands
      BY DEF Commands
    <3> QED
      BY <1>7, <1>13, <3>1
  <2>2. (session'.tx <=> s.tx) /\ session'.pending = s.pending
    BY <1>1, <1>5, <2>1
  <2>3. /\ phase = "out" => Plain' \/ astray'
        /\ unbegun => Plain'
    <3>1. phase = "out" => Plain \/ astray
      BY <1>13 DEF IInv, Outside
    <3>2. unbegun => Plain
      BY DEF IInv, NeverBegun
    <3>3. Plain => Plain'
      BY <1>1, <1>3, <1>5, <2>1, <2>2 DEF Plain
    <3>4. astray => astray'
      BY <1>2, <2>1
    <3> QED
      BY <3>1, <3>2, <3>3, <3>4
  <2>4. phase = "in" /\ ~unbegun =>
          inTrans' /\ session'.tx /\ session'.pending = told
    BY <1>1, <1>3, <1>13, <2>2 DEF IInv, Inside, Running, Ending
  <2>5. Justified("ok")
    BY <1>13, <2>3, <2>4 DEF Justified, Ending
  <2> QED
    BY <1>4, <1>6, <2>1, <2>5, Returned DEF Results
<1>14. CASE call.op \in {"insert", "exec", "flush", "close"} /\ call.cmds = <<"insert">>
  <2>1. Return("ok") /\ cmd = "insert"
    BY <1>7, <1>14 DEF Commands
  <2>2. Plain => Plain' /\ call.rows \subseteq table'
    <3>2. SUFFICES ASSUME Plain PROVE Plain' /\ call.rows \subseteq table'
      OBVIOUS
    <3>3. ~Holds(s) /\ s.auto
      BY <1>3, <3>2 DEF Holds
    <3>4. table' = table \union call.rows
      BY <1>1, <1>3, <1>4, <2>1, <3>3, VisibleFacts
    <3>5. ~session'.tx
      BY <1>5, <2>1, <3>3
    <3> QED
      BY <1>5, <2>1, <3>3, <3>4, <3>5 DEF Plain
  <2>3. phase = "in" /\ ~unbegun =>
          inTrans' /\ session'.tx /\ session'.pending = told \union call.rows
    <3>1. SUFFICES ASSUME phase = "in" /\ ~unbegun
                   PROVE  inTrans' /\ session'.tx /\ session'.pending = told \union call.rows
      OBVIOUS
    <3>2. Holds(s) /\ s.pending = told
      BY <1>3, <1>14, <3>1 DEF IInv, Inside, Running, Ending, Holds
    <3> QED
      BY <1>1, <1>5, <2>1, <3>2
  <2>4. /\ phase = "out" => Plain \/ (astray /\ astray')
        /\ unbegun => Plain
    <3>1. phase = "out" => Plain \/ astray
      BY <1>14 DEF IInv, Outside
    <3>2. astray => astray'
      BY <1>2, <2>1
    <3>3. unbegun => Plain
      BY DEF IInv, NeverBegun
    <3> QED
      BY <3>1, <3>2, <3>3
  <2>5. Justified("ok")
    BY <1>14, <2>2, <2>3, <2>4 DEF Justified, Ending
  <2> QED
    BY <1>4, <1>6, <2>1, <2>5, Returned DEF Results
<1> QED
  BY <1>2, <1>9, <1>10, <1>11, <1>12, <1>13, <1>14, CallCases
LEMMA DuplicateInv == IInv /\ Duplicate => IInv'
<1> SUFFICES ASSUME IInv, Duplicate PROVE IInv'
  OBVIOUS
<1>1. PICK s \in Reached : session' = s
  BY DEF Duplicate
<1>2. /\ call.cmds # <<>> /\ Head(call.cmds) = "insert" /\ online' = TRUE
      /\ Return("EEXIST") /\ UNCHANGED <<table, inTrans, stmt, astray>>
  BY DEF Duplicate
<1>3. /\ call.op \in {"insert", "exec", "flush", "close"} /\ phase \in {"out", "in"}
  BY <1>2, InsertOnly
<1>4. /\ s \in Session /\ s.live /\ (~s.tx => s.pending = {}) /\ (s.tx => inTrans)
      /\ Idle => ~s.tx
      /\ Plain => s.auto /\ ~s.tx
      /\ inTrans => s = session /\ session.live
  BY ReachedFacts
<1>5. Left
  BY <1>1, <1>2, <1>4 DEF Left, IInv, TypeOK
<1>6. /\ phase = "out" => Plain' \/ astray'
      /\ unbegun => Plain'
  <2>1. /\ phase = "out" => Plain \/ astray
        /\ unbegun => Plain
    BY <1>3 DEF IInv, Outside, NeverBegun
  <2>2. Plain => Plain'
    BY <1>1, <1>4 DEF Plain
  <2> QED
    BY <1>2, <2>1, <2>2
<1>7. phase = "in" /\ ~unbegun => inTrans' /\ session'.tx /\ session'.pending = told
  BY <1>1, <1>2, <1>3, <1>4 DEF IInv, Inside, Running, Ending
<1>8. Justified("EEXIST")
  BY <1>3, <1>6, <1>7 DEF Justified, Ending
<1> QED
  BY <1>2, <1>3, <1>5, <1>8, Returned DEF Results

LEMMA StatementFailsInv == IInv /\ StatementFails => IInv'
<1> SUFFICES ASSUME IInv, StatementFails PROVE IInv'
  OBVIOUS
<1>1. PICK s \in Reached :
        session' \in {s, [s EXCEPT !.tx = FALSE, !.pending = {}]}
  BY DEF StatementFails
<1>2. /\ call.cmds # <<>> /\ online' = TRUE
      /\ astray' = /\ session'.tx \/ ~session'.auto
                   /\ astray \/ Head(call.cmds) \notin {"insert", "prepare"}
      /\ Return("EIO") /\ UNCHANGED <<table, inTrans, stmt>>
  BY DEF StatementFails
<1>3. /\ s \in Session /\ s.live /\ (~s.tx => s.pending = {}) /\ (s.tx => inTrans)
      /\ Plain => s.auto /\ ~s.tx
  BY ReachedFacts
<1>4. /\ session' \in Session /\ session'.live /\ session'.auto = s.auto
      /\ ~session'.tx => session'.pending = {}
      /\ session'.tx => s.tx
  BY <1>1, <1>3 DEF Session
<1>5. Left
  BY <1>2, <1>3, <1>4 DEF Left, IInv, TypeOK
<1>6. Plain => Plain'
  BY <1>3, <1>4 DEF Plain
<1>7. ~Plain' => session'.tx \/ ~session'.auto
  BY DEF Plain
<1>8. call.op \in Ending \union {"begin"} => Plain' \/ astray'
  <2>1. call.op \in Ending \union {"begin"} => Head(call.cmds) \notin {"insert", "prepare"}
    BY <1>2, CallCases, CommandFacts DEF Ending, Commands
  <2> QED
    BY <1>2, <1>7, <2>1
<1>9. call.op \notin Ending \union {"begin"} =>
        /\ phase = "out" => Plain' \/ astray'
        /\ unbegun => Plain'
  BY <1>2, <1>6, <1>7 DEF IInv, Outside, NeverBegun
<1>10. Learns(call.op, "EIO") = "EIO" /\ Code(call.op, "EIO") = "EIO"
  BY DEF Learns, Code
<1>11. Justified("EIO")
  BY <1>8, <1>9, <1>10 DEF Justified
<1> QED
  BY <1>2, <1>5, <1>11, CallCases, Returned DEF Results

\* A call returns when its command is lost outside a transaction.
LEMMA LostOutside ==
  ASSUME IInv, call.cmds # <<>>, Return("lost"), Left, Plain', ~inTrans
  PROVE  IInv'
<1>1. call.op = "commit" => told \subseteq table
  <2>1. call.op = "commit" /\ ~unbegun => told \subseteq table
    BY DEF IInv, Inside, Placed, Running
  <2> QED
    BY <2>1 DEF IInv, NeverBegun
<1>2. call.op \notin Ending \union {"begin"} => ~(phase = "in" /\ ~unbegun)
  BY DEF IInv, Inside, Running
<1>3. Justified("lost")
  BY <1>1, <1>2 DEF Justified
<1> QED
  BY <1>3, Returned, CallCases DEF Results

LEMMA LostInv == IInv /\ Lost => IInv'
<1> SUFFICES ASSUME IInv, Lost PROVE IInv'
  OBVIOUS
<1>1. /\ call.cmds # <<>> /\ session' = Dead /\ online' = FALSE /\ stmt' = Broken
      /\ astray' = FALSE /\ Retry /\ UNCHANGED inTrans
  BY DEF Lost
<1>2. PICK s \in Reached : \/ UNCHANGED table
                           \/ table' = Visible(Head(call.cmds), call.rows, s)
  BY DEF Lost
<1>3. s \in Session /\ (call.again /\ call.op # "exec" => ~inTrans)
  BY ReachedFacts
<1>4. table' \subseteq Rows /\ table \subseteq table'
  <2>1. Head(call.cmds) \in Commands /\ call.rows \in SUBSET Rows
    BY <1>1, CallCases
  <2>2. table \subseteq Rows
    BY DEF IInv, TypeOK
  <2> QED
    BY <1>2, <1>3, <2>1, <2>2, VisibleFacts
<1>5. stmt' \in {"none", "ready", "dead"}
  BY <1>1 DEF IInv, TypeOK, Broken
<1>6. CASE call.again \/ call.op = "exec"
  <2>1. Return("lost")
    BY <1>1, <1>6 DEF Retry
  <2>2. Left
    BY <1>1, <1>4, <1>5, SessionFacts DEF Left, IInv, TypeOK
  <2>3. Plain'
    BY <1>1, SessionFacts DEF Plain
  <2>4. CASE ~inTrans
    BY <1>1, <2>1, <2>2, <2>3, <2>4, LostOutside
  <2>5. CASE inTrans
    <3>1. call.op = "exec"
      BY <1>3, <1>6, <2>5
    <3>2. Justified("lost")
      BY <2>3, <3>1 DEF Justified, Ending, Learns
    <3> QED
      BY <2>1, <2>2, <3>1, <3>2, Returned DEF Results
  <2> QED
    BY <2>4, <2>5
<1>7. CASE ~(call.again \/ call.op = "exec")
  <2>1. /\ call' = [call EXCEPT !.again = TRUE]
        /\ UNCHANGED <<status, batch, phase, told, unbegun>>
    BY <1>1, <1>7 DEF Retry
  <2> QED
    BY <1>1, <1>4, <1>5, <1>7, <2>1, Retried
<1> QED
  BY <1>6, <1>7

LEMMA LostAlreadyInv == IInv /\ LostAlready => IInv'
<1> SUFFICES ASSUME IInv, LostAlready PROVE IInv'
  OBVIOUS
<1>1. call.cmds # <<>> /\ Retry /\ UNCHANGED <<table, session, inTrans, stmt, astray>>
  BY DEF LostAlready
<1>2. \/ online /\ ~session.live /\ online' = FALSE
      \/ call.op = "exec" /\ UNCHANGED online
  BY DEF LostAlready
<1>3. CASE call.op = "exec"
  <2>1. Return("lost")
    BY <1>1, <1>3 DEF Retry
  <2>2. Left
    BY <1>1, <1>2 DEF Left, IInv, TypeOK, Sane
  <2>3. /\ phase = "out" => Plain' \/ astray'
        /\ unbegun => Plain'
    <3>1. /\ phase = "out" => Plain \/ astray
          /\ unbegun => Plain
      BY <1>3 DEF IInv, Outside, NeverBegun
    <3> QED
      BY <1>1, <3>1 DEF Plain
  <2>4. Justified("lost")
    BY <1>3, <2>3 DEF Justified, Ending, Learns
  <2> QED
    BY <1>3, <2>1, <2>2, <2>4, Returned DEF Results
<1>4. CASE call.op # "exec"
  <2>1. online /\ session = Dead /\ online' = FALSE /\ ~call.again
    BY <1>2, <1>4 DEF IInv, Sane
  <2>2. /\ call' = [call EXCEPT !.again = TRUE]
        /\ UNCHANGED <<status, batch, phase, told, unbegun>>
    BY <1>1, <1>4, <2>1 DEF Retry
  <2>3. /\ table' \subseteq Rows /\ table \subseteq table' /\ astray' \in BOOLEAN
        /\ stmt' \in {"none", "ready", "dead"}
    BY <1>1 DEF IInv, TypeOK
  <2> QED
    BY <1>1, <1>4, <2>1, <2>2, <2>3, Retried
<1> QED
  BY <1>3, <1>4

\* A call fails for want of a connection.
LEMMA Unconnected ==
  ASSUME IInv, call.cmds # <<>>, call.op # "exec", ~(online /\ session.live),
         inTrans' = FALSE, online' = FALSE, Return("EIO"),
         UNCHANGED <<table, session, stmt, astray>>
  PROVE  IInv'
<1>1. session = Dead
  BY DEF IInv, Sane
<1>2. Left
  BY <1>1, SessionFacts DEF Left, IInv, TypeOK
<1>3. Plain'
  BY <1>1, SessionFacts DEF Plain
<1>4. Learns(call.op, "EIO") = "EIO" /\ Code(call.op, "EIO") = "EIO"
  BY DEF Learns, Code
<1>5. Justified("EIO")
  BY <1>3, <1>4 DEF Justified
<1> QED
  BY <1>2, <1>5, CallCases, Returned DEF Results

LEMMA StepInv == IInv /\ Step => IInv'
<1> SUFFICES ASSUME IInv, Step PROVE IInv'
  OBVIOUS
<1>1. CASE Gone
  BY <1>1, Unconnected DEF Gone
<1>2. CASE Refused
  <2>1. inTrans' = FALSE
    BY <1>2 DEF Refused, IInv, TypeOK
  <2> QED
    BY <1>2, <2>1, Unconnected DEF Refused
<1> QED
  BY <1>1, <1>2, AnsweredInv, DuplicateInv, StatementFailsInv, LostInv,
     LostAlreadyInv DEF Step
\* The caller makes a call.
LEMMA Started ==
  ASSUME IInv, call = NoCall, call' \in Call, call'.again = FALSE,
         UNCHANGED <<table, session, online, inTrans, stmt, status, batch, phase,
                     told, unbegun, astray>>,
         Shape', Placed', call'.op # "flush",
         call'.op = "rollback" => call'.cmds # <<"auto1">>,
         call'.op = "commit" => call'.cmds = <<"commit", "auto1">>
  PROVE  IInv'
<1>1. call.op = "none"
  BY NoCallFacts
<1>2. TypeOK'
  BY DEF TypeOK, IInv
<1>3. Sane' /\ Stored' /\ Counted'
  BY <1>1 DEF Sane, Stored, Counted, IInv
<1>4. Outside' /\ NeverBegun' /\ Inside' /\ RolledBack'
  BY <1>1
     DEF IInv, Outside, NeverBegun, Inside, RolledBack, Plain, Idle, Running, Ending
<1> QED
  BY <1>2, <1>3, <1>4 DEF IInv

\* Nothing changes but the batch, the prepared statement and the context's code.
LEMMA NoStart ==
  ASSUME IInv, call = NoCall,
         UNCHANGED <<table, session, online, inTrans, call, phase, told, unbegun,
                     astray>>,
         stmt' \in {"none", "ready", "dead"}, status' \in {"ok", "EEXIST", "EIO"},
         batch' \in Batch, Stored', Fits(batch'.rows)
  PROVE  IInv'
<1>1. TypeOK'
  <2>1. \A x, y \in Int : x < y => x <= y
    OBVIOUS
  <2>2. Cardinality(batch'.rows) \in Int /\ RecordLimit \in Int
    BY RowsFinite, DbAssumption DEF Batch
  <2> QED
    BY <2>1, <2>2 DEF IInv, TypeOK, Fits
<1>2. Shape' /\ Placed' /\ Counted'
  BY NoCallFacts DEF IInv, Shape, Placed, Counted
<1>3. Sane' /\ Outside' /\ NeverBegun' /\ Inside' /\ RolledBack'
  BY DEF IInv, Sane, Outside, NeverBegun, Inside, RolledBack, Plain, Idle, Running
<1> QED
  BY <1>1, <1>2, <1>3 DEF IInv

LEMMA CommandLists ==
  /\ <<"auto0", "begin">> \in Seq(Commands) /\ <<"commit", "auto1">> \in Seq(Commands)
  /\ <<"rollback", "auto1">> \in Seq(Commands) /\ <<"insert">> \in Seq(Commands)
  /\ <<"prepare">> \in Seq(Commands)
  /\ <<"rollback", "auto1">> # <<"auto1">>
  BY DEF Commands

LEMMA CallerInv == IInv /\ Caller => IInv'
<1> SUFFICES ASSUME IInv, Caller PROVE IInv'
  OBVIOUS
<1>1. CASE Transaction
  <2>1. Starts("begin", <<"auto0", "begin">>, {}) /\ UNCHANGED batch
    BY <1>1 DEF Transaction
  <2>2. /\ call = NoCall /\ call' \in Call /\ call'.again = FALSE
        /\ UNCHANGED <<table, session, online, inTrans, stmt, status, phase,
                       told, unbegun, astray>>
        /\ call'.op = "begin" /\ call'.cmds = <<"auto0", "begin">> /\ call'.rows = {}
    BY <2>1, CommandLists DEF Starts, Calling, Call
  <2>3. Shape' /\ Placed'
    BY <1>1, <2>1, <2>2 DEF Transaction, Shape, Placed, Ending
  <2> QED
    BY <2>1, <2>2, <2>3, CommandLists, Started
<1>2. CASE Commit
  <2>1. Starts("commit", <<"commit", "auto1">>, {}) /\ UNCHANGED batch
    BY <1>2 DEF Commit
  <2>2. /\ call = NoCall /\ call' \in Call /\ call'.again = FALSE
        /\ UNCHANGED <<table, session, online, inTrans, stmt, status, phase,
                       told, unbegun, astray>>
        /\ call'.op = "commit" /\ call'.cmds = <<"commit", "auto1">> /\ call'.rows = {}
    BY <2>1, CommandLists DEF Starts, Calling, Call
  <2>3. Shape' /\ Placed'
    BY <1>2, <2>1, <2>2 DEF Commit, Shape, Placed, Ending
  <2> QED
    BY <2>1, <2>2, <2>3, CommandLists, Started
<1>3. CASE Rollback
  <2>1. Starts("rollback", <<"rollback", "auto1">>, {}) /\ UNCHANGED batch
    BY <1>3 DEF Rollback
  <2>2. /\ call = NoCall /\ call' \in Call /\ call'.again = FALSE
        /\ UNCHANGED <<table, session, online, inTrans, stmt, status, phase,
                       told, unbegun, astray>>
        /\ call'.op = "rollback" /\ call'.cmds = <<"rollback", "auto1">> /\ call'.rows = {}
    BY <2>1, CommandLists DEF Starts, Calling, Call
  <2>3. Shape' /\ Placed'
    BY <1>3, <2>1, <2>2 DEF Rollback, Shape, Placed, Ending
  <2> QED
    BY <2>1, <2>2, <2>3, CommandLists, Started
<1>4. CASE PrepareStmt
  <2>1. Starts("prepare", <<"prepare">>, {}) /\ UNCHANGED batch
    BY <1>4 DEF PrepareStmt
  <2>2. /\ call = NoCall /\ call' \in Call /\ call'.again = FALSE
        /\ UNCHANGED <<table, session, online, inTrans, stmt, status, phase,
                       told, unbegun, astray>>
        /\ call'.op = "prepare" /\ call'.cmds = <<"prepare">> /\ call'.rows = {}
    BY <2>1, CommandLists DEF Starts, Calling, Call
  <2>3. Shape' /\ Placed'
    BY <1>4, <2>1, <2>2 DEF PrepareStmt, Shape, Placed, Ending
  <2> QED
    BY <2>1, <2>2, <2>3, CommandLists, Started
<1>5. ASSUME NEW r \in Rows, ExecSQL(r) \/ ExecStmt(r) PROVE IInv'
  <2>1. PICK op \in {"insert", "exec"} :
          Starts(op, <<"insert">>, {r}) /\ UNCHANGED batch /\ phase # "failed"
    BY <1>5 DEF ExecSQL, ExecStmt
  <2>2. /\ call = NoCall /\ call' \in Call /\ call'.again = FALSE
        /\ UNCHANGED <<table, session, online, inTrans, stmt, status, phase,
                       told, unbegun, astray>>
        /\ call'.op = op /\ call'.cmds = <<"insert">> /\ call'.rows = {r}
    BY <2>1, CommandLists DEF Starts, Calling, Call
  <2>3. Shape' /\ Placed'
    BY <2>1, <2>2 DEF Shape, Placed
  <2> QED
    BY <2>1, <2>2, <2>3, Started
<1>6. CASE FreeStmt
  <2>1. call = NoCall /\ call.op = "none" /\ stmt' = "none"
        /\ UNCHANGED <<table, session, online, inTrans, status, batch, call, phase,
                       told, unbegun, astray>>
    BY <1>6, NoCallFacts DEF FreeStmt
  <2> QED
    BY <2>1, NoStart DEF IInv, TypeOK, Stored, Counted
<1>7. CASE bufferedInsertInit
  <2>1. /\ batch'.rows = {} /\ batch'.given = {} /\ batch'.open /\ batch' \in Batch
        /\ call = NoCall /\ status' = "ok"
        /\ UNCHANGED <<table, session, online, inTrans, stmt, call, phase, told,
                       unbegun, astray>>
    BY <1>7 DEF bufferedInsertInit, Batch
  <2> QED
    BY <2>1, NoStart, NoRows, DbAssumption DEF IInv, TypeOK, Stored, Fits
<1>8. CASE bufferedInsertClose
  <2>1. CASE batch.rows # {}
    <3>1. Starts("close", <<"insert">>, batch.rows) /\ UNCHANGED batch
      BY <1>8, <2>1 DEF bufferedInsertClose
    <3>2. batch.rows \in SUBSET Rows
      BY DEF IInv, TypeOK, Batch
    <3>3. /\ call = NoCall /\ call' \in Call /\ call'.again = FALSE
          /\ UNCHANGED <<table, session, online, inTrans, stmt, status, phase,
                         told, unbegun, astray>>
          /\ call'.op = "close" /\ call'.cmds = <<"insert">> /\ call'.rows = batch.rows
      BY <3>1, <3>2, CommandLists DEF Starts, Calling, Call
    <3>4. Shape' /\ Placed'
      BY <1>8, <3>1, <3>3 DEF bufferedInsertClose, Shape, Placed
    <3> QED
      BY <3>1, <3>3, <3>4, Started
  <2>2. CASE batch.rows = {}
    <3>1. /\ batch' = [batch EXCEPT !.open = status # "ok"] /\ call = NoCall
          /\ UNCHANGED <<table, session, online, inTrans, stmt, status, call, phase,
                         told, unbegun, astray>>
      BY <1>8, <2>2 DEF bufferedInsertClose
    <3>2. /\ batch' \in Batch /\ batch'.rows = {}
          /\ batch'.given = batch.given /\ batch'.sound = batch.sound
      BY <2>2, <3>1 DEF IInv, TypeOK, Batch
    <3>3. Fits(batch'.rows)
      BY <3>2, NoRows, DbAssumption DEF Fits
    <3>4. Stored'
      BY <2>2, <3>1, <3>2 DEF IInv, Stored
    <3> QED
      BY <3>1, <3>2, <3>3, <3>4, NoStart DEF IInv, TypeOK
  <2> QED
    BY <2>1, <2>2
<1>9. ASSUME NEW r \in Rows, bufferedInsert(r) PROVE IInv'
  <2> DEFINE rows == batch.rows \union {r}
  <2>1. /\ phase # "failed" /\ batch.open /\ r \notin batch.rows /\ call = NoCall
        /\ batch' = [batch EXCEPT !.rows = rows, !.given = @ \union {r}]
        /\ UNCHANGED <<table, session, online, inTrans, stmt, phase, told, unbegun,
                       astray>>
    BY <1>9 DEF bufferedInsert
  <2>2. rows \in SUBSET Rows /\ batch.rows \in SUBSET Rows /\ batch \in Batch
    BY DEF IInv, TypeOK, Batch
  <2>3. /\ batch' \in Batch /\ batch'.rows = rows /\ batch'.open
        /\ batch'.given = batch.given \union {r} /\ batch'.sound = batch.sound
    BY <2>1, <2>2 DEF Batch
  <2>4. Stored'
    BY <2>1, <2>3 DEF IInv, Stored
  <2>5. Cardinality(rows) \in Nat /\ Cardinality(rows) = Cardinality(batch.rows) + 1
        /\ Cardinality(batch.rows) \in Nat /\ Fits(batch.rows)
    BY <2>1, <2>2, RowsFinite, NoCallFacts DEF IInv, Counted
  <2> HIDE DEF rows
  <2>6. CASE ~Full(rows) /\ status' = "ok" /\ UNCHANGED call
    <3>1. Fits(rows)
      BY <2>5, <2>6, DbAssumption DEF Full, Fits
    <3> QED
      BY <2>1, <2>3, <2>4, <2>6, <3>1, NoStart DEF IInv, TypeOK
  <2>7. CASE call' = Calling("flush", <<"insert">>, rows) /\ UNCHANGED status
    <3>1. /\ call' \in Call /\ call'.op = "flush" /\ call'.cmds = <<"insert">>
          /\ call'.rows = rows /\ call'.again = FALSE
      BY <2>2, <2>7, CommandLists DEF Calling, Call
    <3>2. TypeOK'
      <4>1. RecordLimit # 0 => Cardinality(rows) <= RecordLimit
        BY <2>5, DbAssumption DEF Fits
      <4> QED
        BY <2>1, <2>3, <2>7, <3>1, <4>1 DEF IInv, TypeOK
    <3>3. Shape' /\ Placed' /\ Counted'
      BY <2>1, <2>3, <3>1 DEF Shape, Placed, Counted
    <3>4. Sane' /\ Outside' /\ NeverBegun' /\ Inside' /\ RolledBack'
      BY <2>1, <3>1, NoCallFacts
         DEF IInv, Sane, Outside, NeverBegun, Inside, RolledBack, Plain, Idle, Running, Ending
    <3> QED
      BY <2>4, <3>2, <3>3, <3>4 DEF IInv
  <2> QED
    BY <1>9, <2>6, <2>7 DEF bufferedInsert, rows
<1> QED
  BY <1>1, <1>2, <1>3, <1>4, <1>5, <1>6, <1>7, <1>8, <1>9 DEF Caller
LEMMA NextInv == IInv /\ [Next]_vars => IInv'
<1> SUFFICES ASSUME IInv, [Next]_vars PROVE IInv'
  OBVIOUS
<1>1. CASE SessionEnds
  <2>1. /\ session' = Dead /\ stmt' = Broken /\ astray' = FALSE
        /\ UNCHANGED <<table, online, inTrans, status, batch, call, phase, told, unbegun>>
    BY <1>1 DEF SessionEnds
  <2>2. TypeOK'
    BY <2>1, SessionFacts DEF IInv, TypeOK, Broken
  <2>3. Shape' /\ Placed' /\ Stored' /\ Counted'
    BY <2>1 DEF IInv, Shape, Placed, Stored, Counted
  <2>4. Sane'
    BY <2>1, SessionFacts DEF IInv, Sane
  <2>5. Outside' /\ NeverBegun' /\ Inside' /\ RolledBack'
    BY <2>1, SessionFacts
       DEF IInv, Outside, NeverBegun, Inside, RolledBack, Plain, Idle, Running
  <2> QED
    BY <2>2, <2>3, <2>4, <2>5 DEF IInv
<1>2. ASSUME NEW r \in Theirs, Others(r) PROVE IInv'
  <2>1. /\ table' = table \union {r}
        /\ UNCHANGED <<session, online, inTrans, stmt, status, batch, call, phase,
                       told, unbegun, astray>>
    BY <1>2 DEF Others
  <2>2. TypeOK'
    BY <2>1, DbAssumption DEF IInv, TypeOK
  <2>3. Shape' /\ Placed' /\ Stored' /\ Counted'
    BY <2>1 DEF IInv, Shape, Placed, Stored, Counted
  <2>4. Sane' /\ Outside' /\ NeverBegun' /\ Inside' /\ RolledBack'
    BY <2>1
       DEF IInv, Sane, Outside, NeverBegun, Inside, RolledBack, Plain, Idle, Running
  <2> QED
    BY <2>2, <2>3, <2>4 DEF IInv
<1>3. CASE UNCHANGED vars
  <2>1. TypeOK' /\ Shape' /\ Placed' /\ Sane'
    BY <1>3 DEF vars, IInv, TypeOK, Shape, Placed, Sane
  <2>2. Outside' /\ NeverBegun' /\ Inside' /\ RolledBack' /\ Stored' /\ Counted'
    BY <1>3 DEF vars, IInv, Outside, NeverBegun, Inside, RolledBack, Stored,
                Counted, Plain, Idle, Running
  <2> QED
    BY <2>1, <2>2 DEF IInv
<1> QED
  BY <1>1, <1>2, <1>3, StepInv, CallerInv DEF Next

-------------------------------------------------------------------------------
(***************************************************************************)
(* In every reachable state the variables have their types, and the rows   *)
(* of a batch fit in its array if it has a limit (db.c:579-641).           *)
(***************************************************************************)
THEOREM TypeCorrect == Spec => []TypeOK
<1>1. IInv => TypeOK
  BY DEF IInv
<1> QED
  BY <1>1, InitInv, NextInv, PTL DEF Spec

(***************************************************************************)
(* AUTOCOMMIT is on again whatever way a transaction ended, and no         *)
(* transaction is left open at the server, unless a statement of           *)
(* Transaction, Commit or Rollback failed on a live connection and no      *)
(* transaction was begun since (db.c:197-224, 358-396).                    *)
(***************************************************************************)
THEOREM AutomaticAgain == Spec => []AutoRestored
<1>1. IInv => AutoRestored
  BY NoCallFacts DEF IInv, Outside, Plain, AutoRestored
<1> QED
  BY <1>1, InitInv, NextInv, PTL DEF Spec

(***************************************************************************)
(* The rows of a batch whose calls all succeeded are in the table once no  *)
(* transaction is open; except where BatchKept says (db.c:616-688).        *)
(***************************************************************************)
THEOREM BatchesKept == Spec => []BatchKept
<1>1. IInv => BatchKept
  BY DEF IInv, Outside, Stored, BatchKept
<1> QED
  BY <1>1, InitInv, NextInv, PTL DEF Spec

-------------------------------------------------------------------------------
(* Committed rows and the refinement. *)

\* What a command makes of the table.
LEMMA TableMoves ==
  ASSUME IInv, call.cmds # <<>>, NEW s \in Reached,
         table' = Visible(Head(call.cmds), call.rows, s)
  PROVE  \/ table' = table
         \/ /\ Open /\ call.op = "commit" /\ table' = table \union told
            /\ inTrans /\ Len(call.cmds) > 1
         \/ /\ ~Open /\ call.op \notin Ending
            /\ \E R \in SUBSET Rows : table' = table \union R
<1> DEFINE cmd == Head(call.cmds)
<1>1. /\ s \in Session /\ s.live /\ (~s.tx => s.pending = {}) /\ (s.tx => inTrans)
      /\ Idle => ~s.tx
      /\ inTrans => s = session /\ session.live
  BY ReachedFacts
<1>2. cmd \in Commands /\ call.rows \in SUBSET Rows
  BY CallCases
<1>3. /\ Commits(cmd) => table' = table \union s.pending
      /\ cmd = "insert" /\ ~Holds(s) => table' = table \union call.rows
      /\ ~Commits(cmd) /\ ~(cmd = "insert" /\ ~Holds(s)) => table' = table
  BY <1>1, <1>2, VisibleFacts
<1> HIDE DEF cmd
<1>4. CASE Commits(cmd) /\ s.pending = {}
  BY <1>3, <1>4
<1>5. CASE Commits(cmd) /\ s.pending # {}
  <2>1. s.tx /\ inTrans /\ s = session
    BY <1>1, <1>5
  <2>2. ~Idle /\ ~Plain
    BY <2>1 DEF Idle, Plain
  <2>3. /\ call.op \in Ending \union {"begin"}
        /\ call.op \in Ending => cmd # "rollback"
    BY <1>5, CallCases, CommandFacts DEF cmd, Commits, Commands
  <2>7. CASE call.op = "begin"
    <3>1. ~Open /\ s.pending \in SUBSET Rows
      BY <1>1, <2>7 DEF Open, IInv, Placed, Session
    <3> QED
      BY <1>3, <1>5, <2>7, <3>1 DEF Ending
  <2>8. SUFFICES ASSUME call.op \in Ending
                 PROVE  /\ Open /\ call.op = "commit" /\ table' = table \union told
                        /\ inTrans /\ Len(call.cmds) > 1
    BY <2>3, <2>7
  <2>4. call.op = "commit" /\ call.cmds = <<"commit", "auto1">>
    <3>1. call.op = "rollback" => call.cmds # <<"auto1">>
      BY <2>2 DEF IInv, RolledBack
    <3>2. call.op = "rollback" => call.cmds = <<"rollback", "auto1">>
      BY <3>1, CallCases DEF Ending
    <3>3. Head(<<"rollback", "auto1">>) = "rollback"
      BY CommandFacts DEF Commands
    <3>4. call.op = "commit"
      BY <2>3, <2>8, <3>2, <3>3 DEF Ending, cmd
    <3> QED
      BY <2>2, <3>4 DEF IInv, Inside, NeverBegun, Placed
  <2>5. Open /\ Running
    BY <2>2, <2>4, CommandFacts DEF IInv, Inside, NeverBegun, Placed, Open, Commands
  <2>6. Len(call.cmds) > 1
    BY <2>4, CommandFacts DEF Commands
  <2> QED
    BY <1>1, <1>3, <1>5, <2>1, <2>4, <2>5, <2>6 DEF Running
<1>6. CASE cmd = "insert" /\ ~Holds(s)
  <2>1. call.op \in {"insert", "exec", "flush", "close"} /\ phase \in {"out", "in"}
    BY <1>6, InsertOnly DEF cmd
  <2>2. ~Open
    <3>1. ASSUME Open PROVE FALSE
      <4>1. Running
        BY <2>1, <3>1 DEF Open, IInv, Inside, Ending
      <4> QED
        BY <1>1, <1>6, <4>1 DEF Running, Holds
    <3> QED
      BY <3>1
  <2> QED
    BY <1>2, <1>3, <1>6, <2>1, <2>2 DEF Ending
<1> QED
  BY <1>3, <1>4, <1>5, <1>6

LEMMA Stepping ==
  ASSUME IInv, Step
  PROVE  /\ call.cmds # <<>> /\ call.op # "none"
         /\ \/ \E r \in Results : Return(r)
            \/ /\ call'.op = call.op /\ call'.op # "none"
               /\ UNCHANGED <<status, batch, phase, told, unbegun>>
         /\ \/ table' = table
            \/ /\ Open /\ call.op = "commit" /\ table' = table \union told
               /\ \A r \in Results : ~Return(r)
            \/ /\ ~Open /\ call.op \notin Ending
               /\ \E R \in SUBSET Rows : table' = table \union R
<1>1. call.cmds # <<>>
  BY DEF Step, Answered, Duplicate, StatementFails, Lost, LostAlready, Gone, Refused
<1>2. call.op # "none" /\ call \in Call
  BY <1>1, CallCases DEF IInv, TypeOK
<1>3. ASSUME call'.op = call.op PROVE \A r \in Results : ~Return(r)
  BY <1>2, <1>3, NoCallFacts DEF Return
<1>4. CASE Answered
  <2>1. PICK s \in Reached : table' = Visible(Head(call.cmds), call.rows, s)
    BY <1>4 DEF Answered
  <2>2. GoOn
    BY <1>4 DEF Answered
  <2>3. CASE Len(call.cmds) > 1
    <3>1. call'.op = call.op /\ UNCHANGED <<status, batch, phase, told, unbegun>>
      BY <1>2, <2>2, <2>3 DEF GoOn, Call
    <3> QED
      BY <1>1, <1>2, <1>3, <2>1, <3>1, TableMoves
  <2>4. CASE ~(Len(call.cmds) > 1)
    <3>1. Return("ok")
      BY <2>2, <2>4 DEF GoOn
    <3> QED
      BY <1>1, <1>2, <2>1, <2>4, <3>1, TableMoves DEF Results
  <2> QED
    BY <2>3, <2>4
<1>5. ASSUME Retry
      PROVE  \/ Return("lost") /\ (call.again \/ call.op = "exec")
             \/ call'.op = call.op /\ UNCHANGED <<status, batch, phase, told, unbegun>>
  BY <1>2, <1>5 DEF Retry, Call
<1>6. CASE Lost
  <2>1. Retry
    BY <1>6 DEF Lost
  <2>2. PICK s \in Reached : \/ table' = table
                             \/ table' = Visible(Head(call.cmds), call.rows, s)
    BY <1>6 DEF Lost
  <2>3. call.again /\ call.op # "exec" => ~inTrans
    BY ReachedFacts
  <2>4. CASE call'.op = call.op /\ UNCHANGED <<status, batch, phase, told, unbegun>>
    BY <1>1, <1>2, <1>3, <2>2, <2>4, TableMoves
  <2>5. CASE Return("lost") /\ (call.again \/ call.op = "exec")
    <3>1. ~(call.op = "commit" /\ inTrans)
      BY <2>3, <2>5
    <3> QED
      BY <1>1, <1>2, <2>2, <2>5, <3>1, TableMoves DEF Results
  <2> QED
    BY <1>5, <2>1, <2>4, <2>5
<1>7. CASE LostAlready
  <2>1. Retry /\ table' = table
    BY <1>7 DEF LostAlready
  <2> QED
    BY <1>1, <1>2, <1>5, <2>1 DEF Results
<1>8. CASE Duplicate \/ StatementFails \/ Gone \/ Refused
  <2>1. table' = table /\ \E r \in Results : Return(r)
    BY <1>8 DEF Duplicate, StatementFails, Gone, Refused, Results
  <2> QED
    BY <1>1, <1>2, <2>1
<1> QED
  BY <1>4, <1>6, <1>7, <1>8 DEF Step
\* A commit that returns 0 has nothing left to commit.
LEMMA CommitReturns ==
  ASSUME IInv, Step, call.op = "commit", call'.op = "none", status' = "ok"
  PROVE  told \subseteq table
<1>1. call.cmds # <<>> /\ call \in Call
  BY Stepping DEF IInv, TypeOK
<1>2. ~Running \/ call.cmds = <<"auto1">> => told \subseteq table
  <2>1. call.cmds = <<"auto1">> => call.cmds # <<"commit", "auto1">>
    BY CommandFacts DEF Commands
  <2> QED
    BY <2>1 DEF IInv, Inside, NeverBegun, Placed
<1>3. CASE Answered
  <2>1. GoOn
    BY <1>3 DEF Answered
  <2>2. ~(Len(call.cmds) > 1)
    BY <1>1, <2>1 DEF GoOn, Call
  <2>3. call.cmds \in {<<"commit", "auto1">>, <<"auto1">>}
    BY <1>1, CallCases DEF Ending
  <2>4. call.cmds = <<"auto1">>
    BY <2>2, <2>3, CommandFacts DEF Commands
  <2> QED
    BY <1>2, <2>4
<1>4. ASSUME Retry PROVE call.again
  BY <1>1, <1>4 DEF Retry, Call
<1>5. CASE Lost
  <2>1. ~inTrans
    BY <1>4, <1>5, ReachedFacts DEF Lost
  <2> QED
    BY <1>2, <2>1 DEF Running
<1>6. CASE LostAlready
  <2>1. online /\ call.again
    BY <1>4, <1>6 DEF LostAlready
  <2> QED
    BY <2>1 DEF IInv, Sane
<1>7. CASE Duplicate
  BY <1>1, <1>7, InsertOnly DEF Duplicate
<1>8. CASE StatementFails \/ Gone \/ Refused
  BY <1>8 DEF StatementFails, Gone, Refused, Return, Code
<1> QED
  BY <1>3, <1>5, <1>6, <1>7, <1>8 DEF Step

(***************************************************************************)
(* When Commit returns 0, every row its transaction reported as inserted   *)
(* is in the table (db.c:207-214, 358-380).                                *)
(***************************************************************************)
THEOREM RowsKept == Spec => CommitKept
<1> DEFINE Kept == call.op = "commit" /\ call'.op = "none" /\ status' = "ok" =>
                     told \subseteq table'
<1>1. IInv /\ [Next]_vars => [Kept]_vars
  <2> SUFFICES ASSUME IInv, Next, call.op = "commit", call'.op = "none", status' = "ok"
               PROVE  told \subseteq table'
    BY DEF vars
  <2>1. CASE Step
    <3>1. told \subseteq table
      BY <2>1, CommitReturns
    <3>2. table \subseteq table'
      BY <2>1, Stepping
    <3> QED
      BY <3>1, <3>2
  <2>2. ~Caller
    BY NoCallFacts
       DEF Caller, Transaction, Commit, Rollback, PrepareStmt, FreeStmt, ExecSQL,
           ExecStmt, bufferedInsertInit, bufferedInsert, bufferedInsertClose, Starts
  <2>3. ~SessionEnds /\ \A r \in Theirs : ~Others(r)
    BY DEF SessionEnds, Others
  <2> QED
    BY <2>1, <2>2, <2>3 DEF Next
<1> QED
  BY <1>1, InitInv, NextInv, PTL DEF Spec, CommitKept

\* The refinement mapping.
Shown == IF Open THEN told ELSE {}
Asked == Open /\ call.op = "commit"

\* A step that leaves the caller where it is.
LEMMA Unmoved ==
  ASSUME UNCHANGED <<phase, told, unbegun>>, Asked' = Asked,
         \/ table' = table
         \/ Open /\ call.op = "commit" /\ table' = table \union told
         \/ ~Open /\ \E R \in SUBSET Rows : table' = table \union R
  PROVE  [Abstract!Next]_(Abstract!avars)
<1>1. Open' = Open /\ Shown' = Shown
  BY DEF Open, Shown
<1>2. CASE table' = table
  BY <1>1, <1>2 DEF Abstract!avars, Shown, Asked
<1>3. CASE Open /\ call.op = "commit" /\ table' = table \union told
  <2>1. Abstract!Commit
    BY <1>1, <1>3 DEF Abstract!Commit, Shown, Asked
  <2> QED
    BY <2>1 DEF Abstract!Next
<1>4. ASSUME ~Open, NEW R \in SUBSET Rows, table' = table \union R
      PROVE  Abstract!Next
  <2>1. Abstract!InsertAtOnce(R)
    BY <1>1, <1>4 DEF Abstract!InsertAtOnce, Shown, Asked
  <2> QED
    BY <2>1 DEF Abstract!Next
<1> QED
  BY <1>2, <1>3, <1>4

\* A step the caller cannot see.
LEMMA Standing ==
  ASSUME Open' <=> Open, Asked' <=> Asked, Shown' = Shown, table' = table
  PROVE  [Abstract!Next]_(Abstract!avars)
<1>1. Open' = Open
  BY DEF Open
<1>2. Asked' = Asked
  BY <1>1 DEF Asked
<1> QED
  BY <1>1, <1>2 DEF Abstract!avars, Shown, Asked

\* A call that returns.
LEMMA Returning ==
  ASSUME IInv, NEW r \in Results, Return(r), call.op # "none",
         \/ table' = table
         \/ /\ ~Open /\ call.op \notin Ending
            /\ \E R \in SUBSET Rows : table' = table \union R
  PROVE  [Abstract!Next]_(Abstract!avars)
<1>1. ~Asked' /\ call.rows \subseteq Rows
  BY NoCallFacts DEF Return, Asked, IInv, TypeOK, Call
<1>2. CASE call.op = "begin"
  <2>1. /\ told' = {} /\ Shown' = {}
        /\ ~Open /\ ~Asked /\ Shown = {}
    BY <1>2 DEF Return, Ending, Shown, Asked, Open, IInv, Placed
  <2>4. PICK R \in SUBSET Rows : table' = table \union R
    <3>1. table = table \union {} /\ {} \in SUBSET Rows
      OBVIOUS
    <3>2. \/ table' = table
          \/ \E R \in SUBSET Rows : table' = table \union R
      OBVIOUS
    <3>3. CASE table' = table
      BY <3>1, <3>3
    <3> QED
      BY <3>2, <3>3
  <2>2. CASE Open'
    <3>1. Abstract!Begin(R)
      BY <1>1, <2>1, <2>2, <2>4 DEF Abstract!Begin, Shown, Asked
    <3> QED
      BY <3>1 DEF Abstract!Next
  <2>3. CASE ~Open'
    <3>1. Open' = Open /\ Asked' = Asked
      BY <1>1, <2>1, <2>3 DEF Open, Asked
    <3>2. Abstract!InsertAtOnce(R)
      BY <2>1, <2>4, <3>1 DEF Abstract!InsertAtOnce, Shown, Asked
    <3> QED
      BY <3>2 DEF Abstract!Next
  <2> QED
    BY <2>2, <2>3
<1>3. CASE call.op \in Ending
  <2>1. table' = table /\ ~Open' /\ Shown' = {}
    BY <1>3 DEF Return, Phase, Ending, Open, Shown
  <2>2. CASE Open
    <3>1. Abstract!End
      BY <1>1, <2>1, <2>2 DEF Abstract!End, Shown, Asked
    <3> QED
      BY <3>1 DEF Abstract!Next
  <2>3. CASE ~Open
    BY <1>1, <2>1, <2>3, Standing DEF Shown, Asked
  <2> QED
    BY <2>2, <2>3
<1>4. CASE call.op \notin Ending \union {"begin"}
  <2> DEFINE R == IF phase = "in" /\ r = "ok" THEN call.rows ELSE {}
  <2>1. /\ told' = told \union R /\ unbegun' = unbegun
        /\ phase' \in {phase, "failed"} /\ (phase = "out" <=> phase' = "out")
    BY <1>4 DEF Return, Phase, Ending
  <2>2. (Open' <=> Open) /\ ~Asked
    BY <1>4, <2>1 DEF Open, Asked, Ending
  <2>3. CASE Open
    <3>1. table' = table /\ Shown' = Shown \union R /\ R \in SUBSET Rows
      BY <1>1, <2>1, <2>2, <2>3 DEF Shown
    <3>2. Abstract!Insert(R)
      BY <1>1, <2>2, <2>3, <3>1 DEF Abstract!Insert, Shown, Asked
    <3> QED
      BY <3>1, <3>2 DEF Abstract!Next
  <2>4. CASE ~Open
    <3>1. Shown' = {} /\ Shown = {}
      BY <2>2, <2>4 DEF Shown
    <3>2. CASE table' = table
      BY <1>1, <2>2, <2>4, <3>1, <3>2, Standing
    <3>3. ASSUME NEW Q \in SUBSET Rows, table' = table \union Q
          PROVE  Abstract!Next
      <4>1. Open' = Open /\ Asked' = Asked /\ Shown' = Shown
        <5>1. Open' = Open
          BY <2>2 DEF Open
        <5>2. Asked' = Asked
          BY <1>1, <2>2, <5>1 DEF Asked
        <5> QED
          BY <3>1, <5>1, <5>2
      <4>2. Abstract!InsertAtOnce(Q)
        BY <2>4, <3>3, <4>1 DEF Abstract!InsertAtOnce, Shown, Asked
      <4> QED
        BY <4>2 DEF Abstract!Next
    <3> QED
      BY <3>2, <3>3
  <2> QED
    BY <2>3, <2>4
<1> QED
  BY <1>2, <1>3, <1>4

LEMMA CallerAsks ==
  ASSUME IInv, Caller
  PROVE  [Abstract!Next]_(Abstract!avars)
<1>1. UNCHANGED <<table, phase, told, unbegun>> /\ ~Asked
  BY NoCallFacts
     DEF Caller, Transaction, Commit, Rollback, PrepareStmt, FreeStmt, ExecSQL,
         ExecStmt, bufferedInsertInit, bufferedInsert, bufferedInsertClose, Starts, Asked
<1>2. (Open' <=> Open) /\ Shown' = Shown
  BY <1>1 DEF Open, Shown
<1>3. CASE Asked'
  <2>1. Abstract!Ask
    BY <1>1, <1>2, <1>3 DEF Abstract!Ask, Shown, Asked
  <2> QED
    BY <2>1 DEF Abstract!Next
<1>4. CASE ~Asked'
  BY <1>1, <1>2, <1>4, Standing
<1> QED
  BY <1>3, <1>4

(***************************************************************************)
(* Every step of the layer is a step of AtomicTable: rows of a transaction *)
(* appear all at once, after Commit was called, or never; those that a     *)
(* failed Commit or Rollback leaves are inserted outside it (db.c:197-224).*)
(***************************************************************************)
THEOREM Atomic == Spec => IsAtomic
<1>1. Init => Abstract!Init
  BY NoCallFacts DEF Init, Abstract!Init, Open
<1>2. IInv /\ [Next]_vars => [Abstract!Next]_(Abstract!avars)
  <2> SUFFICES ASSUME IInv, [Next]_vars PROVE [Abstract!Next]_(Abstract!avars)
    OBVIOUS
  <2>1. CASE Step
    <3>1. CASE \E r \in Results : Return(r)
      BY <2>1, <3>1, Stepping, Returning
    <3>2. CASE call'.op = call.op /\ UNCHANGED <<phase, told, unbegun>>
      <4>1. Asked' = Asked
        BY <3>2 DEF Asked, Open
      <4> QED
        BY <2>1, <3>2, <4>1, Stepping, Unmoved
    <3> QED
      BY <2>1, <3>1, <3>2, Stepping
  <2>2. CASE SessionEnds
    BY <2>2, Unmoved DEF SessionEnds, Asked, Open
  <2>3. ASSUME NEW r \in Theirs, Others(r) PROVE Abstract!Next
    <3>1. Abstract!Others(r)
      BY <2>3 DEF Others, Abstract!Others, Open
    <3> QED
      BY <3>1 DEF Abstract!Next
  <2>4. CASE UNCHANGED vars
    BY <2>4, Unmoved DEF vars, Asked, Open
  <2> QED
    BY <2>1, <2>2, <2>3, <2>4, CallerAsks DEF Next
<1> QED
  BY <1>1, <1>2, InitInv, NextInv, PTL DEF Spec, IsAtomic, Abstract!Spec
===============================================================================
