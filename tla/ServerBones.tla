------------------------------ MODULE ServerBones ------------------------------
(***************************************************************************)
(* The server bones, org.glite.lbjp-utils.server-bones/src/srvbones.c: a   *)
(* master process accepts the connections of all services and passes them, *)
(* numbered, through a socket pair to slave processes.  A slave tells the  *)
(* number of each connection it takes back through the pair; the master    *)
(* compares it with the number it is about to give and rejects connections *)
(* when the difference is too large.                                       *)
(*                                                                         *)
(* A step is a stretch of one process between two points where it looks at *)
(* what others change: select(), recvmsg() and send() on the socket pair.  *)
(* Every service has its four handlers, as those of lbproxy.c have.        *)
(***************************************************************************)
EXTENDS Integers, Sequences, FiniteSets

CONSTANTS Slaves,    \* set_slaves_ct slaves; a new one takes a dead one's name
          Overload,  \* set_slave_overload
          ReqsMax,   \* set_slave_reqs_max
          SeqMod,    \* 2^w, the range of an unsigned long
          Services,  \* the listening sockets
          Clients,   \* bound: the connections ever made
          None,      \* no connection
          Faults     \* what may go wrong

Message == [conn : Clients, seq : 0..(SeqMod - 1)]

ASSUME BonesAssumption ==
  /\ Slaves # {} /\ IsFiniteSet(Slaves)
  /\ Overload \in Nat \ {0}
  /\ ReqsMax \in Nat
  /\ SeqMod \in Nat \ {0, 1}
  /\ None \notin Clients \union Message
  /\ Faults \subseteq {"crash",     \* a slave dies outside the code's own exits
                      "sendmsg",   \* sendmsg() fails
                      "term"}      \* the master is told to terminate

VARIABLES master,      \* where the master is, and its flags
          signals,     \* signals pending for the master while it blocks them
          dispatched,  \* clnt_dispatched, the number of the next connection
          accepted,    \* clnt_accepted, the last number told by a slave
          backlog,     \* connections not accepted yet, by service
          queue,       \* connections in the socket pair, with their numbers
          acks,        \* numbers on their way back
          slave,       \* the slaves
          client,      \* the connections' fates
          ready        \* connections with a request or an end of file to read

wires == <<queue, acks>>
vars == <<master, signals, dispatched, accepted, backlog, queue, acks, slave,
          client, ready>>

Limit == Cardinality(Slaves) * Overload

Slave == [phase : {"select", "serve", "take", "tell", "dead"},
          conn  : Clients \union {None},
          next  : Message \union {None},   \* taken, not told to the master yet
          fresh : BOOLEAN,                 \* first_request
          new   : BOOLEAN,                 \* within NEW_CLIENT_DURATION
          idle  : BOOLEAN,                 \* for longer than set_idle_to
          sock  : BOOLEAN,                 \* select() saw messages
          reqs  : 0..ReqsMax]              \* req_cnt

NewSlave == [phase |-> "select", conn |-> None, next |-> None, fresh |-> FALSE,
             new |-> FALSE, idle |-> FALSE, sock |-> FALSE, reqs |-> 0]

Init ==
  /\ master = [pc |-> "top", childDied |-> FALSE, die |-> FALSE,
               acked |-> FALSE, todo |-> {}]
  /\ signals = {}
  /\ dispatched = 0
  /\ accepted = 0
  /\ backlog = [v \in Services |-> <<>>]
  /\ queue = <<>>
  /\ acks = <<>>
  /\ slave = [s \in Slaves |-> NewSlave]
  /\ client = [c \in Clients |-> "away"]
  /\ ready = {}

-------------------------------------------------------------------------------
(* Clients.                                                                *)

\* Connections differ in nothing but their names: they come in a fixed order.
Connect(c) ==
  /\ client[c] = "away"
  /\ c = CHOOSE x \in Clients : client[x] = "away"
  /\ client' = [client EXCEPT ![c] = "open"]
  /\ \E v \in Services : backlog' = [backlog EXCEPT ![v] = Append(@, c)]
  /\ UNCHANGED <<master, signals, dispatched, accepted, wires, slave, ready>>

\* A request, or the end of the connection, reaches the slave.
Request(c) ==
  /\ c \notin ready
  /\ \E s \in Slaves : slave[s].conn = c
  /\ ready' = ready \union {c}
  /\ UNCHANGED <<master, signals, dispatched, accepted, backlog, wires, slave,
                 client>>

-------------------------------------------------------------------------------
(* The master: glite_srvbones_run and dispatchit.                          *)

\* Signals are let in just before select(): a handler that runs here does not
\* interrupt the select() that follows.
Unblock ==
  /\ master.pc = "top"
  /\ ~master.die
  /\ master' = [master EXCEPT !.pc = "select",
                              !.childDied = @ \/ "CHLD" \in signals,
                              !.die = "TERM" \in signals]
  /\ signals' = {}
  /\ UNCHANGED <<dispatched, accepted, backlog, wires, slave, client, ready>>

\* select() returns: something is readable or a signal interrupts it.
Wake ==
  LET busy == {v \in Services : backlog[v] # <<>>}
  IN  /\ master.pc = "select"
      /\ acks # <<>> \/ busy # {} \/ signals # {}
      /\ master' = [pc |-> "awake", childDied |-> master.childDied \/ "CHLD" \in signals,
                    die |-> master.die \/ "TERM" \in signals,
                    acked |-> acks # <<>>, todo |-> busy]
      /\ signals' = {}
      /\ UNCHANGED <<dispatched, accepted, backlog, wires, slave, client, ready>>

\* Faulty: one dead slave is waited for.
ReapOne(dead, revived) ==
  /\ revived # {} => Cardinality(revived) = 1
  /\ dead # {} /\ ~master.die => revived # {}

\* waitpid() until no dead slave is left; each one is replaced.
Reap(dead, revived) == revived = IF master.die THEN {} ELSE dead

Resurrect ==
  LET dead == {s \in Slaves : slave[s].phase = "dead"}
  IN  /\ master.pc = "awake"
      /\ master.childDied
      /\ \E revived \in SUBSET dead :
           /\ Reap(dead, revived)
           /\ slave' = [s \in Slaves |-> IF s \in revived THEN NewSlave ELSE slave[s]]
      /\ master' = [master EXCEPT !.pc = "top", !.childDied = FALSE]
      /\ UNCHANGED <<signals, dispatched, accepted, backlog, wires, client, ready>>

\* The end of the master, who signals its process group: see Stop.
Terminate ==
  /\ master.die
  /\ master.pc = "top" \/ (master.pc = "awake" /\ ~master.childDied)
  /\ master' = [master EXCEPT !.pc = "gone"]
  /\ UNCHANGED <<signals, dispatched, accepted, backlog, wires, slave, client, ready>>

\* A number told by a slave counts unless a later one has come before.
Counts(a) ==
  /\ a <= dispatched
  /\ a > accepted \/ accepted > dispatched

\* One number is read, if select() saw any, before connections are accepted.
ReadAck ==
  /\ master.pc = "awake"
  /\ ~master.childDied
  /\ ~master.die
  /\ IF master.acked
       THEN /\ accepted' = IF Counts(Head(acks)) THEN Head(acks) ELSE accepted
            /\ acks' = Tail(acks)
       ELSE UNCHANGED <<accepted, acks>>
  /\ master' = [master EXCEPT !.pc = "dispatch", !.acked = FALSE]
  /\ UNCHANGED <<signals, dispatched, backlog, queue, slave, client, ready>>

\* Faulty: one more than the slaves can take.
AdmitsOneMore ==
  \/ dispatched < accepted
  \/ dispatched - accepted <= Limit

\* The first disjunct is the wrapped counter.
Admits ==
  \/ dispatched < accepted
  \/ dispatched - accepted < Limit

NextNumber == IF dispatched + 1 = SeqMod THEN 0 ELSE dispatched + 1

Dispatch(v) ==
  LET c == Head(backlog[v])
      sent == /\ queue' = Append(queue, [conn |-> c, seq |-> dispatched])
              /\ UNCHANGED client
      refused == /\ client' = [client EXCEPT ![c] = "rejected"]
                 /\ UNCHANGED queue
  IN  /\ master.pc = "dispatch"
      /\ v \in master.todo
      /\ master' = [master EXCEPT !.todo = @ \ {v}]
      /\ backlog' = [backlog EXCEPT ![v] = Tail(@)]
      /\ IF Admits
           THEN /\ dispatched' = NextNumber
                /\ sent \/ ("sendmsg" \in Faults /\ refused)
           ELSE refused /\ UNCHANGED dispatched
      /\ UNCHANGED <<signals, accepted, acks, slave, ready>>

Loop ==
  /\ master.pc = "dispatch"
  /\ master.todo = {}
  /\ master' = [master EXCEPT !.pc = "top"]
  /\ UNCHANGED <<signals, dispatched, accepted, backlog, wires, slave, client, ready>>

Terminated ==
  /\ "term" \in Faults
  /\ "TERM" \notin signals
  /\ master.pc # "gone"
  /\ signals' = signals \union {"TERM"}
  /\ UNCHANGED <<master, dispatched, accepted, backlog, wires, slave, client, ready>>

Master ==
  \/ Unblock
  \/ Wake
  \/ Resurrect
  \/ Terminate
  \/ ReadAck
  \/ \E v \in Services : Dispatch(v)
  \/ Loop

-------------------------------------------------------------------------------
(* The slaves: slave.                                                      *)

unchangedBySlaves == <<master, dispatched, accepted, backlog>>

\* Closing a connection ends it for the client, whatever it has sent.
Closed(c) == /\ client' = IF c = None THEN client ELSE [client EXCEPT ![c] = "closed"]
             /\ ready' = ready \ {c}

WithoutConn(w) == [w EXCEPT !.conn = None, !.fresh = FALSE, !.new = FALSE, !.idle = FALSE]

\* A slave's end closes what it holds and signals the master.
Dies(s) ==
  LET held == {slave[s].conn} \union (IF slave[s].next = None THEN {} ELSE {slave[s].next.conn})
  IN  /\ slave' = [slave EXCEPT ![s] = [NewSlave EXCEPT !.phase = "dead"]]
      /\ signals' = signals \union {"CHLD"}
      /\ client' = [c \in Clients |-> IF c \in held THEN "closed" ELSE client[c]]
      /\ ready' = ready \ held
      /\ UNCHANGED wires

\* Faulty: a slave that has had its share of connections exits at once.
WorksByCount(w) == w.reqs < ReqsMax

\* The condition of the loop: the last connection may send its first request.
Works(w) == w.reqs < ReqsMax \/ (w.conn # None /\ w.fresh)

\* Faulty: the loop's condition is thought to be enough.
MayTakeUncounted(w) == (w.conn = None \/ ~w.fresh) /\ w.sock

MayTake(w) == (w.conn = None \/ ~w.fresh) /\ w.sock /\ w.reqs < ReqsMax

\* Faulty: who has not sent a request is not idle.
IdlesAfterFirst(w) == w.conn # None /\ w.idle /\ ~w.fresh

Idles(w) == w.conn # None /\ w.idle

\* select() returns and tells what was readable then.  A connection that is
\* readable is served; one that is not may be closed as idle, unless the slave
\* goes on to take another.
Select(s) ==
  LET w == [slave[s] EXCEPT !.sock = queue # <<>>]
      phase(p) == /\ slave' = [slave EXCEPT ![s] = [w EXCEPT !.phase = p]]
                  /\ UNCHANGED <<client, ready>>
  IN  /\ slave[s].phase = "select"
      /\ Works(w)
      /\ \/ w.conn \in ready /\ phase("serve")
         \/ /\ w.conn \notin ready
            /\ \/ MayTake(w) /\ phase("take")
               \/ /\ ~MayTake(w)
                  /\ Idles(w)
                  /\ slave' = [slave EXCEPT ![s] = WithoutConn(@)]
                  /\ Closed(w.conn)
      /\ UNCHANGED <<unchangedBySlaves, signals, wires>>

\* on_request_hnd returns: a fatal error, another error, the end of the
\* connection, or a request done.  What select() said of the socket pair is
\* used only now, and not at all for a new client or after an error.
Serve(s) ==
  LET w == slave[s]
      done == [w EXCEPT !.fresh = FALSE, !.idle = FALSE]
      again(v) == [v EXCEPT !.phase = "select", !.sock = FALSE]
      on(v) == IF ~w.new /\ MayTake(v) THEN [v EXCEPT !.phase = "take"] ELSE again(v)
      failed == /\ slave' = [slave EXCEPT ![s] = again(WithoutConn(w))]
                /\ Closed(w.conn)
      ended == /\ slave' = [slave EXCEPT ![s] = on(WithoutConn(w))]
               /\ Closed(w.conn)
      kicked == /\ ~w.new
                /\ w.reqs >= ReqsMax
                /\ slave' = [slave EXCEPT ![s] = again(WithoutConn(w))]
                /\ Closed(w.conn)
      kept == /\ w.new \/ w.reqs < ReqsMax
              /\ slave' = [slave EXCEPT ![s] = on(done)]
              /\ ready' = ready \ {w.conn}
              /\ UNCHANGED client
  IN  /\ w.phase = "serve"
      /\ \/ Dies(s)
         \/ (failed \/ ended \/ kicked \/ kept) /\ UNCHANGED <<signals, wires>>
      /\ UNCHANGED unchangedBySlaves

\* Faulty: the present connection is replaced and not closed.
TakeOver(s) ==
  /\ slave[s].phase = "take"
  /\ IF queue = <<>>
       THEN /\ slave' = [slave EXCEPT ![s].phase = "select", ![s].sock = FALSE]
            /\ UNCHANGED queue
       ELSE /\ slave' = [slave EXCEPT ![s] = [WithoutConn(@) EXCEPT !.phase = "tell",
                                                                  !.next = Head(queue)]]
            /\ queue' = Tail(queue)
  /\ UNCHANGED <<unchangedBySlaves, signals, acks, client, ready>>

\* recvmsg() finds a connection, which takes the place of the present one, or
\* another slave was faster.
Take(s) ==
  /\ slave[s].phase = "take"
  /\ IF queue = <<>>
       THEN /\ slave' = [slave EXCEPT ![s].phase = "select", ![s].sock = FALSE]
            /\ UNCHANGED <<queue, client, ready>>
       ELSE /\ slave' = [slave EXCEPT ![s] = [WithoutConn(@) EXCEPT !.phase = "tell",
                                                                  !.next = Head(queue)]]
            /\ queue' = Tail(queue)
            /\ Closed(slave[s].conn)
  /\ UNCHANGED <<unchangedBySlaves, signals, acks>>

\* Faulty: the master is told once the connection is established.
TellEstablished(s) ==
  LET w == [slave[s] EXCEPT !.phase = "select", !.next = None,
                        !.sock = FALSE, !.reqs = @ + 1]
      c == slave[s].next.conn
      established == /\ slave' = [slave EXCEPT ![s] = [w EXCEPT !.conn = c, !.fresh = TRUE,
                                                               !.new = TRUE]]
                     /\ acks' = Append(acks, slave[s].next.seq)
                     /\ UNCHANGED <<client, ready>>
      failed == slave' = [slave EXCEPT ![s] = w] /\ Closed(c) /\ UNCHANGED acks
  IN  /\ slave[s].phase = "tell"
      /\ established \/ failed
      /\ UNCHANGED <<unchangedBySlaves, signals, queue>>

\* The master is told the number; then on_new_conn_hnd establishes the
\* connection, fails or fails badly.
Tell(s) ==
  LET w == [slave[s] EXCEPT !.phase = "select", !.next = None,
                        !.sock = FALSE, !.reqs = @ + 1]
      c == slave[s].next.conn
      established == /\ slave' = [slave EXCEPT ![s] = [w EXCEPT !.conn = c, !.fresh = TRUE,
                                                               !.new = TRUE]]
                     /\ UNCHANGED <<signals, client, ready>>
      failed == slave' = [slave EXCEPT ![s] = w] /\ Closed(c) /\ UNCHANGED signals
      fatal == /\ slave' = [slave EXCEPT ![s] = [NewSlave EXCEPT !.phase = "dead"]]
               /\ signals' = signals \union {"CHLD"}
               /\ Closed(c)
  IN  /\ slave[s].phase = "tell"
      /\ acks' = Append(acks, slave[s].next.seq)
      /\ established \/ failed \/ fatal
      /\ UNCHANGED <<unchangedBySlaves, queue>>

\* The loop ends: enough connections, or the signal the master sends at its end.
Stop(s) ==
  /\ slave[s].phase = "select"
  /\ ~Works(slave[s]) \/ master.pc = "gone"
  /\ Dies(s)
  /\ UNCHANGED unchangedBySlaves

Crash(s) ==
  /\ "crash" \in Faults
  /\ slave[s].phase # "dead"
  /\ Dies(s)
  /\ UNCHANGED unchangedBySlaves

\* Time: a client stays new for NEW_CLIENT_DURATION and may be silent for
\* set_idle_to.
Ages(s) ==
  /\ slave[s].new
  /\ slave' = [slave EXCEPT ![s].new = FALSE]
  /\ UNCHANGED <<unchangedBySlaves, signals, wires, client, ready>>

Quiet(s) ==
  /\ slave[s].conn # None
  /\ ~slave[s].idle
  /\ slave[s].conn \notin ready
  /\ slave' = [slave EXCEPT ![s].idle = TRUE]
  /\ UNCHANGED <<unchangedBySlaves, signals, wires, client, ready>>

SlaveStep(s) ==
  \/ Select(s)
  \/ Serve(s)
  \/ Take(s)
  \/ Tell(s)
  \/ Stop(s)

Next ==
  \/ \E c \in Clients : Connect(c) \/ Request(c)
  \/ Terminated
  \/ Master
  \/ \E s \in Slaves : SlaveStep(s) \/ Crash(s) \/ Ages(s) \/ Quiet(s)

Spec == Init /\ [][Next]_vars

\* The processes run and time passes; nothing makes a client act.
FairSpec ==
  /\ Spec
  /\ WF_vars(Master)
  /\ \A s \in Slaves : WF_vars(SlaveStep(s)) /\ WF_vars(Ages(s)) /\ WF_vars(Quiet(s))

-------------------------------------------------------------------------------
(* Properties.                                                             *)

TypeOK ==
  /\ master \in [pc : {"top", "select", "awake", "dispatch", "gone"},
                  childDied : BOOLEAN, die : BOOLEAN, acked : BOOLEAN,
                  todo : SUBSET Services]
  /\ signals \subseteq {"CHLD", "TERM"}
  /\ dispatched \in 0..(SeqMod - 1)
  /\ accepted \in 0..(SeqMod - 1)
  /\ backlog \in [Services -> Seq(Clients)]
  /\ queue \in Seq(Message)
  /\ acks \in Seq(0..(SeqMod - 1))
  /\ slave \in [Slaves -> Slave]
  /\ client \in [Clients -> {"away", "open", "rejected", "closed"}]
  /\ ready \subseteq Clients

\* As long as the numbers do not wrap, no more connections wait in the socket
\* pair than the slaves may be given, whatever the order in which they tell the
\* numbers back, and whatever numbers are lost: admission counts numbers, never
\* what is in the pair (dispatchit, srvbones.c:252-255).
WaitingBounded == Len(queue) <= Limit

\* The master's handling of SIGCHLD, which is not queued, forgets no dead slave:
\* there is a signal or a mark left while one is not replaced
\* (srvbones.c:173-187).
NoDeathForgotten ==
  (\E s \in Slaves : slave[s].phase = "dead")
    => \/ "CHLD" \in signals
       \/ master.childDied
       \/ master.die

\* A client that is not silent for too long is not closed, neither for another
\* nor because the slave has had enough connections, before the slave has tried
\* to serve its first request (srvbones.c:336, 442, 460).
FirstRequestTried ==
  [][\A s \in Slaves :
       (/\ slave[s].conn # None
        /\ slave[s].fresh
        /\ ~slave[s].idle
        /\ slave'[s].conn # slave[s].conn)
         => slave[s].phase = "serve"]_vars

\* A death was noticed when the signals were let in and not by the select()
\* that follows: nobody replaces the slave before something else happens.
Missed == master.pc = "select" /\ master.childDied

Waiting(c) == \E i \in DOMAIN queue : queue[i].conn = c

\* A connection does not stay in the socket pair while slaves are busy with
\* silent or talkative clients, retire and are replaced, except when the
\* replacement is missed (srvbones.c:336-520).
QueueMoves == \A c \in Clients : Waiting(c) ~> (~Waiting(c) \/ Missed)

\* The master does not reject connections for ever: the numbers told by the
\* slaves end every overload, also when they wrap, except when a replacement is
\* missed (srvbones.c:192-201, 252-255).
OverloadPasses == ~Admits ~> (Admits \/ Missed)

\* A comment (srvbones.c:22) and the interface (srvbones.h:10) speak of queue
\* items per slave: a connection is rejected for overload only while an earlier
\* one waits in the pair or its number is on its way back.
RejectsOnlyWhenFull ==
  [][(\E c \in Clients : client[c] # "rejected" /\ client'[c] = "rejected")
       => \/ queue # <<>>
          \/ acks # <<>>
          \/ \E s \in Slaves : slave[s].next # None]_vars

\* The connection a slave has, told to the master or not.
Holds(w) == IF w.next = None THEN w.conn ELSE w.next.conn

\* The hand-over this server is.
Handing == INSTANCE HandOver WITH
             waiting <- [i \in 1..Len(queue) |-> queue[i].conn],
             holder <- [s \in Slaves |-> Holds(slave[s])],
             fate <- client

(***************************************************************************)
(* The server is such a hand-over, while slaves race for the pair, die     *)
(* between taking a connection and telling it, retire and are replaced:    *)
(* a connection is in one place only, is taken in the order in which it    *)
(* was sent, and no descriptor is left open when its slave goes on to      *)
(* another (srvbones.c:252-266, 336-520).                                  *)
(***************************************************************************)
IsHandOver == Handing!Spec
===============================================================================
