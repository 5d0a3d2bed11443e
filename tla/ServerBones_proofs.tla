--------------------------- MODULE ServerBones_proofs ---------------------------
(***************************************************************************)
(* Proofs about the server bones, for any number of slaves, services and   *)
(* connections, any overload and any faults.                               *)
(***************************************************************************)
EXTENDS ServerBones, FiniteSetTheorems, TLAPS

-------------------------------------------------------------------------------
(* Typing.                                                                 *)

\* A slave between select() and the socket pair has not had its share of
\* connections, and one that tells a number has one.
SlaveOK(w) ==
  /\ w \in Slave
  /\ w.phase \in {"take", "tell"} => w.reqs < ReqsMax
  /\ w.phase = "tell" => w.next \in Message

\* What the master remembers of select() still holds when it is used.
MasterOK ==
  /\ master.acked => acks # <<>>
  /\ \A v \in master.todo : backlog[v] # <<>>

TypeInv ==
  /\ TypeOK
  /\ \A s \in Slaves : SlaveOK(slave[s])
  /\ MasterOK

\* The limit is a positive number.
LEMMA LimitType == Limit \in Nat \ {0}
<1>1. Cardinality(Slaves) \in Nat
  BY BonesAssumption, FS_CardinalityType
<1>2. Cardinality(Slaves) # 0
  BY BonesAssumption, FS_EmptySet
<1>3. \A m, n \in Nat \ {0} : m * n \in Nat \ {0}
  OBVIOUS
<1> QED
  BY <1>1, <1>2, <1>3, BonesAssumption DEF Limit

\* A slave that lets its connection go keeps everything else.
LEMMA WithoutConnType ==
  ASSUME NEW w \in Slave
  PROVE  /\ WithoutConn(w) \in Slave
         /\ WithoutConn(w).phase = w.phase
         /\ WithoutConn(w).next = w.next
         /\ WithoutConn(w).reqs = w.reqs
<1>1. WithoutConn(w) \in Slave
  BY DEF WithoutConn, Slave
<1>2. /\ WithoutConn(w).phase = w.phase
      /\ WithoutConn(w).next = w.next
      /\ WithoutConn(w).reqs = w.reqs
  BY DEF WithoutConn, Slave
<1> QED
  BY <1>1, <1>2

\* A new slave, alive or dead.
LEMMA NewSlaveOK ==
  /\ SlaveOK(NewSlave)
  /\ SlaveOK([NewSlave EXCEPT !.phase = "dead"])
<1> DEFINE d == [NewSlave EXCEPT !.phase = "dead"]
<1>1. 0 \in 0..ReqsMax
  BY BonesAssumption
<1>2. NewSlave \in Slave /\ NewSlave.phase = "select"
  BY <1>1 DEF NewSlave, Slave
<1>3. d \in Slave /\ d.phase = "dead"
  BY <1>2 DEF Slave
<1> HIDE DEF d
<1>4. SlaveOK(d)
  BY <1>3 DEF SlaveOK
<1>5. SlaveOK(NewSlave)
  BY <1>2 DEF SlaveOK
<1> QED
  BY <1>4, <1>5 DEF d

\* A step of one slave keeps the types if it keeps that slave's, and what it
\* shares with others.
LEMMA OneSlave ==
  ASSUME TypeInv, NEW s \in Slaves, NEW w,
         SlaveOK(w),
         slave' = [slave EXCEPT ![s] = w],
         UNCHANGED unchangedBySlaves,
         signals' \subseteq {"CHLD", "TERM"},
         queue' \in Seq(Message),
         acks' \in Seq(0..(SeqMod - 1)),
         acks' = acks \/ acks' # <<>>,
         client' \in [Clients -> {"away", "open", "rejected", "closed"}],
         ready' \subseteq Clients
  PROVE  TypeInv'
<1>1. slave' \in [Slaves -> Slave]
  BY DEF TypeInv, TypeOK, SlaveOK
<1>2. \A t \in Slaves : SlaveOK(slave'[t])
  BY DEF TypeInv, TypeOK
<1>3. TypeOK'
  BY <1>1 DEF TypeInv, TypeOK, unchangedBySlaves
<1>4. MasterOK'
  BY DEF TypeInv, MasterOK, unchangedBySlaves
<1> QED
  BY <1>2, <1>3, <1>4 DEF TypeInv, SlaveOK

\* So does closing a connection, or none.
LEMMA ClosedType ==
  ASSUME TypeInv, NEW c \in Clients \union {None}, Closed(c)
  PROVE  /\ client' \in [Clients -> {"away", "open", "rejected", "closed"}]
         /\ ready' \subseteq Clients
BY DEF Closed, TypeInv, TypeOK

\* A slave's end keeps the types.
LEMMA DiesTyped ==
  ASSUME TypeInv, NEW s \in Slaves, Dies(s), UNCHANGED unchangedBySlaves
  PROVE  TypeInv'
<1>1. signals' \subseteq {"CHLD", "TERM"}
  BY DEF TypeInv, TypeOK, Dies
<1>2. client' \in [Clients -> {"away", "open", "rejected", "closed"}]
  BY DEF TypeInv, TypeOK, Dies
<1>3. ready' \subseteq Clients
  BY DEF TypeInv, TypeOK, Dies
<1>4. queue' \in Seq(Message) /\ acks' \in Seq(0..(SeqMod - 1)) /\ acks' = acks
  BY DEF TypeInv, TypeOK, Dies, wires
<1>5. slave' = [slave EXCEPT ![s] = [NewSlave EXCEPT !.phase = "dead"]]
  BY DEF Dies
<1> QED
  BY <1>1, <1>2, <1>3, <1>4, <1>5, NewSlaveOK, OneSlave

\* Each step of a slave keeps the types: select() ...
LEMMA SelectTyped ==
  ASSUME TypeInv, NEW s \in Slaves, Select(s)
  PROVE  TypeInv'
<1> DEFINE w == [slave[s] EXCEPT !.sock = queue # <<>>]
           phase(p) == /\ slave' = [slave EXCEPT ![s] = [w EXCEPT !.phase = p]]
                       /\ UNCHANGED <<client, ready>>
<1>1. slave[s] \in Slave /\ slave[s].phase = "select" /\ SlaveOK(slave[s])
  BY DEF TypeInv, TypeOK, Select
<1>2. w \in Slave
  BY <1>1 DEF Slave
<1>3. /\ UNCHANGED <<unchangedBySlaves, signals, wires>>
      /\ \/ phase("serve")
         \/ MayTake(w) /\ phase("take")
         \/ slave' = [slave EXCEPT ![s] = WithoutConn(@)] /\ Closed(w.conn)
  BY DEF Select
<1>4. /\ signals' \subseteq {"CHLD", "TERM"}
      /\ queue' \in Seq(Message)
      /\ acks' \in Seq(0..(SeqMod - 1))
      /\ acks' = acks
      /\ UNCHANGED unchangedBySlaves
  BY <1>3 DEF TypeInv, TypeOK, wires
<1>5. ASSUME phase("serve") PROVE TypeInv'
  <2>1. SlaveOK([w EXCEPT !.phase = "serve"])
    BY <1>2, ZenonT(30) DEF SlaveOK, Slave
  <2>2. /\ client' \in [Clients -> {"away", "open", "rejected", "closed"}]
        /\ ready' \subseteq Clients
    BY <1>5 DEF TypeInv, TypeOK
  <2>3. slave' = [slave EXCEPT ![s] = [w EXCEPT !.phase = "serve"]]
    BY <1>5
  <2> HIDE DEF w
  <2> QED
    BY <1>4, <2>1, <2>2, <2>3, OneSlave
<1>6. ASSUME MayTake(w), phase("take") PROVE TypeInv'
  <2>1. SlaveOK([w EXCEPT !.phase = "take"])
    BY <1>2, <1>6 DEF SlaveOK, Slave, MayTake
  <2>2. /\ client' \in [Clients -> {"away", "open", "rejected", "closed"}]
        /\ ready' \subseteq Clients
    BY <1>6 DEF TypeInv, TypeOK
  <2>3. slave' = [slave EXCEPT ![s] = [w EXCEPT !.phase = "take"]]
    BY <1>6
  <2> HIDE DEF w
  <2> QED
    BY <1>4, <2>1, <2>2, <2>3, OneSlave
<1>7. ASSUME slave' = [slave EXCEPT ![s] = WithoutConn(@)], Closed(w.conn)
      PROVE TypeInv'
  <2>1. SlaveOK(WithoutConn(slave[s]))
    BY <1>1, WithoutConnType DEF SlaveOK
  <2>2. w.conn \in Clients \union {None}
    BY <1>2 DEF Slave
  <2>3. /\ client' \in [Clients -> {"away", "open", "rejected", "closed"}]
        /\ ready' \subseteq Clients
    <3> HIDE DEF w
    <3> QED
      BY <1>7, <2>2, ClosedType
  <2>4. slave' = [slave EXCEPT ![s] = WithoutConn(slave[s])]
    BY <1>7, <1>1 DEF TypeInv, TypeOK
  <2> QED
    BY <1>4, <2>1, <2>3, <2>4, OneSlave
<1> QED
  BY <1>3, <1>5, <1>6, <1>7

\* ... the handler of a request ...
LEMMA ServeTyped ==
  ASSUME TypeInv, NEW s \in Slaves, Serve(s)
  PROVE  TypeInv'
<1> DEFINE w == slave[s]
           done == [w EXCEPT !.fresh = FALSE, !.idle = FALSE]
           again(v) == [v EXCEPT !.phase = "select", !.sock = FALSE]
           on(v) == IF ~w.new /\ MayTake(v) THEN [v EXCEPT !.phase = "take"] ELSE again(v)
<1>1. w \in Slave
  BY DEF TypeInv, TypeOK
<1>2. CASE Dies(s)
  BY <1>2, DiesTyped DEF Serve
<1>3. CASE ~Dies(s)
  <2>1. /\ UNCHANGED <<unchangedBySlaves, signals, wires>>
        /\ \/ slave' = [slave EXCEPT ![s] = again(WithoutConn(w))] /\ Closed(w.conn)
           \/ slave' = [slave EXCEPT ![s] = on(WithoutConn(w))] /\ Closed(w.conn)
           \/ /\ slave' = [slave EXCEPT ![s] = on(done)]
              /\ ready' = ready \ {w.conn}
              /\ UNCHANGED client
    BY <1>3 DEF Serve
  <2>2. /\ signals' \subseteq {"CHLD", "TERM"}
        /\ queue' \in Seq(Message)
        /\ acks' \in Seq(0..(SeqMod - 1))
        /\ acks' = acks
        /\ UNCHANGED unchangedBySlaves
    BY <2>1 DEF TypeInv, TypeOK, wires
  <2>3. /\ client' \in [Clients -> {"away", "open", "rejected", "closed"}]
        /\ ready' \subseteq Clients
    <3>1. w.conn \in Clients \union {None}
      BY <1>1 DEF Slave
    <3>2. CASE Closed(w.conn)
      <4> HIDE DEF w
      <4> QED
        BY <3>1, <3>2, ClosedType
    <3>3. CASE ready' = ready \ {w.conn} /\ UNCHANGED client
      BY <3>3 DEF TypeInv, TypeOK
    <3> QED
      BY <2>1, <3>2, <3>3
  <2>4. \A v \in Slave : SlaveOK(again(v)) /\ SlaveOK(on(v))
    <3>1. ASSUME NEW v \in Slave PROVE SlaveOK(again(v))
      BY DEF SlaveOK, Slave
    <3>2. ASSUME NEW v \in Slave, MayTake(v) PROVE SlaveOK([v EXCEPT !.phase = "take"])
      BY <3>2 DEF SlaveOK, Slave, MayTake
    <3> QED
      BY <3>1, <3>2
  <2>5. WithoutConn(w) \in Slave /\ done \in Slave
    <3>1. WithoutConn(w) \in Slave
      BY <1>1, WithoutConnType
    <3>2. done \in Slave
      BY <1>1 DEF Slave
    <3> QED
      BY <3>1, <3>2
  <2>6. PICK u : SlaveOK(u) /\ slave' = [slave EXCEPT ![s] = u]
    <3> HIDE DEF again, on, done, w
    <3> QED
      BY <2>1, <2>4, <2>5
  <2> QED
    BY <2>2, <2>3, <2>6, OneSlave
<1> QED
  BY <1>2, <1>3

\* ... recvmsg() ...
LEMMA TakeTyped ==
  ASSUME TypeInv, NEW s \in Slaves, Take(s)
  PROVE  TypeInv'
<1>1. slave[s] \in Slave /\ slave[s].phase = "take" /\ slave[s].reqs < ReqsMax
  BY DEF TypeInv, TypeOK, Take, SlaveOK
<1>2. /\ signals' \subseteq {"CHLD", "TERM"}
      /\ acks' \in Seq(0..(SeqMod - 1))
      /\ acks' = acks
      /\ UNCHANGED unchangedBySlaves
      /\ queue \in Seq(Message)
  BY DEF TypeInv, TypeOK, Take
<1>3. CASE queue = <<>>
  <2> DEFINE u == [slave[s] EXCEPT !.phase = "select", !.sock = FALSE]
  <2>1. SlaveOK(u)
    BY <1>1 DEF SlaveOK, Slave
  <2>2. slave' = [slave EXCEPT ![s] = u]
    BY <1>3 DEF Take, TypeInv, TypeOK
  <2>3. /\ queue' = queue
        /\ client' \in [Clients -> {"away", "open", "rejected", "closed"}]
        /\ ready' \subseteq Clients
    BY <1>3 DEF Take, TypeInv, TypeOK
  <2> HIDE DEF u
  <2> QED
    BY <1>2, <2>1, <2>2, <2>3, OneSlave
<1>4. CASE queue # <<>>
  <2> DEFINE u == [WithoutConn(slave[s]) EXCEPT !.phase = "tell", !.next = Head(queue)]
  <2>1. Head(queue) \in Message /\ Tail(queue) \in Seq(Message)
    BY <1>2, <1>4
  <2>2. /\ u \in Slave
        /\ u.phase = "tell"
        /\ u.next = Head(queue)
        /\ u.reqs = slave[s].reqs
    BY <1>1, <2>1, WithoutConnType DEF Slave
  <2>3. SlaveOK(u)
    <3> HIDE DEF u
    <3> QED
      BY <1>1, <2>1, <2>2 DEF SlaveOK
  <2>4. slave' = [slave EXCEPT ![s] = u]
    BY <1>4 DEF Take, TypeInv, TypeOK
  <2>5. queue' \in Seq(Message)
    BY <1>4, <2>1 DEF Take
  <2>6. /\ client' \in [Clients -> {"away", "open", "rejected", "closed"}]
        /\ ready' \subseteq Clients
    BY <1>1, <1>4, ClosedType DEF Take, Slave
  <2> HIDE DEF u
  <2> QED
    BY <1>2, <2>3, <2>4, <2>5, <2>6, OneSlave
<1> QED
  BY <1>3, <1>4

\* ... the number and the new connection ...
LEMMA TellTyped ==
  ASSUME TypeInv, NEW s \in Slaves, Tell(s)
  PROVE  TypeInv'
<1> DEFINE w == [slave[s] EXCEPT !.phase = "select", !.next = None,
                                 !.sock = FALSE, !.reqs = @ + 1]
           c == slave[s].next.conn
           v == [w EXCEPT !.conn = c, !.fresh = TRUE, !.new = TRUE]
           d == [NewSlave EXCEPT !.phase = "dead"]
<1>1. /\ slave[s] \in Slave
      /\ slave[s].next \in Message
      /\ slave[s].reqs < ReqsMax
  BY DEF TypeInv, TypeOK, Tell, SlaveOK
<1>2. c \in Clients /\ slave[s].next.seq \in 0..(SeqMod - 1)
  BY <1>1 DEF Message
<1>3. w \in Slave /\ w.phase = "select"
  <2>1. slave[s].reqs + 1 \in 0..ReqsMax
    BY <1>1, BonesAssumption DEF Slave
  <2>2. w \in Slave
    BY <1>1, <2>1 DEF Slave
  <2>3. w.phase = "select"
    BY <1>1 DEF Slave
  <2> QED
    BY <2>2, <2>3
<1>4. v \in Slave /\ v.phase = "select"
  <2> HIDE DEF w, c
  <2> QED
    BY <1>2, <1>3 DEF Slave
<1>5. /\ acks' = Append(acks, slave[s].next.seq)
      /\ UNCHANGED <<unchangedBySlaves, queue>>
      /\ \/ /\ slave' = [slave EXCEPT ![s] = v]
            /\ UNCHANGED <<signals, client, ready>>
         \/ slave' = [slave EXCEPT ![s] = w] /\ Closed(c) /\ UNCHANGED signals
         \/ /\ slave' = [slave EXCEPT ![s] = d]
            /\ signals' = signals \union {"CHLD"}
            /\ Closed(c)
  BY DEF Tell
<1>6. acks' \in Seq(0..(SeqMod - 1)) /\ acks' # <<>>
  BY <1>2, <1>5 DEF TypeInv, TypeOK
<1>7. SlaveOK(d)
  BY NewSlaveOK
<1> HIDE DEF w, v, c, d
<1>12. SlaveOK(w) /\ SlaveOK(v)
  BY <1>3, <1>4 DEF SlaveOK
<1>8. signals' \subseteq {"CHLD", "TERM"}
  BY <1>5 DEF TypeInv, TypeOK
<1>9. /\ client' \in [Clients -> {"away", "open", "rejected", "closed"}]
      /\ ready' \subseteq Clients
  <2>1. CASE UNCHANGED <<client, ready>>
    BY <2>1 DEF TypeInv, TypeOK
  <2>2. CASE Closed(c)
    BY <1>2, <2>2, ClosedType
  <2> QED
    BY <1>5, <2>1, <2>2
<1>10. queue' \in Seq(Message) /\ UNCHANGED unchangedBySlaves
  BY <1>5 DEF TypeInv, TypeOK
<1>11. PICK u : SlaveOK(u) /\ slave' = [slave EXCEPT ![s] = u]
  BY <1>5, <1>7, <1>12
<1> QED
  BY <1>6, <1>8, <1>9, <1>10, <1>11, OneSlave

\* ... and time.
LEMMA TimeTyped ==
  ASSUME TypeInv, NEW s \in Slaves, Ages(s) \/ Quiet(s)
  PROVE  TypeInv'
<1>1. slave[s] \in Slave /\ SlaveOK(slave[s])
  BY DEF TypeInv, TypeOK
<1>2. /\ SlaveOK([slave[s] EXCEPT !.new = FALSE])
      /\ SlaveOK([slave[s] EXCEPT !.idle = TRUE])
  BY <1>1 DEF SlaveOK, Slave
<1>3. PICK u : SlaveOK(u) /\ slave' = [slave EXCEPT ![s] = u]
  <2>1. \/ slave' = [slave EXCEPT ![s] = [slave[s] EXCEPT !.new = FALSE]]
        \/ slave' = [slave EXCEPT ![s] = [slave[s] EXCEPT !.idle = TRUE]]
    BY DEF Ages, Quiet, TypeInv, TypeOK
  <2> QED
    BY <1>2, <2>1
<1>4. /\ signals' \subseteq {"CHLD", "TERM"}
      /\ queue' \in Seq(Message)
      /\ acks' \in Seq(0..(SeqMod - 1))
      /\ acks' = acks
      /\ UNCHANGED unchangedBySlaves
      /\ client' \in [Clients -> {"away", "open", "rejected", "closed"}]
      /\ ready' \subseteq Clients
  BY DEF Ages, Quiet, TypeInv, TypeOK, wires
<1> QED
  BY <1>3, <1>4, OneSlave

\* The master's steps and the clients'.
LEMMA MasterTyped ==
  ASSUME TypeInv, Master
  PROVE  TypeInv'
<1> USE DEF TypeInv, TypeOK, MasterOK
<1>0. (\A s \in Slaves : SlaveOK(slave[s])) /\ UNCHANGED slave
        => \A s \in Slaves : SlaveOK(slave'[s])
  OBVIOUS
<1>1. CASE Unblock
  <2> DEFINE died == master.childDied \/ "CHLD" \in signals
             told == "TERM" \in signals
  <2>a. master' = [master EXCEPT !.pc = "select", !.childDied = died, !.die = told]
    BY <1>1 DEF Unblock
  <2>b. died \in BOOLEAN /\ told \in BOOLEAN
    OBVIOUS
  <2>1. master' \in [pc : {"top", "select", "awake", "dispatch", "gone"},
                    childDied : BOOLEAN, die : BOOLEAN, acked : BOOLEAN,
                    todo : SUBSET Services]
    <3> HIDE DEF died, told
    <3> QED
      BY <2>a, <2>b
  <2>2. master'.acked = master.acked /\ master'.todo = master.todo
    BY <1>1 DEF Unblock
  <2>3. MasterOK'
    BY <1>1, <2>2 DEF Unblock, wires
  <2> QED
    BY <1>0, <1>1, <2>1, <2>3 DEF Unblock, wires, SlaveOK
<1>2. CASE Wake
  BY <1>0, <1>2 DEF Wake, wires, SlaveOK
<1>3. CASE Resurrect
  <2>1. PICK revived : slave' = [s \in Slaves |-> IF s \in revived THEN NewSlave ELSE slave[s]]
    BY <1>3 DEF Resurrect
  <2>2. \A s \in Slaves : SlaveOK(slave'[s])
    BY <2>1, NewSlaveOK
  <2>3. slave' \in [Slaves -> Slave]
    BY <2>1, <2>2 DEF SlaveOK
  <2> QED
    BY <1>3, <2>2, <2>3 DEF Resurrect, wires, SlaveOK
<1>4. CASE Terminate
  BY <1>0, <1>4 DEF Terminate, wires, SlaveOK
<1>5. CASE ReadAck
  <2>1. CASE master.acked
    <3>1. Head(acks) \in 0..(SeqMod - 1) /\ Tail(acks) \in Seq(0..(SeqMod - 1))
      <4>1. acks \in Seq(0..(SeqMod - 1)) /\ acks # <<>>
        BY <2>1
      <4>2. \A S : \A q \in Seq(S) : q # <<>> => Head(q) \in S /\ Tail(q) \in Seq(S)
        OBVIOUS
      <4> QED
        BY ONLY <4>1, <4>2
    <3>2. accepted' \in 0..(SeqMod - 1) /\ acks' \in Seq(0..(SeqMod - 1))
      <4>1. accepted' = Head(acks) \/ accepted' = accepted
        BY <1>5, <2>1 DEF ReadAck
      <4>2. acks' = Tail(acks)
        BY <1>5, <2>1 DEF ReadAck
      <4> QED
        BY <3>1, <4>1, <4>2
    <3>3. MasterOK'
      BY <1>5 DEF ReadAck
    <3> QED
      BY <1>0, <1>5, <3>2, <3>3 DEF ReadAck, SlaveOK
  <2>2. CASE ~master.acked
    BY <1>0, <1>5, <2>2 DEF ReadAck, SlaveOK
  <2> QED
    BY <2>1, <2>2
<1>6. ASSUME NEW v \in Services, Dispatch(v) PROVE TypeInv'
  <2> DEFINE c == Head(backlog[v])
  <2>1. backlog[v] \in Seq(Clients) /\ backlog[v] # <<>>
    BY <1>6 DEF Dispatch
  <2>2. c \in Clients /\ Tail(backlog[v]) \in Seq(Clients)
    BY <2>1
  <2>3. backlog' \in [Services -> Seq(Clients)]
    BY <1>6, <2>2 DEF Dispatch
  <2>4. NextNumber \in 0..(SeqMod - 1)
    BY BonesAssumption DEF NextNumber
  <2>5. [conn |-> c, seq |-> dispatched] \in Message
    BY <2>2 DEF Message
  <2>6. dispatched' \in 0..(SeqMod - 1)
    BY <1>6, <2>4 DEF Dispatch
  <2>7. queue' \in Seq(Message)
    <3>1. Append(queue, [conn |-> c, seq |-> dispatched]) \in Seq(Message)
      BY <2>5
    <3>2. queue' = Append(queue, [conn |-> c, seq |-> dispatched]) \/ queue' = queue
      BY <1>6 DEF Dispatch
    <3> QED
      BY <3>1, <3>2
  <2>8. client' \in [Clients -> {"away", "open", "rejected", "closed"}]
    BY <1>6, <2>2 DEF Dispatch
  <2>9. MasterOK'
    BY <1>6 DEF Dispatch
  <2>10. master' \in [pc : {"top", "select", "awake", "dispatch", "gone"},
                      childDied : BOOLEAN, die : BOOLEAN, acked : BOOLEAN,
                      todo : SUBSET Services]
    BY <1>6 DEF Dispatch
  <2>11. /\ UNCHANGED <<signals, accepted, acks, slave, ready>>
    BY <1>6 DEF Dispatch
  <2> QED
    BY <1>0, <2>3, <2>6, <2>7, <2>8, <2>9, <2>10, <2>11 DEF SlaveOK
<1>7. CASE Loop
  BY <1>0, <1>7 DEF Loop, wires, SlaveOK
<1> QED
  BY <1>1, <1>2, <1>3, <1>4, <1>5, <1>6, <1>7 DEF Master

\* The steps from outside: connections, requests, a signal.
LEMMA ClientsTyped ==
  ASSUME TypeInv,
         Terminated \/ \E c \in Clients : Connect(c) \/ Request(c)
  PROVE  TypeInv'
<1> USE DEF TypeInv, TypeOK, MasterOK
<1>1. CASE Terminated
  BY <1>1 DEF Terminated, wires, SlaveOK
<1>2. ASSUME NEW c \in Clients, Connect(c) PROVE TypeInv'
  <2>1. PICK v \in Services : backlog' = [backlog EXCEPT ![v] = Append(@, c)]
    BY <1>2 DEF Connect
  <2>2. backlog' \in [Services -> Seq(Clients)]
    BY <2>1
  <2>3. \A u \in Services : backlog[u] # <<>> => backlog'[u] # <<>>
    <3>1. Append(backlog[v], c) # <<>>
      BY <2>1
    <3> QED
      BY <2>1, <3>1
  <2>4. MasterOK'
    BY <1>2, <2>3 DEF Connect, wires
  <2> QED
    BY <1>2, <2>2, <2>4 DEF Connect, wires, SlaveOK
<1>3. ASSUME NEW c \in Clients, Request(c) PROVE TypeInv'
  BY <1>3 DEF Request, wires, SlaveOK
<1> QED
  BY <1>1, <1>2, <1>3

\* The initial state is typed.
LEMMA TypeInit ==
  ASSUME Init
  PROVE  TypeInv
<1>1. \A s \in Slaves : SlaveOK(slave[s])
  BY NewSlaveOK DEF Init
<1>2. slave \in [Slaves -> Slave]
  BY NewSlaveOK DEF Init, SlaveOK
<1>3. MasterOK
  BY DEF Init, MasterOK
<1>4. TypeOK
  BY <1>2, BonesAssumption DEF Init, TypeOK
<1> QED
  BY <1>1, <1>3, <1>4 DEF TypeInv

\* Every step keeps the types.
LEMMA TypeStep ==
  ASSUME TypeInv, [Next]_vars
  PROVE  TypeInv'
<1>1. CASE UNCHANGED vars
  BY <1>1 DEF vars, wires, TypeInv, TypeOK, MasterOK, SlaveOK
<1>2. ASSUME NEW s \in Slaves, SlaveStep(s) \/ Crash(s) \/ Ages(s) \/ Quiet(s)
      PROVE  TypeInv'
  <2>1. CASE Stop(s) \/ Crash(s)
    BY <2>1, DiesTyped DEF Stop, Crash
  <2> QED
    BY <1>2, <2>1, SelectTyped, ServeTyped, TakeTyped, TellTyped, TimeTyped DEF SlaveStep
<1> QED
  BY <1>1, <1>2, MasterTyped, ClientsTyped DEF Next

\* The type invariant of the master, its slaves and the socket pair, for every
\* number of them.
THEOREM BonesTyped == Spec => []TypeOK
<1>1. Spec => []TypeInv
  BY TypeInit, TypeStep, PTL DEF Spec
<1> QED
  BY <1>1, PTL DEF TypeInv

-------------------------------------------------------------------------------
(* What a slave's step does to the deaths and to the numbers.              *)

\* Deaths are signalled.
DeathsSignalled ==
  /\ signals \subseteq signals'
  /\ \A t \in Slaves : slave'[t].phase = "dead"
                        => slave[t].phase = "dead" \/ "CHLD" \in signals'
  /\ master' = master

\* No connection is taken and no number told.
NumbersKept ==
  /\ UNCHANGED <<dispatched, accepted, queue, acks>>
  /\ \A t \in Slaves : slave'[t].phase = "tell"
                        => slave[t].phase = "tell" /\ slave'[t].next = slave[t].next

\* A step of one slave that is not about to tell a number afterwards.
LEMMA OneSlaveEffect ==
  ASSUME TypeInv, NEW s \in Slaves, NEW u,
         slave' = [slave EXCEPT ![s] = u],
         u.phase # "tell",
         u.phase # "dead" \/ "CHLD" \in signals',
         signals \subseteq signals',
         UNCHANGED unchangedBySlaves
  PROVE  /\ DeathsSignalled
         /\ UNCHANGED <<queue, acks>> => NumbersKept
<1>1. slave'[s] = u /\ \A t \in Slaves : t # s => slave'[t] = slave[t]
  BY DEF TypeInv, TypeOK
<1>2. DeathsSignalled
  BY <1>1 DEF DeathsSignalled, unchangedBySlaves
<1>3. UNCHANGED <<queue, acks>> => NumbersKept
  BY <1>1 DEF NumbersKept, unchangedBySlaves
<1> QED
  BY <1>2, <1>3

\* A slave's end is signalled.
LEMMA DiesEffect ==
  ASSUME TypeInv, NEW s \in Slaves, Dies(s), UNCHANGED unchangedBySlaves
  PROVE  DeathsSignalled /\ NumbersKept
<1> DEFINE d == [NewSlave EXCEPT !.phase = "dead"]
<1>1. d.phase = "dead"
  BY DEF NewSlave
<1>2. /\ slave' = [slave EXCEPT ![s] = d]
      /\ signals' = signals \union {"CHLD"}
      /\ UNCHANGED <<queue, acks>>
  BY DEF Dies, wires
<1> HIDE DEF d
<1> QED
  BY <1>1, <1>2, OneSlaveEffect

\* select() kills nobody and moves no number.
LEMMA SelectEffect ==
  ASSUME TypeInv, NEW s \in Slaves, Select(s)
  PROVE  DeathsSignalled /\ NumbersKept
<1> DEFINE w == [slave[s] EXCEPT !.sock = queue # <<>>]
<1>1. slave[s] \in Slave /\ slave[s].phase = "select"
  BY DEF TypeInv, TypeOK, Select
<1>2. w \in Slave
  BY <1>1 DEF Slave
<1>3. /\ UNCHANGED unchangedBySlaves
      /\ UNCHANGED <<signals, queue, acks>>
  BY DEF Select, wires
<1>4. \/ slave' = [slave EXCEPT ![s] = [w EXCEPT !.phase = "serve"]]
      \/ slave' = [slave EXCEPT ![s] = [w EXCEPT !.phase = "take"]]
      \/ slave' = [slave EXCEPT ![s] = WithoutConn(slave[s])]
  BY <1>1 DEF Select, TypeInv, TypeOK
<1>5. /\ [w EXCEPT !.phase = "serve"].phase = "serve"
      /\ [w EXCEPT !.phase = "take"].phase = "take"
      /\ WithoutConn(slave[s]).phase = "select"
  BY <1>1, <1>2, WithoutConnType DEF Slave
<1> HIDE DEF w
<1>6. PICK u : /\ slave' = [slave EXCEPT ![s] = u]
               /\ u.phase \in {"serve", "take", "select"}
  BY <1>4, <1>5
<1> QED
  BY <1>3, <1>6, OneSlaveEffect

\* Nor does a request, unless its handler ends the slave.
LEMMA ServeEffect ==
  ASSUME TypeInv, NEW s \in Slaves, Serve(s)
  PROVE  DeathsSignalled /\ NumbersKept
<1> DEFINE w == slave[s]
           done == [w EXCEPT !.fresh = FALSE, !.idle = FALSE]
           again(v) == [v EXCEPT !.phase = "select", !.sock = FALSE]
           on(v) == IF ~w.new /\ MayTake(v) THEN [v EXCEPT !.phase = "take"] ELSE again(v)
<1>1. w \in Slave
  BY DEF TypeInv, TypeOK
<1>2. CASE Dies(s)
  BY <1>2, DiesEffect DEF Serve
<1>3. CASE ~Dies(s)
  <2>1. /\ UNCHANGED unchangedBySlaves
        /\ UNCHANGED <<signals, queue, acks>>
        /\ \/ slave' = [slave EXCEPT ![s] = again(WithoutConn(w))]
           \/ slave' = [slave EXCEPT ![s] = on(WithoutConn(w))]
           \/ slave' = [slave EXCEPT ![s] = on(done)]
    BY <1>3 DEF Serve, wires
  <2>2. \A v \in Slave : /\ again(v).phase = "select"
                         /\ on(v).phase \in {"select", "take"}
    BY DEF Slave
  <2>3. WithoutConn(w) \in Slave /\ done \in Slave
    <3>1. WithoutConn(w) \in Slave
      BY <1>1, WithoutConnType
    <3>2. done \in Slave
      BY <1>1 DEF Slave
    <3> QED
      BY <3>1, <3>2
  <2>4. PICK u : /\ slave' = [slave EXCEPT ![s] = u]
                 /\ u.phase \in {"select", "take"}
    <3> HIDE DEF again, on, done, w
    <3> QED
      BY <2>1, <2>2, <2>3
  <2> QED
    BY <2>1, <2>4, OneSlaveEffect
<1> QED
  BY <1>2, <1>3

\* A number told joins those on their way; the slave may die of its handler.
LEMMA TellEffect ==
  ASSUME TypeInv, NEW s \in Slaves, Tell(s)
  PROVE  /\ DeathsSignalled
         /\ UNCHANGED <<dispatched, accepted, queue>>
         /\ slave[s].phase = "tell"
         /\ acks' = Append(acks, slave[s].next.seq)
         /\ \A t \in Slaves : slave'[t].phase = "tell"
                               => slave[t].phase = "tell" /\ slave'[t].next = slave[t].next
<1> DEFINE w == [slave[s] EXCEPT !.phase = "select", !.next = None,
                                 !.sock = FALSE, !.reqs = @ + 1]
           v == [w EXCEPT !.conn = slave[s].next.conn, !.fresh = TRUE, !.new = TRUE]
           d == [NewSlave EXCEPT !.phase = "dead"]
<1>1. slave[s] \in Slave
  BY DEF TypeInv, TypeOK
<1>2. /\ acks' = Append(acks, slave[s].next.seq)
      /\ UNCHANGED unchangedBySlaves
      /\ queue' = queue
      /\ slave[s].phase = "tell"
      /\ \/ slave' = [slave EXCEPT ![s] = v] /\ signals' = signals
         \/ slave' = [slave EXCEPT ![s] = w] /\ signals' = signals
         \/ slave' = [slave EXCEPT ![s] = d] /\ signals' = signals \union {"CHLD"}
  BY DEF Tell
<1>3. w.phase = "select" /\ v.phase = "select"
  BY <1>1 DEF Slave
<1>4. d.phase = "dead"
  BY DEF NewSlave
<1> HIDE DEF w, v, d
<1>5. PICK u : /\ slave' = [slave EXCEPT ![s] = u]
               /\ u.phase # "tell"
               /\ u.phase # "dead" \/ "CHLD" \in signals'
               /\ signals \subseteq signals'
  BY <1>2, <1>3, <1>4
<1>6. DeathsSignalled
  BY <1>2, <1>5, OneSlaveEffect
<1>7. slave'[s] = u /\ \A t \in Slaves : t # s => slave'[t] = slave[t]
  BY <1>5 DEF TypeInv, TypeOK
<1> QED
  BY <1>2, <1>5, <1>6, <1>7 DEF unchangedBySlaves

\* A connection taken is the first in the pair.
LEMMA TakeEffect ==
  ASSUME TypeInv, NEW s \in Slaves, Take(s)
  PROVE  /\ DeathsSignalled
         /\ \/ NumbersKept
            \/ /\ UNCHANGED <<dispatched, accepted, acks>>
               /\ queue # <<>>
               /\ queue' = Tail(queue)
               /\ \A t \in Slaves :
                    slave'[t].phase = "tell"
                      => \/ slave[t].phase = "tell" /\ slave'[t].next = slave[t].next
                         \/ slave'[t].next = Head(queue)
<1>1. slave[s] \in Slave
  BY DEF TypeInv, TypeOK
<1>2. /\ UNCHANGED unchangedBySlaves
      /\ UNCHANGED <<signals, acks>>
  BY DEF Take
<1>3. CASE queue = <<>>
  <2> DEFINE u == [slave[s] EXCEPT !.phase = "select", !.sock = FALSE]
  <2>1. u.phase = "select"
    BY <1>1 DEF Slave
  <2>2. slave' = [slave EXCEPT ![s] = u] /\ queue' = queue
    BY <1>3 DEF Take, TypeInv, TypeOK
  <2> HIDE DEF u
  <2> QED
    BY <1>2, <2>1, <2>2, OneSlaveEffect
<1>4. CASE queue # <<>>
  <2> DEFINE u == [WithoutConn(slave[s]) EXCEPT !.phase = "tell", !.next = Head(queue)]
  <2>1. u.phase = "tell" /\ u.next = Head(queue)
    BY <1>1, WithoutConnType DEF Slave
  <2>2. slave' = [slave EXCEPT ![s] = u] /\ queue' = Tail(queue)
    BY <1>4 DEF Take, TypeInv, TypeOK
  <2> HIDE DEF u
  <2>3. slave'[s] = u /\ \A t \in Slaves : t # s => slave'[t] = slave[t]
    BY <2>2 DEF TypeInv, TypeOK
  <2> QED
    BY <1>2, <1>4, <2>1, <2>2, <2>3 DEF DeathsSignalled, unchangedBySlaves
<1> QED
  BY <1>3, <1>4

\* Time moves nothing.
LEMMA TimeEffect ==
  ASSUME TypeInv, NEW s \in Slaves, Ages(s) \/ Quiet(s)
  PROVE  DeathsSignalled /\ NumbersKept
<1>1. slave[s] \in Slave
  BY DEF TypeInv, TypeOK
<1>2. PICK u \in {[slave[s] EXCEPT !.new = FALSE], [slave[s] EXCEPT !.idle = TRUE]} :
        slave' = [slave EXCEPT ![s] = u]
  BY DEF Ages, Quiet, TypeInv, TypeOK
<1>3. u.phase = slave[s].phase /\ u.next = slave[s].next
  BY <1>1, <1>2 DEF Slave
<1>4. slave'[s] = u /\ \A t \in Slaves : t # s => slave'[t] = slave[t]
  BY <1>2 DEF TypeInv, TypeOK
<1>5. UNCHANGED unchangedBySlaves /\ UNCHANGED <<signals, queue, acks>>
  BY DEF Ages, Quiet, wires
<1> QED
  BY <1>3, <1>4, <1>5 DEF DeathsSignalled, NumbersKept, unchangedBySlaves

-------------------------------------------------------------------------------
(* Deaths.                                                                 *)

\* Every step keeps the deaths noted.
LEMMA DeathsRemembered ==
  ASSUME TypeInv, NoDeathForgotten, [Next]_vars
  PROVE  NoDeathForgotten'
<1> USE DEF NoDeathForgotten
<1>1. CASE UNCHANGED vars
  BY <1>1 DEF vars
<1>2. CASE Terminated \/ \E c \in Clients : Connect(c) \/ Request(c)
  BY <1>2 DEF Terminated, Connect, Request
<1>3. CASE DeathsSignalled
  BY <1>3 DEF DeathsSignalled
<1>4. CASE Master
  <2> USE DEF TypeInv, TypeOK
  <2>1. CASE Unblock
    BY <2>1 DEF Unblock
  <2>2. CASE Wake
    BY <2>2 DEF Wake
  <2>3. CASE Resurrect
    <3>1. CASE master.die
      BY <2>3, <3>1 DEF Resurrect
    <3>2. CASE ~master.die
      <4> DEFINE dead == {s \in Slaves : slave[s].phase = "dead"}
      <4>1. slave' = [s \in Slaves |-> IF s \in dead THEN NewSlave ELSE slave[s]]
        BY <2>3, <3>2 DEF Resurrect, Reap
      <4>2. \A s \in Slaves : slave'[s].phase # "dead"
        BY <4>1 DEF NewSlave
      <4> QED
        BY <4>2
    <3> QED
      BY <3>1, <3>2
  <2>4. CASE Terminate
    BY <2>4 DEF Terminate
  <2>5. CASE ReadAck
    BY <2>5 DEF ReadAck
  <2>6. CASE \E v \in Services : Dispatch(v)
    BY <2>6 DEF Dispatch
  <2>7. CASE Loop
    BY <2>7 DEF Loop
  <2> QED
    BY <1>4, <2>1, <2>2, <2>3, <2>4, <2>5, <2>6, <2>7 DEF Master
<1>5. ASSUME NEW s \in Slaves, SlaveStep(s) \/ Crash(s) \/ Ages(s) \/ Quiet(s)
      PROVE  DeathsSignalled
  <2>1. CASE Stop(s) \/ Crash(s)
    BY <2>1, DiesEffect DEF Stop, Crash
  <2> QED
    BY <1>5, <2>1, SelectEffect, ServeEffect, TakeEffect, TellEffect, TimeEffect
       DEF SlaveStep
<1> QED
  BY <1>1, <1>2, <1>3, <1>4, <1>5 DEF Next

\* SIGCHLD is not queued and a select() may miss it, but a dead slave is always
\* noted somewhere, whatever dies when.
THEOREM DeathsNotForgotten == Spec => []NoDeathForgotten
<1>1. Init => NoDeathForgotten
  BY DEF Init, NoDeathForgotten, NewSlave
<1>2. TypeInv /\ NoDeathForgotten /\ [Next]_vars => NoDeathForgotten'
  BY DeathsRemembered
<1> QED
  BY <1>1, <1>2, TypeInit, TypeStep, PTL DEF Spec

-------------------------------------------------------------------------------
(* Numbers, as long as they do not wrap.                                   *)

\* The numbers that are no longer in the socket pair and may still count.
Told == {accepted}
        \union {acks[j] : j \in DOMAIN acks}
        \union {slave[s].next.seq : s \in {t \in Slaves : slave[t].phase = "tell"}}

\* The numbers in the pair ascend up to the next one to be given, a number may be
\* missing, and none told or to be told is beyond the first of them.
NumbersInv ==
  /\ dispatched - accepted <= Limit
  /\ \A n \in Told : n <= dispatched
  /\ \A i \in 1..Len(queue) :
       /\ queue[i].seq + (Len(queue) - i) < dispatched
       /\ \A n \in Told : n <= queue[i].seq
       /\ \A k \in i..Len(queue) : queue[i].seq <= queue[k].seq

\* Elements of a sequence are typed.
LEMMA ElementsTyped ==
  ASSUME NEW S, NEW q \in Seq(S)
  PROVE  \A j \in DOMAIN q : q[j] \in S
OBVIOUS

\* All numbers compared are integers.
LEMMA ToldIntegers ==
  ASSUME TypeInv
  PROVE  /\ \A n \in Told : n \in Int
         /\ \A i \in 1..Len(queue) : queue[i] \in Message /\ queue[i].seq \in Int
         /\ dispatched \in Int /\ accepted \in Int /\ Len(queue) \in Nat
<1>1. \A j \in DOMAIN acks : acks[j] \in 0..(SeqMod - 1)
  <2>1. acks \in Seq(0..(SeqMod - 1))
    BY DEF TypeInv, TypeOK
  <2> QED
    BY ONLY <2>1, ElementsTyped
<1>2. \A s \in Slaves : slave[s].phase = "tell" => slave[s].next.seq \in 0..(SeqMod - 1)
  BY DEF TypeInv, SlaveOK, Message
<1>3. \A i \in 1..Len(queue) : queue[i] \in Message
  BY DEF TypeInv, TypeOK
<1>4. \A m \in Message : m.seq \in Int
  BY BonesAssumption DEF Message
<1>5. dispatched \in Int /\ accepted \in Int /\ Len(queue) \in Nat
  BY BonesAssumption DEF TypeInv, TypeOK
<1>6. 0..(SeqMod - 1) \subseteq Int
  BY BonesAssumption
<1> QED
  BY <1>1, <1>2, <1>3, <1>4, <1>5, <1>6 DEF Told

\* Numbers told or forgotten leave the others in order.
LEMMA FewerTold ==
  ASSUME TypeInv, NumbersInv,
         UNCHANGED <<dispatched, queue>>,
         accepted' = accepted \/ (accepted' \in Nat /\ accepted' > accepted),
         Told' \subseteq Told
  PROVE  NumbersInv'
<1>1. dispatched - accepted' <= Limit
  BY ToldIntegers, LimitType DEF NumbersInv
<1> QED
  BY <1>1 DEF NumbersInv, Limit

\* A step that moves no number keeps their order.
LEMMA NumbersKeptInv ==
  ASSUME TypeInv, NumbersInv, NumbersKept
  PROVE  NumbersInv'
<1>1. Told' \subseteq Told
  BY DEF Told, NumbersKept
<1> QED
  BY <1>1, FewerTold DEF NumbersKept

\* So does telling one ...
LEMMA TellNumbers ==
  ASSUME TypeInv, NumbersInv, NEW s \in Slaves, Tell(s)
  PROVE  NumbersInv'
<1>1. /\ UNCHANGED <<dispatched, accepted, queue>>
      /\ slave[s].phase = "tell"
      /\ acks' = Append(acks, slave[s].next.seq)
      /\ \A t \in Slaves : slave'[t].phase = "tell"
                            => slave[t].phase = "tell" /\ slave'[t].next = slave[t].next
  BY TellEffect
<1>2. acks \in Seq(0..(SeqMod - 1))
  BY DEF TypeInv, TypeOK
<1>3. \A j \in DOMAIN acks' : \/ j \in DOMAIN acks /\ acks'[j] = acks[j]
                             \/ acks'[j] = slave[s].next.seq
  BY <1>1, <1>2
<1>4. \A j \in DOMAIN acks' : acks'[j] \in Told
  BY <1>1, <1>3 DEF Told
<1>5. Told' \subseteq Told
  BY <1>1, <1>4 DEF Told
<1> QED
  BY <1>1, <1>5, FewerTold

\* ... taking a connection, whose number is the least in the pair ...
LEMMA TakeNumbers ==
  ASSUME TypeInv, NumbersInv, NEW s \in Slaves, Take(s)
  PROVE  NumbersInv'
<1>1. CASE NumbersKept
  BY <1>1, NumbersKeptInv
<1>2. CASE ~NumbersKept
  <2>1. /\ UNCHANGED <<dispatched, accepted, acks>>
        /\ queue # <<>>
        /\ queue' = Tail(queue)
        /\ \A t \in Slaves :
             slave'[t].phase = "tell"
               => \/ slave[t].phase = "tell" /\ slave'[t].next = slave[t].next
                  \/ slave'[t].next = Head(queue)
    BY <1>2, TakeEffect
  <2>2. queue \in Seq(Message)
    BY DEF TypeInv, TypeOK
  <2>3. /\ Len(queue) \in Nat /\ Len(queue) >= 1
        /\ Len(queue') = Len(queue) - 1
        /\ Head(queue) = queue[1]
        /\ \A i \in 1..Len(queue') : i + 1 \in 1..Len(queue) /\ queue'[i] = queue[i + 1]
    BY <2>1, <2>2
  <2>4. Told' \subseteq Told \union {queue[1].seq}
    BY <2>1, <2>3 DEF Told
  <2>5. 1 \in 1..Len(queue)
    BY <2>3
  <2>6. queue[1].seq <= dispatched
    BY <2>3, <2>5, ToldIntegers, SMTT(30) DEF NumbersInv
  <2>7. \A n \in Told' : n <= dispatched'
    BY <2>1, <2>4, <2>6 DEF NumbersInv
  <2>8. ASSUME NEW i \in 1..Len(queue')
        PROVE  /\ queue'[i].seq + (Len(queue') - i) < dispatched'
               /\ \A n \in Told' : n <= queue'[i].seq
               /\ \A k \in i..Len(queue') : queue'[i].seq <= queue'[k].seq
    <3>1. i + 1 \in 1..Len(queue) /\ queue'[i] = queue[i + 1]
      BY <2>3
    <3>2. queue'[i].seq + (Len(queue') - i) < dispatched'
      BY <2>1, <2>3, <3>1, ToldIntegers DEF NumbersInv
    <3>3. queue[1].seq <= queue[i + 1].seq
      BY <2>5, <3>1 DEF NumbersInv
    <3>4. \A n \in Told' : n <= queue'[i].seq
      BY <2>4, <3>1, <3>3 DEF NumbersInv
    <3>5. ASSUME NEW k \in i..Len(queue')
          PROVE  queue'[i].seq <= queue'[k].seq
      <4>1. k + 1 \in (i + 1)..Len(queue) /\ queue'[k] = queue[k + 1]
        BY <2>3
      <4> QED
        BY <3>1, <4>1 DEF NumbersInv
    <3> QED
      BY <3>2, <3>4, <3>5
  <2>9. dispatched' - accepted' <= Limit
    BY <2>1 DEF NumbersInv
  <2> QED
    BY <2>7, <2>8, <2>9 DEF NumbersInv, Limit
<1> QED
  BY <1>1, <1>2

\* ... reading a number, which counts if it is later ...
LEMMA ReadAckNumbers ==
  ASSUME TypeInv, NumbersInv, ReadAck
  PROVE  NumbersInv'
<1>1. UNCHANGED <<dispatched, queue, slave>>
  BY DEF ReadAck
<1>2. CASE ~master.acked
  <2>1. UNCHANGED <<accepted, acks>>
    BY <1>2 DEF ReadAck
  <2>2. Told' \subseteq Told
    BY <1>1, <2>1 DEF Told
  <2> QED
    BY <1>1, <2>1, <2>2, FewerTold
<1>3. CASE master.acked
  <2>1. acks # <<>> /\ acks \in Seq(0..(SeqMod - 1)) /\ accepted \in Int
    BY <1>3, BonesAssumption DEF TypeInv, TypeOK, MasterOK
  <2>2. /\ acks' = Tail(acks)
        /\ accepted' = IF Counts(Head(acks)) THEN Head(acks) ELSE accepted
    BY <1>3 DEF ReadAck
  <2>3. /\ Head(acks) = acks[1] /\ 1 \in DOMAIN acks
        /\ \A j \in DOMAIN acks' : j + 1 \in DOMAIN acks /\ acks'[j] = acks[j + 1]
    BY <2>1, <2>2
  <2>4. acks[1] \in Nat
    <3>1. acks[1] \in 0..(SeqMod - 1)
      BY ONLY <2>1, <2>3, ElementsTyped
    <3> QED
      BY <3>1, BonesAssumption
  <2>5. ~(accepted > dispatched)
    BY ToldIntegers DEF NumbersInv, Told
  <2>6. accepted' = accepted \/ (accepted' = acks[1] /\ accepted' > accepted)
    BY <2>2, <2>3, <2>5 DEF Counts
  <2>7. Told' \subseteq Told
    BY <1>1, <2>3, <2>6 DEF Told
  <2> QED
    BY <1>1, <2>4, <2>6, <2>7, FewerTold
<1> QED
  BY <1>2, <1>3

\* ... and giving a connection the next number, if admission allows it.
LEMMA DispatchNumbers ==
  ASSUME TypeInv, NumbersInv, NEW v \in Services, Dispatch(v),
         dispatched' >= dispatched
  PROVE  NumbersInv'
<1> DEFINE m == [conn |-> Head(backlog[v]), seq |-> dispatched]
<1>1. UNCHANGED <<accepted, acks, slave>>
  BY DEF Dispatch
<1>2. Told' = Told
  BY <1>1 DEF Told
<1>3. queue' = queue \/ queue' = Append(queue, m)
  BY DEF Dispatch
<1>4. accepted \in Told /\ accepted <= dispatched
  BY DEF NumbersInv, Told
<1>5. CASE ~Admits
  <2>1. UNCHANGED <<dispatched, queue>>
    BY <1>5 DEF Dispatch
  <2> QED
    BY <1>1, <1>2, <2>1, FewerTold
<1>6. CASE Admits
  <2>1. dispatched' = dispatched + 1
    <3>1. dispatched' = NextNumber
      BY <1>6 DEF Dispatch
    <3>2. dispatched \in Nat
      BY BonesAssumption DEF TypeInv, TypeOK
    <3> QED
      BY <3>1, <3>2, BonesAssumption DEF NextNumber
  <2>2. dispatched - accepted < Limit
    BY <1>4, <1>6, ToldIntegers DEF Admits
  <2>3. dispatched' - accepted' <= Limit
    BY <1>1, <2>1, <2>2, ToldIntegers, LimitType
  <2>4. \A n \in Told' : n <= dispatched /\ n <= dispatched'
    BY <1>2, <2>1, ToldIntegers DEF NumbersInv
  <2>5. CASE queue' = queue
    <3>1. \A i \in 1..Len(queue) : queue[i].seq + (Len(queue) - i) < dispatched'
      BY <2>1, ToldIntegers DEF NumbersInv
    <3> QED
      BY <1>2, <2>3, <2>4, <2>5, <3>1 DEF NumbersInv, Limit
  <2>6. CASE queue' = Append(queue, m)
    <3>1. queue \in Seq(Message) /\ Len(queue) \in Nat
      BY DEF TypeInv, TypeOK
    <3>2. /\ Len(queue') = Len(queue) + 1
          /\ queue'[Len(queue) + 1] = m
          /\ \A i \in 1..Len(queue) : queue'[i] = queue[i]
      BY <2>6, <3>1
    <3>3. m.seq = dispatched
      OBVIOUS
    <3> HIDE DEF m
    <3>4. \A i \in 1..Len(queue) : queue[i].seq <= dispatched
      BY ToldIntegers DEF NumbersInv
    <3>5. ASSUME NEW i \in 1..Len(queue')
          PROVE  /\ queue'[i].seq + (Len(queue') - i) < dispatched'
                 /\ \A n \in Told' : n <= queue'[i].seq
                 /\ \A k \in i..Len(queue') : queue'[i].seq <= queue'[k].seq
      <4>1. CASE i = Len(queue) + 1
        <5>1. queue'[i].seq + (Len(queue') - i) < dispatched'
          BY <2>1, <3>1, <3>2, <3>3, <4>1, ToldIntegers
        <5>2. \A k \in i..Len(queue') : k = i
          BY <3>1, <3>2, <4>1
        <5>3. queue'[i].seq = dispatched
          BY <3>2, <3>3, <4>1
        <5> QED
          BY <2>4, <5>1, <5>2, <5>3, ToldIntegers
      <4>2. CASE i # Len(queue) + 1
        <5>1. i \in 1..Len(queue)
          BY <3>1, <3>2, <4>2
        <5>2. queue'[i].seq + (Len(queue') - i) < dispatched'
          <6>1. queue[i].seq \in Int /\ dispatched \in Int /\ i \in Int
            BY <5>1, ToldIntegers
          <6>2. queue[i].seq + (Len(queue) - i) < dispatched
            BY <5>1 DEF NumbersInv
          <6>3. queue'[i].seq = queue[i].seq
            BY <3>2, <5>1
          <6> QED
            BY ONLY <2>1, <3>1, <3>2, <6>1, <6>2, <6>3
        <5>3. \A n \in Told' : n <= queue'[i].seq
          BY <1>2, <3>2, <5>1 DEF NumbersInv
        <5>4. ASSUME NEW k \in i..Len(queue') PROVE queue'[i].seq <= queue'[k].seq
          <6>1. CASE k = Len(queue) + 1
            BY <3>2, <3>3, <3>4, <5>1, <6>1
          <6>2. CASE k # Len(queue) + 1
            <7>1. k \in i..Len(queue) /\ k \in 1..Len(queue)
              BY <3>1, <3>2, <5>1, <6>2
            <7> QED
              BY <3>2, <5>1, <7>1 DEF NumbersInv
          <6> QED
            BY <6>1, <6>2
        <5> QED
          BY <5>2, <5>3, <5>4
      <4> QED
        BY <4>1, <4>2
    <3>6. \A n \in Told' : n <= dispatched'
      BY <2>4
    <3> QED
      BY <2>3, <3>5, <3>6 DEF NumbersInv, Limit
  <2> QED
    BY <1>3, <2>5, <2>6
<1> QED
  BY <1>5, <1>6

\* Every step that does not let the counter wrap keeps the numbers in order.
LEMMA NumbersStep ==
  ASSUME TypeInv, NumbersInv, [Next]_vars, dispatched' >= dispatched
  PROVE  NumbersInv'
<1>1. ASSUME UNCHANGED <<dispatched, accepted, queue, acks, slave>> PROVE NumbersKept
  BY <1>1 DEF NumbersKept
<1>2. CASE UNCHANGED vars
  BY <1>1, <1>2, NumbersKeptInv DEF vars, wires
<1>3. CASE Terminated \/ \E c \in Clients : Connect(c) \/ Request(c)
  BY <1>1, <1>3, NumbersKeptInv DEF Terminated, Connect, Request, wires
<1>4. CASE Master
  <2>1. CASE Unblock \/ Wake \/ Terminate \/ Loop
    BY <1>1, <2>1, NumbersKeptInv DEF Unblock, Wake, Terminate, Loop, wires
  <2>2. CASE Resurrect
    <3>1. PICK revived \in SUBSET Slaves :
            slave' = [s \in Slaves |-> IF s \in revived THEN NewSlave ELSE slave[s]]
      BY <2>2 DEF Resurrect
    <3>2. NewSlave.phase # "tell"
      BY DEF NewSlave
    <3>3. \A t \in Slaves : slave'[t].phase = "tell"
                            => slave[t].phase = "tell" /\ slave'[t].next = slave[t].next
      BY <3>1, <3>2
    <3>4. UNCHANGED <<dispatched, accepted, queue, acks>>
      BY <2>2 DEF Resurrect, wires
    <3> QED
      BY <3>3, <3>4, NumbersKeptInv DEF NumbersKept
  <2>3. CASE ReadAck
    BY <2>3, ReadAckNumbers
  <2>4. CASE \E v \in Services : Dispatch(v)
    BY <2>4, DispatchNumbers
  <2> QED
    BY <1>4, <2>1, <2>2, <2>3, <2>4 DEF Master
<1>5. ASSUME NEW s \in Slaves, SlaveStep(s) \/ Crash(s) \/ Ages(s) \/ Quiet(s)
      PROVE  NumbersInv'
  <2>1. CASE Stop(s) \/ Crash(s)
    BY <2>1, DiesEffect, NumbersKeptInv DEF Stop, Crash
  <2> QED
    BY <1>5, <2>1, SelectEffect, ServeEffect, TimeEffect, NumbersKeptInv,
       TakeNumbers, TellNumbers DEF SlaveStep
<1> QED
  BY <1>2, <1>3, <1>4, <1>5 DEF Next

\* At first no number is given.
LEMMA NumbersInit ==
  ASSUME Init
  PROVE  NumbersInv
<1>1. Told = {0}
  BY DEF Init, Told, NewSlave
<1>2. 0 <= Limit
  BY LimitType
<1> QED
  BY <1>1, <1>2 DEF Init, NumbersInv

\* The order of the numbers bounds what waits in the pair.
LEMMA NumbersBound ==
  ASSUME TypeInv, NumbersInv
  PROVE  WaitingBounded
<1>1. CASE Len(queue) = 0
  BY <1>1, LimitType DEF WaitingBounded
<1>2. CASE Len(queue) # 0
  <2>1. 1 \in 1..Len(queue)
    BY <1>2, ToldIntegers
  <2>2. accepted \in Told
    BY DEF Told
  <2>3. queue[1].seq + (Len(queue) - 1) < dispatched /\ accepted <= queue[1].seq
    BY <2>1, <2>2 DEF NumbersInv
  <2>4. dispatched - accepted <= Limit
    BY DEF NumbersInv
  <2> QED
    BY <2>1, <2>3, <2>4, ToldIntegers, LimitType DEF WaitingBounded
<1> QED
  BY <1>1, <1>2

\* As long as the counter of connections does not wrap, the socket pair holds at
\* most the overload of all slaves, whatever the order in which numbers are told
\* and whatever is lost with a slave or by sendmsg().
THEOREM WaitingStaysBounded ==
  Spec /\ [][dispatched' >= dispatched]_vars => []WaitingBounded
<1>1. TypeInv /\ NumbersInv /\ [Next]_vars /\ [dispatched' >= dispatched]_vars
        => NumbersInv'
  <2>1. ASSUME TypeInv, UNCHANGED vars PROVE dispatched' >= dispatched
    BY <2>1, ToldIntegers DEF vars
  <2> QED
    BY <2>1, NumbersStep
<1> QED
  BY <1>1, TypeInit, TypeStep, NumbersInit, NumbersBound, PTL DEF Spec

-------------------------------------------------------------------------------
(* The first request of a connection.                                    *)

\* A slave that takes a connection, or has taken one, has no client that waits
\* for its first request.
FreshOK(w) ==
  /\ w.phase = "take" => w.conn = None \/ ~w.fresh
  /\ w.phase \in {"tell", "dead"} => w.conn = None

\* A slave w that becomes v lets no client go whose first request it has not
\* tried.
TriesFirst(w, v) ==
  w.conn # None /\ w.fresh /\ ~w.idle /\ v.conn # w.conn => w.phase = "serve"

FreshInv ==
  /\ TypeInv
  /\ "TERM" \notin signals /\ ~master.die /\ master.pc # "gone"
  /\ \A s \in Slaves : FreshOK(slave[s])

\* What a slave's own steps do.
LEMMA SlaveTries ==
  ASSUME FreshInv, NEW s \in Slaves, SlaveStep(s) \/ Ages(s) \/ Quiet(s)
  PROVE  \E v : /\ slave' = [slave EXCEPT ![s] = v]
                /\ FreshOK(v) /\ TriesFirst(slave[s], v)
                /\ master' = master /\ signals' \subseteq signals \union {"CHLD"}
<1> DEFINE w == slave[s]
           dead == [NewSlave EXCEPT !.phase = "dead"]
<1>1. w \in Slave /\ FreshOK(w) /\ SlaveOK(w) /\ master.pc # "gone"
  BY DEF FreshInv, TypeInv, TypeOK
<1>2. /\ WithoutConn(w) \in Slave /\ WithoutConn(w).conn = None
      /\ WithoutConn(w).phase = w.phase
  BY <1>1 DEF WithoutConn, Slave
<1>3. dead.phase = "dead" /\ dead.conn = None /\ FreshOK(dead)
  BY DEF NewSlave, FreshOK
<1> HIDE DEF dead
<1>4. CASE Select(s)
  <2> DEFINE x == [w EXCEPT !.sock = queue # <<>>]
  <2>1. /\ x.conn = w.conn /\ x.fresh = w.fresh /\ x.idle = w.idle /\ x.phase = "select"
        /\ x \in [phase : {"select", "serve", "take", "tell", "dead"},
                  conn : Clients \union {None}, next : Message \union {None},
                  fresh : BOOLEAN, new : BOOLEAN, idle : BOOLEAN, sock : BOOLEAN,
                  reqs : 0..ReqsMax]
    BY <1>1, <1>4 DEF Select, Slave
  <2>2. /\ UNCHANGED <<master, signals>>
        /\ \/ slave' = [slave EXCEPT ![s] = [x EXCEPT !.phase = "serve"]]
           \/ MayTake(x) /\ slave' = [slave EXCEPT ![s] = [x EXCEPT !.phase = "take"]]
           \/ Idles(x) /\ slave' = [slave EXCEPT ![s] = WithoutConn(w)]
    BY <1>4 DEF Select, unchangedBySlaves
  <2> HIDE DEF x
  <2>3. CASE slave' = [slave EXCEPT ![s] = [x EXCEPT !.phase = "serve"]]
    <3>1. FreshOK([x EXCEPT !.phase = "serve"]) /\ TriesFirst(w, [x EXCEPT !.phase = "serve"])
      BY <2>1 DEF FreshOK, TriesFirst
    <3> QED
      BY <2>2, <2>3, <3>1
  <2>4. CASE MayTake(x) /\ slave' = [slave EXCEPT ![s] = [x EXCEPT !.phase = "take"]]
    <3>1. FreshOK([x EXCEPT !.phase = "take"]) /\ TriesFirst(w, [x EXCEPT !.phase = "take"])
      BY <2>1, <2>4 DEF FreshOK, TriesFirst, MayTake
    <3> QED
      BY <2>2, <2>4, <3>1
  <2>5. CASE Idles(x) /\ slave' = [slave EXCEPT ![s] = WithoutConn(w)]
    <3>1. FreshOK(WithoutConn(w)) /\ TriesFirst(w, WithoutConn(w))
      BY <1>2, <2>1, <2>5 DEF FreshOK, TriesFirst, Idles
    <3> QED
      BY <2>2, <2>5, <3>1
  <2> QED
    BY <2>2, <2>3, <2>4, <2>5
<1>5. CASE Serve(s)
  <2> DEFINE done == [w EXCEPT !.fresh = FALSE, !.idle = FALSE]
             again(v) == [v EXCEPT !.phase = "select", !.sock = FALSE]
             on(v) == IF ~w.new /\ MayTake(v) THEN [v EXCEPT !.phase = "take"] ELSE again(v)
  <2>1. w.phase = "serve" /\ UNCHANGED unchangedBySlaves
    BY <1>5 DEF Serve
  <2>2. \A v : TriesFirst(w, v)
    BY <2>1 DEF TriesFirst
  <2>3. CASE Dies(s)
    BY <1>3, <2>1, <2>2, <2>3 DEF Dies, unchangedBySlaves, dead
  <2>4. CASE ~Dies(s)
    <3>1. \A v \in Slave : FreshOK(again(v))
      BY DEF FreshOK, Slave
    <3>2. done \in Slave
      BY <1>1 DEF Slave
    <3>3. \A v \in Slave : FreshOK([v EXCEPT !.phase = "take"]) \/ ~MayTake(v)
      BY DEF FreshOK, Slave, MayTake
    <3>4. \A v \in Slave : FreshOK(on(v))
      BY <3>1, <3>3
    <3>5. /\ UNCHANGED signals
          /\ \/ slave' = [slave EXCEPT ![s] = again(WithoutConn(w))]
             \/ slave' = [slave EXCEPT ![s] = on(WithoutConn(w))]
             \/ slave' = [slave EXCEPT ![s] = on(done)]
      BY <1>5, <2>4 DEF Serve
    <3> HIDE DEF again, on, done
    <3> QED
      BY <1>2, <2>1, <2>2, <3>1, <3>2, <3>4, <3>5 DEF unchangedBySlaves
  <2> QED
    BY <2>3, <2>4
<1>6. CASE Take(s)
  <2>1. w.phase = "take" /\ UNCHANGED <<unchangedBySlaves, signals>>
    BY <1>6 DEF Take
  <2>2. \A v : TriesFirst(w, v)
    BY <1>1, <2>1 DEF TriesFirst, FreshOK
  <2>3. CASE queue = <<>>
    <3> DEFINE a == [w EXCEPT !.phase = "select", !.sock = FALSE]
    <3>1. slave' = [slave EXCEPT ![s] = a]
      BY <1>6, <2>3 DEF Take
    <3>2. FreshOK(a)
      BY <1>1 DEF FreshOK, Slave
    <3> HIDE DEF a
    <3> QED
      BY <2>1, <2>2, <3>1, <3>2 DEF unchangedBySlaves
  <2>4. CASE queue # <<>>
    <3> DEFINE x == WithoutConn(w)
               a == [x EXCEPT !.phase = "tell", !.next = Head(queue)]
    <3>1. slave' = [slave EXCEPT ![s] = a]
      BY <1>6, <2>4 DEF Take
    <3> HIDE DEF x
    <3>2. x \in Slave /\ x.conn = None
      BY <1>2 DEF x
    <3>3. FreshOK(a)
      BY <3>2 DEF FreshOK, Slave
    <3> HIDE DEF a
    <3> QED
      BY <2>1, <2>2, <3>1, <3>3 DEF unchangedBySlaves
  <2> QED
    BY <2>3, <2>4
<1>7. CASE Tell(s)
  <2> DEFINE x == [w EXCEPT !.phase = "select", !.next = None,
                            !.sock = FALSE, !.reqs = @ + 1]
             a == [x EXCEPT !.conn = w.next.conn, !.fresh = TRUE, !.new = TRUE]
  <2>1. w.phase = "tell" /\ UNCHANGED unchangedBySlaves
    BY <1>7 DEF Tell
  <2>2. \A v : TriesFirst(w, v)
    BY <1>1, <2>1 DEF TriesFirst, FreshOK
  <2>3. x.phase = "select" /\ a.phase = "select"
    BY <1>1 DEF Slave
  <2>4. FreshOK(x) /\ FreshOK(a)
    BY <2>3 DEF FreshOK
  <2>5. \/ UNCHANGED signals /\ slave' = [slave EXCEPT ![s] = a]
        \/ UNCHANGED signals /\ slave' = [slave EXCEPT ![s] = x]
        \/ signals' = signals \union {"CHLD"} /\ slave' = [slave EXCEPT ![s] = dead]
    BY <1>7 DEF Tell, dead
  <2> HIDE DEF a, x
  <2> QED
    BY <1>3, <2>1, <2>2, <2>4, <2>5 DEF unchangedBySlaves
<1>8. CASE Stop(s)
  <2>1. ~Works(w) /\ Dies(s) /\ UNCHANGED unchangedBySlaves
    BY <1>1, <1>8 DEF Stop
  <2>2. w.conn = None \/ ~w.fresh
    BY <2>1 DEF Works
  <2>3. slave' = [slave EXCEPT ![s] = dead] /\ signals' = signals \union {"CHLD"}
    BY <2>1 DEF Dies, dead
  <2>4. TriesFirst(w, dead)
    BY <2>2 DEF TriesFirst
  <2> QED
    BY <1>3, <2>1, <2>3, <2>4 DEF unchangedBySlaves
<1>9. CASE Ages(s) \/ Quiet(s)
  <2> DEFINE a == [w EXCEPT !.new = FALSE]
             b == [w EXCEPT !.idle = TRUE]
  <2>1. /\ UNCHANGED <<master, signals>>
        /\ slave' = [slave EXCEPT ![s] = a] \/ slave' = [slave EXCEPT ![s] = b]
    BY <1>9 DEF Ages, Quiet, unchangedBySlaves
  <2>2. /\ FreshOK(a) /\ TriesFirst(w, a)
        /\ FreshOK(b) /\ TriesFirst(w, b)
    BY <1>1 DEF FreshOK, TriesFirst, Slave
  <2> HIDE DEF a, b
  <2> QED
    BY <2>1, <2>2
<1> QED
  BY <1>4, <1>5, <1>6, <1>7, <1>8, <1>9 DEF SlaveStep

\* The master's and the clients' steps leave the living slaves alone, and nothing
\* tells the master to end.
LEMMA OthersTry ==
  ASSUME "term" \notin Faults, FreshInv,
         \/ \E c \in Clients : Connect(c) \/ Request(c)
         \/ Terminated
         \/ Master
  PROVE  /\ "TERM" \notin signals' /\ ~master'.die /\ master'.pc # "gone"
         /\ \A s \in Slaves : FreshOK(slave'[s]) /\ TriesFirst(slave[s], slave'[s])
<1>1. /\ "TERM" \notin signals /\ ~master.die /\ master.pc # "gone"
      /\ master \in [pc : {"top", "select", "awake", "dispatch", "gone"},
                     childDied : BOOLEAN, die : BOOLEAN, acked : BOOLEAN,
                     todo : SUBSET Services]
      /\ \A s \in Slaves : FreshOK(slave[s])
  BY DEF FreshInv, TypeInv, TypeOK
<1>2. \A s \in Slaves : TriesFirst(slave[s], slave[s])
  BY DEF TriesFirst
<1>3. CASE \E c \in Clients : Connect(c) \/ Request(c)
  BY <1>1, <1>2, <1>3 DEF Connect, Request
<1>4. ~Terminated
  BY DEF Terminated
<1>5. CASE Unblock
  BY <1>1, <1>2, <1>5 DEF Unblock
<1>6. CASE Wake
  BY <1>1, <1>2, <1>6 DEF Wake
<1>7. CASE Resurrect
  <2>1. PICK revived : /\ revived \subseteq {s \in Slaves : slave[s].phase = "dead"}
                       /\ slave' = [s \in Slaves |-> IF s \in revived THEN NewSlave
                                                     ELSE slave[s]]
    BY <1>7 DEF Resurrect
  <2>2. FreshOK(NewSlave)
    BY DEF NewSlave, FreshOK
  <2>3. \A s \in revived : slave[s].conn = None
    BY <1>1, <2>1 DEF FreshOK
  <2>4. \A s \in Slaves : FreshOK(slave'[s]) /\ TriesFirst(slave[s], slave'[s])
    BY <1>1, <1>2, <2>1, <2>2, <2>3 DEF TriesFirst
  <2>5. "TERM" \notin signals' /\ ~master'.die /\ master'.pc # "gone"
    BY <1>1, <1>7 DEF Resurrect
  <2> QED
    BY <2>4, <2>5
<1>8. ~Terminate
  BY <1>1 DEF Terminate
<1>9. CASE ReadAck
  BY <1>1, <1>2, <1>9 DEF ReadAck
<1>10. ASSUME NEW v \in Services, Dispatch(v)
       PROVE  /\ UNCHANGED <<signals, slave>>
              /\ ~master'.die /\ master'.pc # "gone"
  BY <1>1, <1>10 DEF Dispatch
<1>11. CASE Loop
  BY <1>1, <1>2, <1>11 DEF Loop
<1> QED
  BY <1>1, <1>2, <1>3, <1>4, <1>5, <1>6, <1>7, <1>8, <1>9, <1>10, <1>11 DEF Master

\* Unless a slave crashes or the master is told to end, a client that is not
\* silent for too long is not closed before its slave has tried to serve its
\* first request, however many slaves, clients and connections there are.
THEOREM FirstRequestsTried ==
  ASSUME "crash" \notin Faults, "term" \notin Faults
  PROVE  Spec => FirstRequestTried
<1> DEFINE Tries == \A s \in Slaves :
             (/\ slave[s].conn # None
              /\ slave[s].fresh
              /\ ~slave[s].idle
              /\ slave'[s].conn # slave[s].conn)
               => slave[s].phase = "serve"
<1>1. Init => FreshInv
  BY TypeInit DEF Init, FreshInv, FreshOK, NewSlave
<1>2. ASSUME FreshInv, Next
      PROVE  FreshInv' /\ Tries
  <2>1. TypeInv'
    BY <1>2, TypeStep DEF FreshInv
  <2>2. /\ "TERM" \notin signals' /\ ~master'.die /\ master'.pc # "gone"
        /\ \A s \in Slaves : FreshOK(slave'[s]) /\ TriesFirst(slave[s], slave'[s])
    <3>1. ASSUME NEW s \in Slaves, SlaveStep(s) \/ Ages(s) \/ Quiet(s)
          PROVE  /\ "TERM" \notin signals' /\ ~master'.die /\ master'.pc # "gone"
                 /\ \A x \in Slaves : FreshOK(slave'[x]) /\ TriesFirst(slave[x], slave'[x])
      <4>1. PICK v : /\ slave' = [slave EXCEPT ![s] = v]
                     /\ FreshOK(v) /\ TriesFirst(slave[s], v)
                     /\ master' = master /\ signals' \subseteq signals \union {"CHLD"}
        BY <1>2, <3>1, SlaveTries
      <4>2. \A x \in Slaves : slave'[x] = IF x = s THEN v ELSE slave[x]
        BY <1>2, <4>1 DEF FreshInv, TypeInv, TypeOK
      <4>3. \A x \in Slaves : FreshOK(slave[x]) /\ TriesFirst(slave[x], slave[x])
        BY <1>2 DEF FreshInv, TriesFirst
      <4>4. \A x \in Slaves : FreshOK(slave'[x]) /\ TriesFirst(slave[x], slave'[x])
        BY <4>1, <4>2, <4>3
      <4> QED
        BY <1>2, <4>1, <4>4 DEF FreshInv
    <3>2. \A s \in Slaves : ~Crash(s)
      BY DEF Crash
    <3>3. CASE \/ \E c \in Clients : Connect(c) \/ Request(c)
               \/ Terminated
               \/ Master
      BY <1>2, <3>3, OthersTry
    <3> QED
      BY <1>2, <3>1, <3>2, <3>3 DEF Next
  <2>3. Tries
    BY <2>2 DEF TriesFirst
  <2> QED
    BY <2>1, <2>2, <2>3 DEF FreshInv
<1>3. FreshInv /\ UNCHANGED vars => FreshInv'
  <2> SUFFICES ASSUME FreshInv, UNCHANGED vars PROVE FreshInv'
    OBVIOUS
  <2>1. TypeInv'
    BY TypeStep DEF FreshInv
  <2> QED
    BY <2>1 DEF FreshInv, vars, FreshOK
<1>4. FreshInv /\ [Next]_vars => FreshInv' /\ [Tries]_vars
  BY <1>2, <1>3
<1> QED
  BY <1>1, <1>4, PTL DEF Spec, FirstRequestTried

-------------------------------------------------------------------------------
(* The hand-over of connections: ServerBones implements HandOver.          *)

\* A slave that is about to tell a number has let its connection go, and a dead
\* one has none.
SlaveShape(w) ==
  /\ w.next # None => w.phase = "tell"
  /\ w.phase \in {"tell", "dead"} => w.conn = None

\* A connection is in one backlog once ...
BacklogOnce ==
  \A v, u \in Services : \A i \in 1..Len(backlog[v]), j \in 1..Len(backlog[u]) :
    backlog[v][i] = backlog[u][j] => v = u /\ i = j

\* ... and then nowhere else; or it is in the pair once ...
BacklogApart ==
  \A v \in Services : \A i \in 1..Len(backlog[v]) :
    /\ client[backlog[v][i]] = "open"
    /\ \A j \in 1..Len(queue) : queue[j].conn # backlog[v][i]
    /\ \A s \in Slaves : Holds(slave[s]) # backlog[v][i]

PairApart ==
  \A i \in 1..Len(queue) :
    /\ client[queue[i].conn] = "open"
    /\ \A j \in 1..Len(queue) : queue[i].conn = queue[j].conn => i = j
    /\ \A s \in Slaves : Holds(slave[s]) # queue[i].conn

\* ... or one slave has it, told or not; it is open as long as it is anywhere.
HeldApart ==
  \A s \in Slaves : Holds(slave[s]) # None =>
    /\ client[Holds(slave[s])] = "open"
    /\ \A t \in Slaves : Holds(slave[t]) = Holds(slave[s]) => s = t

OnePlace ==
  /\ BacklogOnce
  /\ BacklogApart
  /\ PairApart
  /\ HeldApart

PlaceInv ==
  /\ TypeInv
  /\ \A s \in Slaves : SlaveShape(slave[s])
  /\ OnePlace

\* What a slave s that becomes u does with the connection it has: keep it, let
\* it go, or take another for it.
LetsGo(s) == client' = IF Holds(slave[s]) = None
                         THEN client
                         ELSE [client EXCEPT ![Holds(slave[s])] = "closed"]

Keeps(s, u) == Holds(u) = Holds(slave[s]) /\ UNCHANGED <<queue, client>>

Drops(s, u) == Holds(u) = None /\ LetsGo(s) /\ UNCHANGED queue

Takes(s, u) ==
  /\ queue # <<>>
  /\ queue' = Tail(queue)
  /\ Holds(u) = Head(queue).conn
  /\ LetsGo(s)

Moves(s) ==
  \E u : /\ slave' = [slave EXCEPT ![s] = u]
         /\ SlaveShape(u)
         /\ Keeps(s, u) \/ Drops(s, u) \/ Takes(s, u)

\* A slave has a connection or none.
LEMMA HoldsType ==
  ASSUME NEW w \in Slave
  PROVE  Holds(w) \in Clients \union {None}
BY DEF Holds, Slave, Message

\* Closing the connection a slave has, if it has one.
LEMMA ClosedLetsGo ==
  ASSUME NEW s \in Slaves, Closed(Holds(slave[s]))
  PROVE  LetsGo(s)
BY DEF Closed, LetsGo

\* A dead slave has nothing.
LEMMA DeadShape ==
  LET d == [NewSlave EXCEPT !.phase = "dead"]
  IN  SlaveShape(d) /\ Holds(d) = None /\ SlaveShape(NewSlave) /\ Holds(NewSlave) = None
BY DEF NewSlave, SlaveShape, Holds

\* A slave's end lets go what it has.
LEMMA DiesMoves ==
  ASSUME TypeInv, NEW s \in Slaves, SlaveShape(slave[s]), Dies(s)
  PROVE  Moves(s)
<1> DEFINE d == [NewSlave EXCEPT !.phase = "dead"]
           held == {slave[s].conn} \union (IF slave[s].next = None THEN {}
                                           ELSE {slave[s].next.conn})
           h == Holds(slave[s])
<1>1. /\ slave' = [slave EXCEPT ![s] = d]
      /\ client' = [c \in Clients |-> IF c \in held THEN "closed" ELSE client[c]]
      /\ UNCHANGED queue
  BY DEF Dies, wires
<1>2. slave[s] \in Slave /\ client \in [Clients -> {"away", "open", "rejected", "closed"}]
  BY DEF TypeInv, TypeOK
<1>3. h \in Clients \union {None}
  BY <1>2, HoldsType
<1>4. \A c \in Clients : c \in held <=> c = h
  BY <1>2, BonesAssumption DEF SlaveShape, Holds, Slave, Message
<1>5. LetsGo(s)
  <2> SUFFICES client' = IF h = None THEN client ELSE [client EXCEPT ![h] = "closed"]
    BY DEF LetsGo
  <2> HIDE DEF h, held
  <2> QED
    BY <1>1, <1>2, <1>3, <1>4, BonesAssumption
<1> HIDE DEF d
<1>6. SlaveShape(d) /\ Holds(d) = None
  BY DeadShape DEF d
<1> QED
  BY <1>1, <1>5, <1>6 DEF Moves, Drops

\* select() closes an idle client or leaves it.
LEMMA SelectMoves ==
  ASSUME TypeInv, NEW s \in Slaves, SlaveShape(slave[s]), Select(s)
  PROVE  Moves(s)
<1> DEFINE w == [slave[s] EXCEPT !.sock = queue # <<>>]
<1>1. slave[s] \in Slave /\ slave[s].phase = "select" /\ slave[s].next = None
  BY DEF TypeInv, TypeOK, Select, SlaveShape
<1>2. /\ w.conn = slave[s].conn /\ w.next = None
      /\ Holds(slave[s]) = slave[s].conn
      /\ \A p : /\ [w EXCEPT !.phase = p].phase = p
                /\ [w EXCEPT !.phase = p].next = None
                /\ [w EXCEPT !.phase = p].conn = slave[s].conn
  BY <1>1 DEF Slave, Holds
<1>3. \/ /\ \/ slave' = [slave EXCEPT ![s] = [w EXCEPT !.phase = "serve"]]
            \/ slave' = [slave EXCEPT ![s] = [w EXCEPT !.phase = "take"]]
         /\ UNCHANGED <<queue, client>>
      \/ /\ slave' = [slave EXCEPT ![s] = WithoutConn(slave[s])]
         /\ Closed(w.conn)
         /\ UNCHANGED queue
  BY <1>1 DEF Select, TypeInv, TypeOK, wires
<1>4. \A p \in {"serve", "take"} :
        SlaveShape([w EXCEPT !.phase = p]) /\ Holds([w EXCEPT !.phase = p]) = slave[s].conn
  <2> HIDE DEF w
  <2> QED
    BY <1>2 DEF SlaveShape, Holds
<1>5. SlaveShape(WithoutConn(slave[s])) /\ Holds(WithoutConn(slave[s])) = None
  BY <1>1 DEF SlaveShape, Holds, WithoutConn, Slave
<1> HIDE DEF w
<1>6. CASE Closed(w.conn) /\ slave' = [slave EXCEPT ![s] = WithoutConn(slave[s])]
           /\ UNCHANGED queue
  BY <1>2, <1>5, <1>6, ClosedLetsGo DEF Moves, Drops
<1>7. ASSUME NEW p \in {"serve", "take"},
             slave' = [slave EXCEPT ![s] = [w EXCEPT !.phase = p]],
             UNCHANGED <<queue, client>>
      PROVE  Moves(s)
  BY <1>2, <1>4, <1>7 DEF Moves, Keeps
<1> QED
  BY <1>3, <1>6, <1>7

\* A handler closes the connection it was called for, or leaves it.
LEMMA ServeMoves ==
  ASSUME TypeInv, NEW s \in Slaves, SlaveShape(slave[s]), Serve(s)
  PROVE  Moves(s)
<1> DEFINE w == slave[s]
           done == [w EXCEPT !.fresh = FALSE, !.idle = FALSE]
           again(v) == [v EXCEPT !.phase = "select", !.sock = FALSE]
           on(v) == IF ~w.new /\ MayTake(v) THEN [v EXCEPT !.phase = "take"] ELSE again(v)
<1>1. w \in Slave /\ w.phase = "serve" /\ w.next = None /\ Holds(w) = w.conn
  BY DEF TypeInv, TypeOK, Serve, SlaveShape, Holds
<1>2. CASE Dies(s)
  BY <1>2, DiesMoves
<1>3. CASE ~Dies(s)
  <2>1. /\ UNCHANGED queue
        /\ \/ slave' = [slave EXCEPT ![s] = again(WithoutConn(w))] /\ Closed(w.conn)
           \/ slave' = [slave EXCEPT ![s] = on(WithoutConn(w))] /\ Closed(w.conn)
           \/ slave' = [slave EXCEPT ![s] = on(done)] /\ UNCHANGED client
    BY <1>3 DEF Serve, wires
  <2>2. ASSUME NEW v \in Slave, v.next = None
        PROVE  /\ SlaveShape(again(v)) /\ Holds(again(v)) = v.conn
               /\ SlaveShape(on(v)) /\ Holds(on(v)) = v.conn
    <3>1. SlaveShape(again(v)) /\ Holds(again(v)) = v.conn
      BY <2>2 DEF SlaveShape, Holds, Slave
    <3>2. /\ SlaveShape([v EXCEPT !.phase = "take"])
          /\ Holds([v EXCEPT !.phase = "take"]) = v.conn
      BY <2>2 DEF SlaveShape, Holds, Slave
    <3> QED
      BY <3>1, <3>2
  <2>3. WithoutConn(w) \in Slave /\ WithoutConn(w).next = None /\ WithoutConn(w).conn = None
    <3>1. WithoutConn(w) \in Slave
      BY <1>1, WithoutConnType
    <3>2. WithoutConn(w).next = None /\ WithoutConn(w).conn = None
      BY <1>1 DEF WithoutConn, Slave
    <3> QED
      BY <3>1, <3>2
  <2>4. done \in Slave /\ done.next = None /\ done.conn = w.conn
    BY <1>1 DEF Slave
  <2> HIDE DEF again, on, done
  <2>5. CASE slave' = [slave EXCEPT ![s] = on(done)] /\ UNCHANGED client
    BY <1>1, <2>1, <2>2, <2>4, <2>5 DEF Moves, Keeps
  <2>6. ASSUME NEW u, slave' = [slave EXCEPT ![s] = u], Closed(w.conn),
               u = again(WithoutConn(w)) \/ u = on(WithoutConn(w))
        PROVE  Moves(s)
    <3>1. SlaveShape(u) /\ Holds(u) = None
      BY <2>2, <2>3, <2>6
    <3>2. LetsGo(s)
      BY <1>1, <2>6, ClosedLetsGo
    <3> QED
      BY <2>1, <2>6, <3>1, <3>2 DEF Moves, Drops
  <2> QED
    BY <2>1, <2>5, <2>6
<1> QED
  BY <1>2, <1>3

\* recvmsg() takes the first of the pair for the present one, or nothing.
LEMMA TakeMoves ==
  ASSUME TypeInv, NEW s \in Slaves, SlaveShape(slave[s]), Take(s)
  PROVE  Moves(s)
<1>1. /\ slave[s] \in Slave /\ slave[s].phase = "take" /\ slave[s].next = None
      /\ Holds(slave[s]) = slave[s].conn
      /\ queue \in Seq(Message)
  BY DEF TypeInv, TypeOK, Take, SlaveShape, Holds
<1>2. CASE queue = <<>>
  <2> DEFINE u == [slave[s] EXCEPT !.phase = "select", !.sock = FALSE]
  <2>1. slave' = [slave EXCEPT ![s] = u] /\ UNCHANGED <<queue, client>>
    BY <1>2 DEF Take, TypeInv, TypeOK
  <2>2. SlaveShape(u) /\ Holds(u) = slave[s].conn
    BY <1>1 DEF SlaveShape, Holds, Slave
  <2> HIDE DEF u
  <2> QED
    BY <1>1, <2>1, <2>2 DEF Moves, Keeps
<1>3. CASE queue # <<>>
  <2> DEFINE u == [WithoutConn(slave[s]) EXCEPT !.phase = "tell", !.next = Head(queue)]
  <2>1. /\ slave' = [slave EXCEPT ![s] = u]
        /\ queue' = Tail(queue)
        /\ Closed(slave[s].conn)
    BY <1>3 DEF Take, TypeInv, TypeOK
  <2>2. Head(queue) \in Message
    BY <1>1, <1>3
  <2>3. u.phase = "tell" /\ u.next = Head(queue) /\ u.conn = None
    BY <1>1 DEF WithoutConn, Slave
  <2> HIDE DEF u
  <2>4. SlaveShape(u) /\ Holds(u) = Head(queue).conn
    BY <2>2, <2>3, BonesAssumption DEF SlaveShape, Holds
  <2>5. LetsGo(s)
    BY <1>1, <2>1, ClosedLetsGo
  <2> QED
    BY <1>3, <2>1, <2>4, <2>5 DEF Moves, Takes
<1> QED
  BY <1>2, <1>3

\* The number told, the connection is established or closed.
LEMMA TellMoves ==
  ASSUME TypeInv, NEW s \in Slaves, SlaveShape(slave[s]), Tell(s)
  PROVE  Moves(s)
<1> DEFINE w == [slave[s] EXCEPT !.phase = "select", !.next = None,
                                 !.sock = FALSE, !.reqs = @ + 1]
           c == slave[s].next.conn
           v == [w EXCEPT !.conn = c, !.fresh = TRUE, !.new = TRUE]
           d == [NewSlave EXCEPT !.phase = "dead"]
<1>1. slave[s] \in Slave /\ slave[s].phase = "tell" /\ slave[s].next \in Message
  BY DEF TypeInv, TypeOK, Tell, SlaveOK
<1>2. Holds(slave[s]) = c
  BY <1>1, BonesAssumption DEF Holds
<1>3. /\ w.phase = "select" /\ w.next = None /\ w.conn = None
      /\ v.phase = "select" /\ v.next = None /\ v.conn = c
  BY <1>1 DEF Slave, SlaveShape
<1>4. /\ UNCHANGED queue
      /\ \/ slave' = [slave EXCEPT ![s] = v] /\ UNCHANGED client
         \/ slave' = [slave EXCEPT ![s] = w] /\ Closed(c)
         \/ slave' = [slave EXCEPT ![s] = d] /\ Closed(c)
  BY DEF Tell
<1>5. SlaveShape(d) /\ Holds(d) = None
  BY DeadShape
<1> HIDE DEF w, c, v, d
<1>6. /\ SlaveShape(w) /\ Holds(w) = None
      /\ SlaveShape(v) /\ Holds(v) = c
  BY <1>3 DEF SlaveShape, Holds
<1>7. CASE slave' = [slave EXCEPT ![s] = v] /\ UNCHANGED client
  BY <1>2, <1>4, <1>6, <1>7 DEF Moves, Keeps
<1>8. ASSUME NEW u, slave' = [slave EXCEPT ![s] = u], Closed(c), u = w \/ u = d
      PROVE  Moves(s)
  <2>1. SlaveShape(u) /\ Holds(u) = None
    BY <1>5, <1>6, <1>8
  <2>2. LetsGo(s)
    BY <1>2, <1>8, ClosedLetsGo
  <2> QED
    BY <1>4, <1>8, <2>1, <2>2 DEF Moves, Drops
<1> QED
  BY <1>4, <1>7, <1>8

\* Time alone moves nothing.
LEMMA TimeMoves ==
  ASSUME TypeInv, NEW s \in Slaves, SlaveShape(slave[s]), Ages(s) \/ Quiet(s)
  PROVE  Moves(s)
<1> DEFINE a == [slave[s] EXCEPT !.new = FALSE]
           q == [slave[s] EXCEPT !.idle = TRUE]
<1>1. slave[s] \in Slave
  BY DEF TypeInv, TypeOK
<1>2. /\ slave' = [slave EXCEPT ![s] = a] \/ slave' = [slave EXCEPT ![s] = q]
      /\ UNCHANGED <<queue, client>>
  BY DEF Ages, Quiet, wires, TypeInv, TypeOK
<1>3. /\ SlaveShape(a) /\ Holds(a) = Holds(slave[s])
      /\ SlaveShape(q) /\ Holds(q) = Holds(slave[s])
  BY <1>1 DEF SlaveShape, Holds, Slave
<1> HIDE DEF a, q
<1> QED
  BY <1>2, <1>3 DEF Moves, Keeps

\* Whatever a slave does, it moves connections in these ways only.
LEMMA SlaveMoves ==
  ASSUME TypeInv, NEW s \in Slaves, SlaveShape(slave[s]),
         SlaveStep(s) \/ Crash(s) \/ Ages(s) \/ Quiet(s)
  PROVE  Moves(s) /\ UNCHANGED backlog
<1>1. CASE Stop(s) \/ Crash(s)
  BY <1>1, DiesMoves DEF Stop, Crash, unchangedBySlaves
<1>2. UNCHANGED backlog
  BY DEF SlaveStep, Select, Serve, Take, Tell, Stop, Crash, Ages, Quiet, unchangedBySlaves
<1> QED
  BY <1>1, <1>2, SelectMoves, ServeMoves, TakeMoves, TellMoves, TimeMoves DEF SlaveStep

\* The parts of the invariant for a state whose connections are in place.
LEMMA PlaceTypes ==
  ASSUME PlaceInv
  PROVE  /\ backlog \in [Services -> Seq(Clients)]
         /\ \A v \in Services : /\ Len(backlog[v]) \in Nat
                                /\ \A i \in 1..Len(backlog[v]) : backlog[v][i] \in Clients
         /\ queue \in Seq(Message) /\ Len(queue) \in Nat
         /\ \A i \in 1..Len(queue) : queue[i] \in Message /\ queue[i].conn \in Clients
         /\ slave \in [Slaves -> Slave]
         /\ \A s \in Slaves : Holds(slave[s]) \in Clients \union {None}
         /\ client \in [Clients -> {"away", "open", "rejected", "closed"}]
<1>1. TypeOK
  BY DEF PlaceInv, TypeInv
<1>2. \A S : \A q \in Seq(S) : Len(q) \in Nat /\ \A i \in 1..Len(q) : q[i] \in S
  OBVIOUS
<1>3. \A v \in Services : backlog[v] \in Seq(Clients)
  BY <1>1 DEF TypeOK
<1>4. \A v \in Services : /\ Len(backlog[v]) \in Nat
                          /\ \A i \in 1..Len(backlog[v]) : backlog[v][i] \in Clients
  BY <1>2, <1>3
<1>5. queue \in Seq(Message)
  BY <1>1 DEF TypeOK
<1>6. Len(queue) \in Nat /\ \A i \in 1..Len(queue) : queue[i] \in Message
  BY <1>2, <1>5
<1>7. \A m \in Message : m.conn \in Clients
  BY DEF Message
<1>8. \A s \in Slaves : Holds(slave[s]) \in Clients \union {None}
  BY <1>1, HoldsType DEF TypeOK
<1> QED
  BY <1>1, <1>4, <1>5, <1>6, <1>7, <1>8 DEF TypeOK

\* A connection that moves or goes stays in one place.
LEMMA MovePlaces ==
  ASSUME PlaceInv, NEW s \in Slaves, Moves(s), UNCHANGED backlog
  PROVE  OnePlace' /\ \A t \in Slaves : SlaveShape(slave'[t])
<1>1. PICK u : /\ slave' = [slave EXCEPT ![s] = u]
               /\ SlaveShape(u)
               /\ Keeps(s, u) \/ Drops(s, u) \/ Takes(s, u)
  BY DEF Moves
<1>2. \A t \in Slaves : slave'[t] = IF t = s THEN u ELSE slave[t]
  BY <1>1, PlaceTypes
<1>3. \A t \in Slaves : SlaveShape(slave'[t])
  BY <1>1, <1>2 DEF PlaceInv
<1>4. OnePlace
  BY DEF PlaceInv
<1>5. CASE Keeps(s, u)
  <2>1. \A t \in Slaves : Holds(slave'[t]) = Holds(slave[t])
    BY <1>2, <1>5 DEF Keeps
  <2> QED
    BY <1>3, <1>4, <1>5, <2>1 DEF OnePlace, BacklogOnce, BacklogApart, PairApart, HeldApart, Keeps
<1>6. ASSUME LetsGo(s)
      PROVE  /\ \A v \in Services : \A i \in 1..Len(backlog[v]) :
                  client'[backlog[v][i]] = client[backlog[v][i]] /\ backlog[v][i] # None
             /\ \A i \in 1..Len(queue) :
                  client'[queue[i].conn] = client[queue[i].conn] /\ queue[i].conn # None
             /\ \A t \in Slaves : t # s /\ Holds(slave[t]) # None
                  => client'[Holds(slave[t])] = client[Holds(slave[t])]
  <2>1. \A c \in Clients : c # None /\ (c # Holds(slave[s]) => client'[c] = client[c])
    BY <1>6, PlaceTypes, BonesAssumption DEF LetsGo
  <2>2. ASSUME NEW v \in Services, NEW i \in 1..Len(backlog[v])
        PROVE  client'[backlog[v][i]] = client[backlog[v][i]] /\ backlog[v][i] # None
    BY <1>4, <2>1, PlaceTypes DEF OnePlace, BacklogOnce, BacklogApart, PairApart, HeldApart
  <2>3. ASSUME NEW i \in 1..Len(queue)
        PROVE  client'[queue[i].conn] = client[queue[i].conn] /\ queue[i].conn # None
    BY <1>4, <2>1, PlaceTypes DEF OnePlace, BacklogOnce, BacklogApart, PairApart, HeldApart
  <2>4. ASSUME NEW t \in Slaves, t # s, Holds(slave[t]) # None
        PROVE  client'[Holds(slave[t])] = client[Holds(slave[t])]
    BY <1>4, <2>1, <2>4, PlaceTypes DEF OnePlace, BacklogOnce, BacklogApart, PairApart, HeldApart
  <2> QED
    BY <2>2, <2>3, <2>4
<1>7. CASE Drops(s, u)
  <2>1. \A t \in Slaves : Holds(slave'[t]) = IF t = s THEN None ELSE Holds(slave[t])
    BY <1>2, <1>7 DEF Drops
  <2>2. LetsGo(s) /\ UNCHANGED <<queue, backlog>>
    BY <1>7 DEF Drops
  <2> QED
    BY <1>3, <1>4, <1>6, <2>1, <2>2 DEF OnePlace, BacklogOnce, BacklogApart, PairApart, HeldApart
<1>8. CASE Takes(s, u)
  <2>1. \A t \in Slaves : Holds(slave'[t]) = IF t = s THEN queue[1].conn ELSE Holds(slave[t])
    BY <1>2, <1>8, PlaceTypes DEF Takes
  <2>2. LetsGo(s) /\ UNCHANGED backlog /\ queue # <<>> /\ queue' = Tail(queue)
    BY <1>8 DEF Takes
  <2>3. /\ 1 \in 1..Len(queue)
        /\ Len(queue') = Len(queue) - 1
        /\ \A i \in 1..Len(queue') : i + 1 \in 1..Len(queue) /\ queue'[i] = queue[i + 1]
    BY <2>2, PlaceTypes
  <2>5. \A i, j \in 1..Len(queue') : i + 1 = j + 1 => i = j
    BY <2>2, <2>3, PlaceTypes
  <2>6. \A i \in 1..Len(queue') : i + 1 # 1
    BY <2>2, <2>3, PlaceTypes
  <2>7. \A v, w \in Services : \A i \in 1..Len(backlog'[v]), j \in 1..Len(backlog'[w]) :
          backlog'[v][i] = backlog'[w][j] => v = w /\ i = j
    BY <1>4, <2>2 DEF OnePlace, BacklogOnce, BacklogApart, PairApart, HeldApart
  <2>8. \A v \in Services : \A i \in 1..Len(backlog'[v]) :
          /\ client'[backlog'[v][i]] = "open"
          /\ \A j \in 1..Len(queue') : queue'[j].conn # backlog'[v][i]
          /\ \A t \in Slaves : Holds(slave'[t]) # backlog'[v][i]
    BY <1>4, <1>6, <2>1, <2>2, <2>3 DEF OnePlace, BacklogOnce, BacklogApart, PairApart, HeldApart
  <2>9. \A i \in 1..Len(queue') :
          /\ client'[queue'[i].conn] = "open"
          /\ \A j \in 1..Len(queue') : queue'[i].conn = queue'[j].conn => i = j
          /\ \A t \in Slaves : Holds(slave'[t]) # queue'[i].conn
    BY <1>4, <1>6, <2>1, <2>2, <2>3, <2>5, <2>6 DEF OnePlace, BacklogOnce, BacklogApart, PairApart, HeldApart
  <2>10. \A t \in Slaves : Holds(slave'[t]) # None =>
          /\ client'[Holds(slave'[t])] = "open"
          /\ \A r \in Slaves : Holds(slave'[r]) = Holds(slave'[t]) => r = t
    BY <1>4, <1>6, <2>1, <2>2, <2>3 DEF OnePlace, BacklogOnce, BacklogApart, PairApart, HeldApart
  <2> QED
    BY <1>3, <2>7, <2>8, <2>9, <2>10 DEF OnePlace, BacklogOnce, BacklogApart, PairApart, HeldApart
<1> QED
  BY <1>1, <1>5, <1>7, <1>8

\* A new connection comes to the end of one backlog.
LEMMA ConnectPlaces ==
  ASSUME PlaceInv, NEW c \in Clients, Connect(c)
  PROVE  OnePlace'
<1>1. PICK v \in Services : backlog' = [backlog EXCEPT ![v] = Append(@, c)]
  BY DEF Connect
<1>2. /\ client[c] = "away"
      /\ client' = [client EXCEPT ![c] = "open"]
      /\ UNCHANGED <<queue, slave>>
  BY DEF Connect, wires
<1>3. BacklogOnce /\ BacklogApart /\ PairApart /\ HeldApart
  BY DEF PlaceInv, OnePlace
<1>4. client'[c] = "open" /\ \A d \in Clients : d # c => client'[d] = client[d]
  BY <1>2, PlaceTypes
<1>5. /\ \A i \in 1..Len(queue) : queue[i].conn # c
      /\ \A s \in Slaves : Holds(slave[s]) # c
      /\ \A w \in Services : \A i \in 1..Len(backlog[w]) : backlog[w][i] # c
  <2>1. "away" # "open" /\ c # None
    BY BonesAssumption
  <2>2. \A i \in 1..Len(queue) : queue[i].conn # c
    BY <1>2, <1>3, <2>1 DEF PairApart
  <2>3. \A s \in Slaves : Holds(slave[s]) # c
    BY <1>2, <1>3, <2>1 DEF HeldApart
  <2>4. \A w \in Services : \A i \in 1..Len(backlog[w]) : backlog[w][i] # c
    BY <1>2, <1>3, <2>1 DEF BacklogApart
  <2> QED
    BY <2>2, <2>3, <2>4
<1>6. /\ Len(backlog'[v]) = Len(backlog[v]) + 1
      /\ backlog'[v][Len(backlog[v]) + 1] = c
      /\ \A i \in 1..Len(backlog[v]) : backlog'[v][i] = backlog[v][i]
      /\ \A w \in Services : w # v => backlog'[w] = backlog[w]
  <2>1. backlog[v] \in Seq(Clients)
    BY PlaceTypes
  <2>2. backlog'[v] = Append(backlog[v], c) /\ \A w \in Services : w # v => backlog'[w] = backlog[w]
    BY <1>1, PlaceTypes
  <2> QED
    BY <2>1, <2>2
<1>7. \A w \in Services : \A i \in 1..Len(backlog'[w]) :
        \/ w = v /\ i = Len(backlog[v]) + 1 /\ backlog'[w][i] = c
        \/ i \in 1..Len(backlog[w]) /\ backlog'[w][i] = backlog[w][i]
  BY <1>6, PlaceTypes
<1>8. \A w, u \in Services : \A i \in 1..Len(backlog'[w]), j \in 1..Len(backlog'[u]) :
        backlog'[w][i] = backlog'[u][j] => w = u /\ i = j
  <2> SUFFICES ASSUME NEW w \in Services, NEW u \in Services,
                      NEW i \in 1..Len(backlog'[w]), NEW j \in 1..Len(backlog'[u]),
                      backlog'[w][i] = backlog'[u][j]
               PROVE  w = u /\ i = j
    OBVIOUS
  <2> QED
    BY <1>3, <1>5, <1>7 DEF BacklogOnce
<1>9. ASSUME NEW w \in Services, NEW i \in 1..Len(backlog'[w])
      PROVE  /\ client'[backlog'[w][i]] = "open"
             /\ \A j \in 1..Len(queue') : queue'[j].conn # backlog'[w][i]
             /\ \A t \in Slaves : Holds(slave'[t]) # backlog'[w][i]
  <2>1. CASE backlog'[w][i] = c
    BY <1>2, <1>4, <1>5, <2>1
  <2>2. CASE i \in 1..Len(backlog[w]) /\ backlog'[w][i] = backlog[w][i]
    BY <1>2, <1>3, <1>4, <1>5, <2>2, PlaceTypes DEF OnePlace, BacklogOnce, BacklogApart, PairApart, HeldApart
  <2> QED
    BY <1>7, <2>1, <2>2
<1>10. ASSUME NEW i \in 1..Len(queue')
       PROVE  /\ client'[queue'[i].conn] = "open"
              /\ \A j \in 1..Len(queue') : queue'[i].conn = queue'[j].conn => i = j
              /\ \A t \in Slaves : Holds(slave'[t]) # queue'[i].conn
  BY <1>2, <1>3, <1>4, <1>5, PlaceTypes DEF OnePlace, BacklogOnce, BacklogApart, PairApart, HeldApart
<1>11. ASSUME NEW t \in Slaves, Holds(slave'[t]) # None
       PROVE  /\ client'[Holds(slave'[t])] = "open"
              /\ \A r \in Slaves : Holds(slave'[r]) = Holds(slave'[t]) => r = t
  BY <1>2, <1>3, <1>4, <1>5, <1>11, PlaceTypes DEF OnePlace, BacklogOnce, BacklogApart, PairApart, HeldApart
<1> QED
  BY <1>8, <1>9, <1>10, <1>11 DEF OnePlace, BacklogOnce, BacklogApart, PairApart, HeldApart

\* An accepted connection leaves its backlog for the end of the pair, or is
\* rejected.
LEMMA DispatchPlaces ==
  ASSUME PlaceInv, NEW v \in Services, Dispatch(v)
  PROVE  /\ OnePlace'
         /\ \E c \in Clients :
              /\ client[c] = "open"
              /\ \A i \in 1..Len(queue) : queue[i].conn # c
              /\ \A s \in Slaves : Holds(slave[s]) # c
              /\ UNCHANGED slave
              /\ \/ \E n : /\ [conn |-> c, seq |-> n] \in Message
                           /\ queue' = Append(queue, [conn |-> c, seq |-> n])
                           /\ UNCHANGED client
                 \/ client' = [client EXCEPT ![c] = "rejected"] /\ UNCHANGED queue
<1> DEFINE c == Head(backlog[v])
           m == [conn |-> c, seq |-> dispatched]
<1>1. backlog[v] # <<>>
  BY DEF Dispatch, PlaceInv, TypeInv, MasterOK
<1>2. /\ backlog' = [backlog EXCEPT ![v] = Tail(backlog[v])]
      /\ UNCHANGED slave
      /\ \/ queue' = Append(queue, m) /\ UNCHANGED client
         \/ client' = [client EXCEPT ![c] = "rejected"] /\ UNCHANGED queue
  BY DEF Dispatch
<1>3. BacklogOnce /\ BacklogApart /\ PairApart /\ HeldApart
  BY DEF PlaceInv, OnePlace
<1>4. /\ 1 \in 1..Len(backlog[v]) /\ c = backlog[v][1]
      /\ backlog'[v] = Tail(backlog[v])
      /\ \A w \in Services : w # v => backlog'[w] = backlog[w]
      /\ \A i \in 1..Len(backlog'[v]) : /\ i + 1 \in 1..Len(backlog[v])
                                        /\ i + 1 # 1
                                        /\ backlog'[v][i] = backlog[v][i + 1]
  <2>1. backlog[v] \in Seq(Clients)
    BY PlaceTypes
  <2>2. /\ backlog'[v] = Tail(backlog[v])
        /\ \A w \in Services : w # v => backlog'[w] = backlog[w]
    BY <1>2, PlaceTypes
  <2> QED
    BY <1>1, <2>1, <2>2
<1>5. /\ c \in Clients
      /\ client[c] = "open"
      /\ \A i \in 1..Len(queue) : queue[i].conn # c
      /\ \A s \in Slaves : Holds(slave[s]) # c
  BY <1>3, <1>4, PlaceTypes DEF OnePlace, BacklogOnce, BacklogApart, PairApart, HeldApart
<1>6. m \in Message
  BY <1>5 DEF Message, PlaceInv, TypeInv, TypeOK
<1>7. \A w \in Services : \A i \in 1..Len(backlog'[w]) :
        \E k \in 1..Len(backlog[w]) :
          /\ backlog'[w][i] = backlog[w][k]
          /\ backlog[w][k] # c
          /\ k = IF w = v THEN i + 1 ELSE i
  <2> SUFFICES ASSUME NEW w \in Services, NEW i \in 1..Len(backlog'[w])
               PROVE  \E k \in 1..Len(backlog[w]) :
                        /\ backlog'[w][i] = backlog[w][k]
                        /\ backlog[w][k] # c
                        /\ k = IF w = v THEN i + 1 ELSE i
    OBVIOUS
  <2>1. CASE w = v
    <3>1. /\ i + 1 \in 1..Len(backlog[v])
          /\ i + 1 # 1
          /\ backlog'[v][i] = backlog[v][i + 1]
      BY <1>4, <2>1
    <3>2. backlog[v][i + 1] # c
      <4> DEFINE k == i + 1
      <4>1. k \in 1..Len(backlog[v]) /\ k # 1
        BY <3>1
      <4> HIDE DEF k
      <4>2. backlog[v][k] # backlog[v][1]
        BY <1>3, <1>4, <4>1 DEF BacklogOnce
      <4> QED
        BY <1>4, <4>2 DEF k
    <3> QED
      BY <2>1, <3>1, <3>2
  <2>2. CASE w # v
    BY <1>3, <1>4, <2>2 DEF BacklogOnce
  <2> QED
    BY <2>1, <2>2
<1> HIDE DEF c, m
<1>8. \A w, u \in Services : \A i \in 1..Len(backlog'[w]), j \in 1..Len(backlog'[u]) :
        backlog'[w][i] = backlog'[u][j] => w = u /\ i = j
  <2> SUFFICES ASSUME NEW w \in Services, NEW u \in Services,
                      NEW i \in 1..Len(backlog'[w]), NEW j \in 1..Len(backlog'[u]),
                      backlog'[w][i] = backlog'[u][j]
               PROVE  w = u /\ i = j
    OBVIOUS
  <2>1. PICK k \in 1..Len(backlog[w]) : /\ backlog'[w][i] = backlog[w][k]
                                        /\ k = IF w = v THEN i + 1 ELSE i
    BY <1>7
  <2>2. PICK l \in 1..Len(backlog[u]) : /\ backlog'[u][j] = backlog[u][l]
                                        /\ l = IF u = v THEN j + 1 ELSE j
    BY <1>7
  <2>3. w = u /\ k = l
    <3>1. backlog[w][k] = backlog[u][l]
      BY <2>1, <2>2
    <3> QED
      BY <1>3, <3>1 DEF BacklogOnce
  <2>4. i \in Int /\ j \in Int
    OBVIOUS
  <2> QED
    BY <2>1, <2>2, <2>3, <2>4
<1>9. OnePlace' /\ (UNCHANGED client \/ client' = [client EXCEPT ![c] = "rejected"])
  <2>1. CASE client' = [client EXCEPT ![c] = "rejected"] /\ UNCHANGED queue
    <3>1. \A d \in Clients : d # c => client'[d] = client[d]
      BY <2>1, PlaceTypes
    <3>2. ASSUME NEW w \in Services, NEW i \in 1..Len(backlog'[w])
          PROVE  /\ client'[backlog'[w][i]] = "open"
                 /\ \A j \in 1..Len(queue') : queue'[j].conn # backlog'[w][i]
                 /\ \A t \in Slaves : Holds(slave'[t]) # backlog'[w][i]
      <4>1. PICK k \in 1..Len(backlog[w]) : backlog'[w][i] = backlog[w][k] /\ backlog[w][k] # c
        BY <1>7
      <4>2. backlog[w][k] \in Clients
        BY PlaceTypes
      <4> QED
        BY <1>2, <1>3, <2>1, <3>1, <4>1, <4>2 DEF BacklogApart
    <3>3. ASSUME NEW i \in 1..Len(queue')
          PROVE  /\ client'[queue'[i].conn] = "open"
                 /\ \A j \in 1..Len(queue') : queue'[i].conn = queue'[j].conn => i = j
                 /\ \A t \in Slaves : Holds(slave'[t]) # queue'[i].conn
      BY <1>2, <1>3, <1>5, <2>1, <3>1, PlaceTypes DEF OnePlace, BacklogOnce, BacklogApart, PairApart, HeldApart
    <3>4. ASSUME NEW t \in Slaves, Holds(slave'[t]) # None
          PROVE  /\ client'[Holds(slave'[t])] = "open"
                 /\ \A r \in Slaves : Holds(slave'[r]) = Holds(slave'[t]) => r = t
      BY <1>2, <1>3, <1>5, <2>1, <3>1, <3>4, PlaceTypes DEF OnePlace, BacklogOnce, BacklogApart, PairApart, HeldApart
    <3> QED
      BY <1>8, <2>1, <3>2, <3>3, <3>4 DEF OnePlace, BacklogOnce, BacklogApart, PairApart, HeldApart
  <2>2. CASE queue' = Append(queue, m) /\ UNCHANGED client
    <3>1. m.conn = c
      BY DEF m
    <3>2. \A i \in 1..Len(queue') :
            \/ i \in 1..Len(queue) /\ queue'[i] = queue[i]
            \/ i = Len(queue) + 1 /\ queue'[i] = m
      BY <1>6, <2>2, PlaceTypes
    <3>3. ASSUME NEW w \in Services, NEW i \in 1..Len(backlog'[w])
          PROVE  /\ client'[backlog'[w][i]] = "open"
                 /\ \A j \in 1..Len(queue') : queue'[j].conn # backlog'[w][i]
                 /\ \A t \in Slaves : Holds(slave'[t]) # backlog'[w][i]
      <4>1. PICK k \in 1..Len(backlog[w]) : backlog'[w][i] = backlog[w][k] /\ backlog[w][k] # c
        BY <1>7
      <4>2. \A j \in 1..Len(queue') : queue'[j].conn # backlog[w][k]
        BY <1>3, <3>1, <3>2, <4>1, SMTT(30) DEF BacklogApart
      <4> QED
        BY <1>2, <1>3, <2>2, <4>1, <4>2 DEF BacklogApart
    <3>4. ASSUME NEW i \in 1..Len(queue')
          PROVE  /\ client'[queue'[i].conn] = "open"
                 /\ \A j \in 1..Len(queue') : queue'[i].conn = queue'[j].conn => i = j
                 /\ \A t \in Slaves : Holds(slave'[t]) # queue'[i].conn
      BY <1>2, <1>3, <1>5, <2>2, <3>1, <3>2 DEF OnePlace, BacklogOnce, BacklogApart, PairApart, HeldApart
    <3>5. ASSUME NEW t \in Slaves, Holds(slave'[t]) # None
          PROVE  /\ client'[Holds(slave'[t])] = "open"
                 /\ \A r \in Slaves : Holds(slave'[r]) = Holds(slave'[t]) => r = t
      BY <1>2, <1>3, <2>2, <3>5 DEF OnePlace, BacklogOnce, BacklogApart, PairApart, HeldApart
    <3> QED
      BY <1>8, <2>2, <3>3, <3>4, <3>5 DEF OnePlace, BacklogOnce, BacklogApart, PairApart, HeldApart
  <2> QED
    BY <1>2, <2>1, <2>2
<1> QED
  BY <1>2, <1>5, <1>6, <1>9 DEF m

\* What the other steps leave alone; a replaced slave had nothing.
LEMMA RestPlaces ==
  ASSUME PlaceInv,
         \/ \E c \in Clients : Request(c)
         \/ Terminated
         \/ Unblock \/ Wake \/ Resurrect \/ Terminate \/ ReadAck \/ Loop
         \/ UNCHANGED vars
  PROVE  /\ UNCHANGED <<backlog, queue, client>>
         /\ \A s \in Slaves : SlaveShape(slave'[s]) /\ Holds(slave'[s]) = Holds(slave[s])
<1>1. UNCHANGED <<backlog, queue, client>>
  BY DEF Request, Terminated, Unblock, Wake, Resurrect, Terminate, ReadAck, Loop, vars, wires
<1>2. CASE Resurrect
  <2>1. PICK revived : /\ revived \subseteq {s \in Slaves : slave[s].phase = "dead"}
                       /\ slave' = [s \in Slaves |-> IF s \in revived THEN NewSlave ELSE slave[s]]
    BY <1>2 DEF Resurrect
  <2>2. \A s \in revived : Holds(slave[s]) = None
    BY <2>1 DEF PlaceInv, SlaveShape, Holds
  <2>3. \A s \in Slaves : slave'[s] = IF s \in revived THEN NewSlave ELSE slave[s]
    BY <2>1
  <2> QED
    BY <1>1, <2>2, <2>3, DeadShape DEF PlaceInv
<1>3. CASE ~Resurrect
  <2>1. UNCHANGED slave
    BY <1>3 DEF Request, Terminated, Unblock, Wake, Terminate, ReadAck, Loop, vars
  <2> QED
    BY <1>1, <2>1 DEF PlaceInv
<1> QED
  BY <1>2, <1>3

\* No slave has anything at the start.
LEMMA PlaceInit ==
  ASSUME Init
  PROVE  PlaceInv
<1>1. TypeInv
  BY TypeInit
<1>2. \A s \in Slaves : SlaveShape(slave[s]) /\ Holds(slave[s]) = None
  BY DeadShape DEF Init
<1>3. (\A v \in Services : Len(backlog[v]) = 0) /\ Len(queue) = 0
  BY DEF Init
<1>4. OnePlace
  BY <1>2, <1>3 DEF OnePlace, BacklogOnce, BacklogApart, PairApart, HeldApart
<1> QED
  BY <1>1, <1>2, <1>4 DEF PlaceInv

\* Every step keeps every connection in its one place.
LEMMA PlaceStep ==
  ASSUME PlaceInv, [Next]_vars
  PROVE  PlaceInv'
<1>1. TypeInv'
  BY TypeStep DEF PlaceInv
<1>2. CASE \/ \E c \in Clients : Request(c)
           \/ Terminated
           \/ Unblock \/ Wake \/ Resurrect \/ Terminate \/ ReadAck \/ Loop
           \/ UNCHANGED vars
  <2>1. /\ UNCHANGED <<backlog, queue, client>>
        /\ \A s \in Slaves : SlaveShape(slave'[s]) /\ Holds(slave'[s]) = Holds(slave[s])
    BY <1>2, RestPlaces
  <2>2. OnePlace'
    <3>1. BacklogOnce' /\ BacklogApart' /\ PairApart'
      BY <2>1 DEF PlaceInv, OnePlace, BacklogOnce, BacklogApart, PairApart
    <3>2. HeldApart'
      BY <2>1 DEF PlaceInv, OnePlace, HeldApart
    <3> QED
      BY <3>1, <3>2 DEF OnePlace
  <2> QED
    BY <1>1, <2>1, <2>2 DEF PlaceInv
<1>3. ASSUME NEW c \in Clients, Connect(c) PROVE PlaceInv'
  <2>1. OnePlace'
    BY <1>3, ConnectPlaces
  <2>2. UNCHANGED slave
    BY <1>3 DEF Connect
  <2> QED
    BY <1>1, <2>1, <2>2 DEF PlaceInv
<1>4. ASSUME NEW v \in Services, Dispatch(v) PROVE PlaceInv'
  <2>1. OnePlace'
    BY <1>4, DispatchPlaces
  <2>2. UNCHANGED slave
    BY <1>4 DEF Dispatch
  <2> QED
    BY <1>1, <2>1, <2>2 DEF PlaceInv
<1>5. ASSUME NEW s \in Slaves, SlaveStep(s) \/ Crash(s) \/ Ages(s) \/ Quiet(s)
      PROVE  PlaceInv'
  <2>1. Moves(s) /\ UNCHANGED backlog
    BY <1>5, SlaveMoves DEF PlaceInv
  <2> QED
    BY <1>1, <2>1, MovePlaces DEF PlaceInv
<1> QED
  BY <1>2, <1>3, <1>4, <1>5 DEF Next, Master

\* The connections of the pair, when one is taken or sent.
LEMMA ConnsOf ==
  ASSUME NEW q \in Seq(Message), NEW m \in Message
  PROVE  LET conns(p) == [i \in 1..Len(p) |-> p[i].conn]
         IN  /\ conns(Append(q, m)) = Append(conns(q), m.conn)
             /\ q # <<>> => /\ conns(q) # <<>>
                            /\ Head(conns(q)) = Head(q).conn
                            /\ conns(Tail(q)) = Tail(conns(q))
<1> DEFINE conns(p) == [i \in 1..Len(p) |-> p[i].conn]
<1>1. \A p \in Seq(Message) : conns(p) \in Seq(Clients) /\ Len(conns(p)) = Len(p)
  <2> SUFFICES ASSUME NEW p \in Seq(Message)
               PROVE  conns(p) \in Seq(Clients) /\ Len(conns(p)) = Len(p)
    OBVIOUS
  <2>1. Len(p) \in Nat /\ \A i \in 1..Len(p) : p[i] \in Message
    OBVIOUS
  <2>2. \A x \in Message : x.conn \in Clients
    BY DEF Message
  <2> QED
    BY <2>1, <2>2
<1>2. conns(Append(q, m)) = Append(conns(q), m.conn)
  <2>1. m.conn \in Clients
    BY DEF Message
  <2>2. /\ Append(q, m) \in Seq(Message)
        /\ Len(Append(q, m)) = Len(q) + 1
        /\ \A i \in 1..(Len(q) + 1) :
             Append(q, m)[i] = IF i = Len(q) + 1 THEN m ELSE q[i]
    OBVIOUS
  <2>3. /\ Append(conns(q), m.conn) \in Seq(Clients)
        /\ Len(Append(conns(q), m.conn)) = Len(q) + 1
        /\ \A i \in 1..(Len(q) + 1) :
             Append(conns(q), m.conn)[i] = IF i = Len(q) + 1 THEN m.conn ELSE conns(q)[i]
    <3>1. conns(q) \in Seq(Clients) /\ Len(conns(q)) = Len(q)
      BY <1>1
    <3> HIDE DEF conns
    <3> QED
      BY <2>1, <3>1
  <2>4. Len(q) \in Nat
    OBVIOUS
  <2>5. \A i \in 1..(Len(q) + 1) : conns(Append(q, m))[i] = Append(conns(q), m.conn)[i]
    BY <2>2, <2>3, <2>4
  <2>6. conns(Append(q, m)) \in Seq(Clients) /\ Len(conns(Append(q, m))) = Len(q) + 1
    BY <1>1, <2>2
  <2> HIDE DEF conns
  <2> QED
    BY <2>3, <2>5, <2>6
<1>3. ASSUME q # <<>>
      PROVE  /\ conns(q) # <<>>
             /\ Head(conns(q)) = Head(q).conn
             /\ conns(Tail(q)) = Tail(conns(q))
  <2>1. /\ Tail(q) \in Seq(Message)
        /\ Len(Tail(q)) = Len(q) - 1
        /\ \A i \in 1..(Len(q) - 1) : Tail(q)[i] = q[i + 1]
        /\ Head(q) = q[1]
        /\ Len(q) \in Nat \ {0}
    BY <1>3
  <2>2. /\ conns(q) # <<>>
        /\ Tail(conns(q)) \in Seq(Clients)
        /\ Len(Tail(conns(q))) = Len(q) - 1
        /\ \A i \in 1..(Len(q) - 1) : Tail(conns(q))[i] = conns(q)[i + 1]
        /\ Head(conns(q)) = conns(q)[1]
    <3>1. conns(q) \in Seq(Clients) /\ Len(conns(q)) = Len(q)
      BY <1>1
    <3> HIDE DEF conns
    <3> QED
      BY <2>1, <3>1
  <2>3. \A i \in 1..(Len(q) - 1) : conns(Tail(q))[i] = Tail(conns(q))[i]
    BY <2>1, <2>2
  <2>4. conns(Tail(q)) \in Seq(Clients) /\ Len(conns(Tail(q))) = Len(q) - 1
    BY <1>1, <2>1
  <2>5. Head(conns(q)) = Head(q).conn
    BY <2>1, <2>2
  <2> HIDE DEF conns
  <2> QED
    BY <2>2, <2>3, <2>4, <2>5
<1> QED
  BY <1>2, <1>3

\* A slave that moves a connection takes it, leaves it or does neither.
LEMMA MoveHands ==
  ASSUME PlaceInv, NEW s \in Slaves, Moves(s)
  PROVE  Handing!Take(s) \/ Handing!Leave(s) \/ UNCHANGED Handing!hvars
<1> DEFINE conns(p) == [i \in 1..Len(p) |-> p[i].conn]
           holder == [t \in Slaves |-> Holds(slave[t])]
<1>1. PICK u : /\ slave' = [slave EXCEPT ![s] = u]
               /\ Keeps(s, u) \/ Drops(s, u) \/ Takes(s, u)
  BY DEF Moves
<1>2. holder' = [holder EXCEPT ![s] = Holds(u)] /\ holder[s] = Holds(slave[s])
  BY <1>1, PlaceTypes
<1>3. LetsGo(s) => Handing!LetGo(s)
  BY <1>2 DEF LetsGo, Handing!LetGo
<1>4. CASE Holds(u) = Holds(slave[s]) /\ UNCHANGED <<queue, client>>
  <2>1. holder' = holder
    BY <1>2, <1>4
  <2> QED
    BY <1>4, <2>1 DEF Handing!hvars
<1>5. CASE Drops(s, u) /\ Holds(slave[s]) # None
  BY <1>2, <1>3, <1>5 DEF Drops, Handing!Leave
<1>6. CASE Drops(s, u) /\ Holds(slave[s]) = None
  BY <1>4, <1>6 DEF Drops, LetsGo
<1>7. CASE Takes(s, u)
  <2>1. /\ conns(queue) # <<>>
        /\ Head(conns(queue)) = Head(queue).conn
        /\ conns(queue') = Tail(conns(queue))
    <3>1. queue # <<>> /\ queue' = Tail(queue) /\ queue \in Seq(Message)
      BY <1>7, PlaceTypes DEF Takes
    <3>2. \E m : m \in Message
      BY <3>1
    <3> QED
      BY <3>1, <3>2, ConnsOf
  <2>2. LetsGo(s) /\ Holds(u) = Head(queue).conn
    BY <1>7 DEF Takes
  <2> QED
    BY <1>2, <1>3, <2>1, <2>2 DEF Handing!Take
<1> QED
  BY <1>1, <1>4, <1>5, <1>6, <1>7 DEF Keeps

\* The master sends a connection that is in no other place, or rejects it.
LEMMA DispatchHands ==
  ASSUME PlaceInv, NEW v \in Services, Dispatch(v)
  PROVE  \E c \in Clients : Handing!Admit(c) \/ Handing!Refuse(c)
<1> DEFINE conns(p) == [i \in 1..Len(p) |-> p[i].conn]
<1>1. PICK c \in Clients :
        /\ client[c] = "open"
        /\ \A i \in 1..Len(queue) : queue[i].conn # c
        /\ \A s \in Slaves : Holds(slave[s]) # c
        /\ UNCHANGED slave
        /\ \/ \E n : /\ [conn |-> c, seq |-> n] \in Message
                     /\ queue' = Append(queue, [conn |-> c, seq |-> n])
                     /\ UNCHANGED client
           \/ client' = [client EXCEPT ![c] = "rejected"] /\ UNCHANGED queue
  BY DispatchPlaces
<1>2. Handing!Outside(c)
  BY <1>1 DEF Handing!Outside, Handing!Placed
<1>3. ASSUME NEW n, [conn |-> c, seq |-> n] \in Message,
             queue' = Append(queue, [conn |-> c, seq |-> n]),
             UNCHANGED client
      PROVE  Handing!Admit(c)
  <2>1. conns(queue') = Append(conns(queue), c)
    BY <1>3, ConnsOf, PlaceTypes
  <2> QED
    BY <1>1, <1>2, <1>3, <2>1 DEF Handing!Admit
<1>4. CASE client' = [client EXCEPT ![c] = "rejected"] /\ UNCHANGED queue
  BY <1>1, <1>2, <1>4 DEF Handing!Refuse
<1> QED
  BY <1>1, <1>3, <1>4

\* The server bones implement the hand-over of connections, for any number of
\* slaves, services and connections and whatever fails: no connection is in two
\* places, overtaken in the pair, forgotten by a slave that goes on to another,
\* or held by a dead slave.
THEOREM HandsOver == Spec => IsHandOver
<1>1. Init => Handing!Init
  <2> SUFFICES ASSUME Init PROVE Handing!Init
    OBVIOUS
  <2>1. \A s \in Slaves : Holds(slave[s]) = None
    BY DeadShape DEF Init
  <2>2. [s \in Slaves |-> Holds(slave[s])] = [s \in Slaves |-> None]
    BY <2>1
  <2>3. queue = <<>> /\ client = [c \in Clients |-> "away"]
    BY DEF Init
  <2>4. [i \in 1..Len(queue) |-> queue[i].conn] = <<>>
    BY <2>3
  <2> QED
    BY <2>2, <2>3, <2>4 DEF Handing!Init
<1>2. PlaceInv /\ [Next]_vars => [Handing!Next]_(Handing!hvars)
  <2> SUFFICES ASSUME PlaceInv, [Next]_vars
               PROVE  Handing!Next \/ UNCHANGED Handing!hvars
    OBVIOUS
  <2>1. CASE \/ \E c \in Clients : Request(c)
             \/ Terminated
             \/ Unblock \/ Wake \/ Resurrect \/ Terminate \/ ReadAck \/ Loop
             \/ UNCHANGED vars
    <3>1. /\ UNCHANGED <<queue, client>>
          /\ \A s \in Slaves : Holds(slave'[s]) = Holds(slave[s])
      BY <2>1, RestPlaces
    <3>2. [s \in Slaves |-> Holds(slave'[s])] = [s \in Slaves |-> Holds(slave[s])]
      BY <3>1
    <3> QED
      BY <3>1, <3>2 DEF Handing!hvars
  <2>2. ASSUME NEW c \in Clients, Connect(c) PROVE Handing!Next
    <3>1. Handing!Arrive(c)
      BY <2>2 DEF Connect, wires, Handing!Arrive
    <3> QED
      BY <3>1 DEF Handing!Next
  <2>3. ASSUME NEW v \in Services, Dispatch(v) PROVE Handing!Next
    BY <2>3, DispatchHands DEF Handing!Next
  <2>4. ASSUME NEW s \in Slaves, SlaveStep(s) \/ Crash(s) \/ Ages(s) \/ Quiet(s)
        PROVE  Handing!Next \/ UNCHANGED Handing!hvars
    <3>1. Moves(s)
      BY <2>4, SlaveMoves DEF PlaceInv
    <3> QED
      BY <3>1, MoveHands DEF Handing!Next
  <2> QED
    BY <2>1, <2>2, <2>3, <2>4 DEF Next, Master
<1> QED
  BY <1>1, <1>2, PlaceInit, PlaceStep, PTL DEF Spec, IsHandOver, Handing!Spec
===============================================================================
