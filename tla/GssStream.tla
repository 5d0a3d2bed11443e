------------------------------- MODULE GssStream -------------------------------
(***************************************************************************)
(* The GSS wrapper, org.glite.security.gss/src/glite_gss.c: two ends of a  *)
(* connection that establish a security context, write records, and read   *)
(* them through a buffer, each call under a timeout that the caller passes *)
(* from call to call and every token sent or received reduces.             *)
(*                                                                         *)
(* The bytes an end writes are numbered 1, 2, ... in the order of writing. *)
(* A record becomes one unit on the wire per byte; only its last unit lets *)
(* the other end decode it.  The SSL layer below (external) notices when a *)
(* unit is not the one that follows the units before it.                   *)
(***************************************************************************)
EXTENDS Integers, Sequences

CONSTANTS Blocking,  \* ends whose socket is blocking (edg_wll_gss_accept leaves it so)
          Timeouts,  \* what a caller may set the timeout to
          Flights,   \* tokens exchanged to establish the context, the client's first
          Chunk,     \* the buffer of recv_token
          Capacity,  \* what the sockets between the ends hold
          Sizes,     \* sizes of records and of the readers' buffers
          MaxBytes,  \* bound: the bytes each end writes
          Late,      \* bound: how long after its timeout a process runs again
          Faults     \* what may go wrong

Ends == {"client", "server"}
Peer == [e \in Ends |-> IF e = "client" THEN "server" ELSE "client"]

ASSUME StreamAssumption ==
  /\ Blocking \subseteq Ends
  /\ Timeouts \subseteq Nat
  /\ Flights \in Nat \ {0} /\ Flights % 2 = 0
  /\ Chunk \in Nat \ {0} /\ Capacity \in Nat \ {0}
  /\ Sizes \subseteq Nat \ {0}
  /\ MaxBytes \in [Ends -> Nat]
  /\ Late \in Nat
  /\ Faults \subseteq {"signal",   \* select() is interrupted
                      "malloc",   \* no memory for what is left of a record
                      "kill",     \* a process ends
                      "resolver", \* the name service does not know the host
                      "refused"}  \* nobody listens at the port

VARIABLES sock,     \* the socket of an end
          wire,     \* units an end has sent and the other has not read
          flights,  \* tokens of the handshake an end has sent or received
          held,     \* units of an incomplete record, inside the SSL layer
          next,     \* the number of the unit the SSL layer waits for
          buffer,   \* connection->buffer: decoded, not read yet
          timeout,  \* *timeout, what is left of it between two waits
          spent,    \* what the wait an end is in has taken so far
          call,     \* the call of the wrapper an end is in
          result,   \* what the last call returned
          written,  \* history: bytes made into records
          promised, \* history: the last byte of the last write that succeeded
          got       \* history: the bytes the caller holds

vars == <<sock, wire, flights, held, next, buffer, timeout, spent, call, result,
          written, promised, got>>
times == <<timeout, spent>>
history == <<written, promised, got>>

Unit == [byte : Nat, last : BOOLEAN]     \* byte is 0 in the handshake
Call == [op : {"none", "lookup", "dial", "shake", "write", "read", "full"},
         left : Seq(Unit),     \* the rest of the token to send
         size : Nat,           \* bufsize
         total : Nat,          \* *total, of read_full
         stuck : BOOLEAN]      \* in a write() that waits for room

Sending(op, token) ==
  [op |-> op, left |-> token, size |-> 0, total |-> 0, stuck |-> FALSE]
Reading(op, size, total) ==
  [op |-> op, left |-> <<>>, size |-> size, total |-> total, stuck |-> FALSE]
NoCall == Sending("none", <<>>)

Results == {"ok", "timeout", "errno", "herrno", "gss", "eof"}

Init ==
  /\ sock = [e \in Ends |-> "none"]
  /\ wire = [e \in Ends |-> <<>>]
  /\ flights = [e \in Ends |-> 0]
  /\ held = [e \in Ends |-> <<>>]
  /\ next = [e \in Ends |-> 1]
  /\ buffer = [e \in Ends |-> <<>>]
  /\ timeout = [e \in Ends |-> 0]
  /\ spent = [e \in Ends |-> 0]
  /\ call = [e \in Ends |-> NoCall]
  /\ result = [e \in Ends |-> "ok"]
  /\ written = [e \in Ends |-> 0]
  /\ promised = [e \in Ends |-> 0]
  /\ got = [e \in Ends |-> <<>>]

TypeOK ==
  /\ sock \in [Ends -> {"none", "open", "closed", "reset"}]
  /\ wire \in [Ends -> Seq(Unit)]
  /\ flights \in [Ends -> 0..Flights]
  /\ held \in [Ends -> Seq(Unit)]
  /\ next \in [Ends -> Nat]
  /\ buffer \in [Ends -> Seq(Nat)]
  /\ timeout \in [Ends -> Int]
  /\ spent \in [Ends -> Nat]
  /\ call \in [Ends -> Call]
  /\ result \in [Ends -> Results]
  /\ written \in [Ends -> Nat]
  /\ promised \in [Ends -> Nat]
  /\ got \in [Ends -> Seq(Nat)]

--------------------------------------------------------------------------------
Gone(e) == sock[e] \in {"closed", "reset"}
Busy(e) == call[e].op # "none"

\* What select() tells end e.
Writable(e) == Len(wire[e]) < Capacity \/ Gone(Peer[e])
Readable(e) == wire[Peer[e]] # <<>> \/ Gone(Peer[e])

\* The context is there, and the caller has not seen an error it must close at.
Usable(e) == /\ sock[e] = "open" /\ flights[e] = Flights /\ ~Busy(e)
             /\ result[e] \in {"ok", "timeout"}

\* Two units make a token of the handshake: it may arrive in pieces.
Flight == <<[byte |-> 0, last |-> FALSE], [byte |-> 0, last |-> TRUE]>>

\* gss_wrap: the n bytes that follow the byte b.
Record(b, n) == [i \in 1..n |-> [byte |-> b + i, last |-> i = n]]
Bytes(units) == [i \in 1..Len(units) |-> units[i].byte]

\* The first n of a sequence, and the others.
First(s, n) == SubSeq(s, 1, n)
After(s, n) == SubSeq(s, n + 1, Len(s))
Smaller(m, n) == IF m < n THEN m ELSE n

\* close(): what was not read makes the kernel reset the connection.
Closed(e) == /\ sock' = [sock EXCEPT ![e] = IF wire[Peer[e]] = <<>> THEN "closed" ELSE "reset"]
             /\ wire' = [wire EXCEPT ![Peer[e]] = <<>>]
             /\ buffer' = [buffer EXCEPT ![e] = <<>>]
             /\ held' = [held EXCEPT ![e] = <<>>]

Return(e, r) == /\ call' = [call EXCEPT ![e] = NoCall]
                /\ result' = [result EXCEPT ![e] = r]

\* Faulty: the timeout is not kept from becoming negative.
LeftPastZero(e) == timeout[e] - spent[e]

\* The wait for a token is over: send_token and recv_token take the time it took
\* off the timeout, down to zero.
Left(e) == IF spent[e] < timeout[e] THEN timeout[e] - spent[e] ELSE 0

WaitedForToken(e) == /\ timeout' = [timeout EXCEPT ![e] = Left(e)]
                     /\ spent' = [spent EXCEPT ![e] = 0]

\* The name service and connect() do not stop at zero.
WaitedToDial(e) == /\ timeout' = [timeout EXCEPT ![e] = @ - spent[e]]
                   /\ spent' = [spent EXCEPT ![e] = 0]

\* The time is not taken off at all.
WaitedForNothing(e) == /\ spent' = [spent EXCEPT ![e] = 0]
                       /\ UNCHANGED timeout

\* A call fails; edg_wll_gss_connect, and the caller of edg_wll_gss_accept,
\* close the socket then.
Fail(e, r) ==
  /\ Return(e, r)
  /\ IF call[e].op = "shake" THEN Closed(e)
     ELSE UNCHANGED <<sock, wire, buffer, held>>
  /\ UNCHANGED <<flights, next, history>>

--------------------------------------------------------------------------------
(* The calls of the wrapper. *)

\* The caller sets the timeout; otherwise the next call has what is left.
SetTimeout(e, t) ==
  /\ ~Busy(e) /\ timeout[e] # t
  /\ timeout' = [timeout EXCEPT ![e] = t]
  /\ UNCHANGED <<sock, wire, flights, held, next, buffer, spent, call, result, history>>

\* edg_wll_gss_connect asks the name service.
Connect ==
  /\ sock["client"] = "none" /\ ~Busy("client")
  /\ call' = [call EXCEPT !["client"] = Sending("lookup", <<>>)]
  /\ UNCHANGED <<sock, wire, flights, held, next, buffer, times, result, history>>

\* A turn of the loop of asyn_getservbyname2: the timeout is reduced before the
\* next wait, and nothing may be left.
LookUp ==
  /\ call["client"].op = "lookup"
  /\ timeout["client"] > 0 => spent["client"] > 0
  /\ WaitedToDial("client")
  /\ IF timeout["client"] <= spent["client"] THEN Return("client", "timeout")
     ELSE UNCHANGED <<call, result>>
  /\ UNCHANGED <<sock, wire, flights, held, next, buffer, history>>

\* The answer ends the loop before its wait is counted; connect() is called.
Resolved ==
  /\ call["client"].op = "lookup"
  /\ WaitedForNothing("client")
  /\ call' = [call EXCEPT !["client"] = Sending("dial", <<>>)]
  /\ UNCHANGED <<sock, wire, flights, held, next, buffer, result, history>>

\* The name service has no address for the host.
LookUpFails ==
  /\ "resolver" \in Faults
  /\ call["client"].op = "lookup"
  /\ WaitedForNothing("client")
  /\ Return("client", "herrno")
  /\ UNCHANGED <<sock, wire, flights, held, next, buffer, history>>

\* The socket is connected, at once or after a wait: the first token is ready.
Dialled ==
  /\ call["client"].op = "dial"
  /\ WaitedToDial("client")
  /\ sock' = [sock EXCEPT !["client"] = "open"]
  /\ call' = [call EXCEPT !["client"] = Sending("shake", Flight)]
  /\ UNCHANGED <<wire, flights, held, next, buffer, result, history>>

\* connect() reports an error, at once or after a wait.
Refused ==
  /\ "refused" \in Faults
  /\ call["client"].op = "dial"
  /\ WaitedToDial("client")
  /\ Return("client", "errno")
  /\ UNCHANGED <<sock, wire, flights, held, next, buffer, history>>

\* do_connect gives up the wait for the connection, which may come to be at the
\* other end.
HangUp(r) ==
  /\ call["client"].op = "dial"
  /\ WaitedForNothing("client")
  /\ Return("client", r)
  /\ \/ sock' = [sock EXCEPT !["client"] = "closed"]
     \/ UNCHANGED sock
  /\ UNCHANGED <<wire, flights, held, next, buffer, history>>

\* select() of do_connect finds nothing, or does not accept the timeout.
DialExpires ==
  /\ spent["client"] >= timeout["client"]
  /\ HangUp(IF timeout["client"] < 0 THEN "errno" ELSE "timeout")

\* edg_wll_gss_accept on the socket accept() returned.
Accept ==
  /\ sock["server"] = "none" /\ sock["client"] # "none" /\ ~Busy("server")
  /\ sock' = [sock EXCEPT !["server"] = "open"]
  /\ call' = [call EXCEPT !["server"] = Sending("shake", <<>>)]
  /\ UNCHANGED <<wire, flights, held, next, buffer, times, result, history>>

\* edg_wll_gss_write.  The client speaks first: the services answer requests.
Write(e, n) ==
  /\ Usable(e) /\ written[e] + n <= MaxBytes[e]
  /\ e = "server" => got[e] # <<>>
  /\ call' = [call EXCEPT ![e] = Sending("write", Record(written[e], n))]
  /\ written' = [written EXCEPT ![e] = @ + n]
  /\ UNCHANGED <<sock, wire, flights, held, next, buffer, times, result,
                 promised, got>>

\* Faulty: the buffer is freed with the first part read from it.
ServeOnce(e, n) ==
  /\ got' = [got EXCEPT ![e] = @ \o First(buffer[e], Smaller(n, Len(buffer[e])))]
  /\ buffer' = [buffer EXCEPT ![e] = <<>>]

\* What edg_wll_gss_read and read_full do first: serve from the buffer.
Serve(e, n) ==
  /\ got' = [got EXCEPT ![e] = @ \o First(buffer[e], Smaller(n, Len(buffer[e])))]
  /\ buffer' = [buffer EXCEPT ![e] = After(@, Smaller(n, Len(@)))]

\* Faulty: reads on though something is left in the buffer.
ReadOn(e, n) ==
  /\ Usable(e)
  /\ call' = [call EXCEPT ![e] = Reading("read", n, 0)]
  /\ UNCHANGED <<sock, wire, flights, held, next, buffer, times, result, history>>

\* edg_wll_gss_read
Read(e, n) ==
  /\ Usable(e)
  /\ IF buffer[e] # <<>>
     THEN Serve(e, n) /\ Return(e, "ok")
     ELSE /\ call' = [call EXCEPT ![e] = Reading("read", n, 0)]
          /\ UNCHANGED <<buffer, result, got>>
  /\ UNCHANGED <<sock, wire, flights, held, next, times, written, promised>>

\* edg_wll_gss_read_full
ReadFull(e, n) ==
  /\ Usable(e)
  /\ Serve(e, n)
  /\ IF Len(buffer[e]) >= n
     THEN Return(e, "ok")
     ELSE /\ call' = [call EXCEPT ![e] = Reading("full", n, Len(buffer[e]))]
          /\ UNCHANGED result
  /\ UNCHANGED <<sock, wire, flights, held, next, times, written, promised>>

\* Faulty: puts the bytes behind those in the buffer.
UnreadBehind(e, n) ==
  /\ Usable(e) /\ n <= Len(got[e])
  /\ buffer' = [buffer EXCEPT ![e] = @ \o After(got[e], Len(got[e]) - n)]
  /\ got' = [got EXCEPT ![e] = First(@, Len(@) - n)]
  /\ UNCHANGED <<sock, wire, flights, held, next, times, call, result,
                 written, promised>>

\* edg_wll_gss_unread: the caller puts back the last n bytes it was given.
Unread(e, n) ==
  /\ Usable(e) /\ n <= Len(got[e])
  /\ buffer' = [buffer EXCEPT ![e] = After(got[e], Len(got[e]) - n) \o @]
  /\ got' = [got EXCEPT ![e] = First(@, Len(@) - n)]
  /\ UNCHANGED <<sock, wire, flights, held, next, times, call, result,
                 written, promised>>

\* edg_wll_gss_close
Close(e) ==
  /\ sock[e] = "open" /\ ~Busy(e)
  /\ Closed(e)
  /\ UNCHANGED <<flights, next, times, call, result, history>>

--------------------------------------------------------------------------------
(* send_token *)

\* Faulty: an end that has sent the last token of the handshake waits for another.
SentOn(e) ==
  IF call[e].op = "write"
  THEN /\ promised' = [promised EXCEPT ![e] = written[e]]
       /\ Return(e, "ok")
       /\ UNCHANGED flights
  ELSE /\ flights' = [flights EXCEPT ![e] = @ + 1]
       /\ call' = [call EXCEPT ![e] = Sending("shake", <<>>)]
       /\ UNCHANGED <<result, promised>>

\* The token is out.  In the handshake the end then waits for the next one,
\* or has sent the last.
Sent(e) ==
  IF call[e].op = "write"
  THEN /\ promised' = [promised EXCEPT ![e] = written[e]]
       /\ Return(e, "ok")
       /\ UNCHANGED flights
  ELSE /\ flights' = [flights EXCEPT ![e] = @ + 1]
       /\ IF flights[e] + 1 = Flights
          THEN Return(e, "ok")
          ELSE /\ call' = [call EXCEPT ![e] = Sending("shake", <<>>)]
               /\ UNCHANGED result
       /\ UNCHANGED promised

\* write() takes k units; on a blocking socket it does not return before it
\* has taken all.
Send(e) ==
  /\ call[e].left # <<>> /\ timeout[e] >= 0
  /\ Len(wire[e]) < Capacity /\ ~Gone(Peer[e])
  /\ \E k \in 1..Smaller(Len(call[e].left), Capacity - Len(wire[e])) :
       /\ wire' = [wire EXCEPT ![e] = @ \o First(call[e].left, k)]
       /\ IF k = Len(call[e].left) THEN Sent(e) /\ WaitedForToken(e)
          ELSE /\ call' = [call EXCEPT ![e].left = After(@, k),
                                       ![e].stuck = e \in Blocking]
               /\ UNCHANGED <<flights, times, result, promised>>
  /\ UNCHANGED <<sock, held, next, buffer, written, got>>

\* The first write() to a closed connection may still succeed.
SendInVain(e) ==
  /\ call[e].left # <<>> /\ timeout[e] >= 0 /\ Gone(Peer[e])
  /\ Sent(e) /\ WaitedForToken(e)
  /\ UNCHANGED <<sock, wire, held, next, buffer, written, got>>

SendFails(e) ==
  /\ call[e].left # <<>> /\ timeout[e] >= 0 /\ Gone(Peer[e])
  /\ Fail(e, "errno") /\ WaitedForToken(e)

--------------------------------------------------------------------------------
(* recv_token and gss_unwrap *)

\* A piece of a token of the handshake arrives.
ReceiveFlight(e, all) ==
  /\ call[e].op = "shake"
  /\ IF ~all[Len(all)].last
     THEN /\ held' = [held EXCEPT ![e] = all]
          /\ UNCHANGED <<flights, call, result>>
     ELSE /\ held' = [held EXCEPT ![e] = <<>>]
          /\ flights' = [flights EXCEPT ![e] = @ + 1]
          /\ IF flights[e] + 1 = Flights
             THEN Return(e, "ok")
             ELSE /\ call' = [call EXCEPT ![e].left = Flight]
                  /\ UNCHANGED result
  /\ UNCHANGED <<buffer, next, got>>

\* c units of the whole make complete records, the others stay with the SSL
\* layer.  What exceeds the caller's buffer is kept for the next read.
Unwrap(e, all, c) ==
  LET room == call[e].size - call[e].total
      n == Smaller(room, c)
  IN
  /\ held' = [held EXCEPT ![e] = After(all, c)]
  /\ \/ /\ got' = [got EXCEPT ![e] = @ \o Bytes(First(all, n))]
        /\ buffer' = [buffer EXCEPT ![e] = Bytes(After(First(all, c), n))]
        /\ IF c > 0 /\ (call[e].op = "read" \/ n = room)
           THEN Return(e, "ok")
           ELSE /\ call' = [call EXCEPT ![e].total = @ + n]
                /\ UNCHANGED result
     \/ /\ "malloc" \in Faults /\ c > n
        /\ buffer' = [buffer EXCEPT ![e] = <<>>]
        /\ Return(e, "errno")
        /\ UNCHANGED got

ReceiveData(e, all, k) ==
  /\ call[e].op \in {"read", "full"}
  /\ IF \A i \in 1..k : all[Len(held[e]) + i].byte = next[e] + i - 1
     THEN /\ next' = [next EXCEPT ![e] = @ + k]
          /\ \E c \in 0..Len(all) :
               /\ c > 0 => all[c].last
               /\ \A i \in (c + 1)..Len(all) : ~all[i].last
               /\ Unwrap(e, all, c)
     ELSE /\ Return(e, "gss")
          /\ UNCHANGED <<held, next, buffer, got>>
  /\ UNCHANGED flights

\* read() returns k units, whatever their records.
Receive(e) ==
  /\ call[e].left = <<>> /\ timeout[e] >= 0 /\ wire[Peer[e]] # <<>>
  /\ \E k \in 1..Smaller(Chunk, Len(wire[Peer[e]])) :
       LET all == held[e] \o First(wire[Peer[e]], k)
       IN /\ wire' = [wire EXCEPT ![Peer[e]] = After(@, k)]
          /\ ReceiveFlight(e, all) \/ ReceiveData(e, all, k)
  /\ WaitedForToken(e)
  /\ UNCHANGED <<sock, written, promised>>

\* At the end of file recv_token returns before it takes the time off.
ReceiveEnd(e) ==
  /\ call[e].left = <<>> /\ timeout[e] >= 0
  /\ call[e].op \in {"shake", "read", "full"}
  /\ Gone(Peer[e])
  /\ \/ /\ sock[Peer[e]] = "closed" /\ wire[Peer[e]] = <<>>
        /\ Fail(e, "eof") /\ WaitedForNothing(e)
     \/ /\ sock[Peer[e]] = "reset"
        /\ Fail(e, "errno") /\ WaitedForToken(e)

--------------------------------------------------------------------------------
(* Time and faults *)

WaitsForToken(e) == \/ call[e].left # <<>>
                    \/ call[e].op \in {"shake", "read", "full"}

\* Faulty: the timeout does not hold for the wait to send.
ExpireReading(e) ==
  /\ timeout[e] >= 0 /\ spent[e] >= timeout[e] /\ ~call[e].stuck
  /\ call[e].left = <<>> /\ WaitsForToken(e) /\ ~Readable(e)
  /\ Fail(e, "timeout") /\ WaitedForToken(e)

\* select() finds nothing and the timeout has run out.
Expire(e) ==
  /\ timeout[e] >= 0 /\ spent[e] >= timeout[e] /\ ~call[e].stuck
  /\ \/ call[e].left # <<>> /\ ~Writable(e)
     \/ call[e].left = <<>> /\ WaitsForToken(e) /\ ~Readable(e)
  /\ Fail(e, "timeout") /\ WaitedForToken(e)

\* select() does not accept the timeout do_connect left.
Invalid(e) ==
  /\ timeout[e] < 0 /\ WaitsForToken(e)
  /\ Fail(e, "errno") /\ WaitedForToken(e)

\* select() returns -1; the name service goes on waiting.
Interrupted(e) ==
  /\ "signal" \in Faults
  /\ ~call[e].stuck
  /\ \/ WaitsForToken(e) /\ Fail(e, "errno") /\ WaitedForToken(e)
     \/ e = "client" /\ HangUp("errno")

\* An end's process ends; what it has sent stays on its way.
Kill(e) ==
  /\ "kill" \in Faults /\ sock[e] = "open"
  /\ Closed(e)
  /\ WaitedForNothing(e)
  /\ call' = [call EXCEPT ![e] = NoCall]
  /\ result' = [result EXCEPT ![e] = "errno"]
  /\ UNCHANGED <<flights, next, history>>

\* Time passes for all calls.
MayWait(e) == Busy(e) /\ spent[e] < timeout[e] + Late

Tick ==
  /\ \E e \in Ends : MayWait(e)
  /\ spent' = [e \in Ends |-> IF MayWait(e) THEN spent[e] + 1 ELSE spent[e]]
  /\ UNCHANGED <<sock, wire, flights, held, next, buffer, timeout, call, result,
                 history>>

--------------------------------------------------------------------------------
\* What the wrapper does by itself.
Dialling == LookUp \/ Resolved \/ Dialled \/ DialExpires

Step(e) == \/ e = "client" /\ Dialling
           \/ Send(e) \/ SendInVain(e) \/ SendFails(e)
           \/ Receive(e) \/ ReceiveEnd(e) \/ Expire(e) \/ Invalid(e)

Caller(e) == \/ \E t \in Timeouts : SetTimeout(e, t)
             \/ \E n \in Sizes : \/ Write(e, n) \/ Read(e, n)
                                 \/ ReadFull(e, n) \/ Unread(e, n)
             \/ Close(e)

Next == \/ Connect \/ Accept \/ Tick \/ LookUpFails \/ Refused
        \/ \E e \in Ends : Caller(e) \/ Step(e) \/ Interrupted(e) \/ Kill(e)

Spec == Init /\ [][Next]_vars

\* The processes run and time passes.
Fairness == WF_vars(Tick) /\ \A e \in Ends : WF_vars(Step(e))

FairSpec == Spec /\ Fairness

--------------------------------------------------------------------------------
(***************************************************************************)
(* The bytes a caller has been given, and those kept for its next reads,   *)
(* are the first the other end wrote, in order and each once: partial      *)
(* reads, read_full over a part in the buffer, put back bytes and errors   *)
(* in the middle of a call do not lose, repeat or swap any                 *)
(* (glite_gss.c:940-985, 1005-1023, 1541-1548).                            *)
(***************************************************************************)
InOrder == \A e \in Ends :
  LET s == got[e] \o buffer[e] IN \A i \in 1..Len(s) : s[i] = i

(***************************************************************************)
(* An end of file tells the reader that it has been given all that was     *)
(* written successfully: it is reported neither with bytes left in the     *)
(* buffer, nor after a record was cut off by a timeout and others sent     *)
(* behind it (glite_gss.c:426-430, 940, 953).                              *)
(***************************************************************************)
EndMeansAll == \A e \in Ends :
  result[e] = "eof" => Len(got[e]) >= promised[Peer[e]]

(***************************************************************************)
(* What is left of a timeout is negative only while edg_wll_gss_connect is *)
(* at work, and after it has failed: connecting takes the time off without *)
(* a limit (glite_gss.c:64-74, 308-310), and its first token then fails    *)
(* with EINVAL.  On a connection that stands no select() does.             *)
(***************************************************************************)
TimeoutValid == \A e \in Ends :
  timeout[e] < 0 => e = "client" /\ flights[e] < Flights

(***************************************************************************)
(* Every call ends, whatever the other end does, when the caller gave a    *)
(* timeout, also when both ends write and neither reads; a blocking        *)
(* write() alone may outlast it (glite_gss.c:352-379, 412-446).            *)
(***************************************************************************)
CallsEnd == \A e \in Ends : Busy(e) ~> (~Busy(e) \/ call[e].stuck)

\* The stream of bytes this connection is.
Stream == INSTANCE ByteStream WITH
            sent <- [e \in Ends |-> [i \in 1..written[e] |-> i]],
            given <- got

(***************************************************************************)
(* Each step of the wrapper is one of an ordered stream of bytes, or none. *)
(***************************************************************************)
IsStream == Stream!Spec
=============================================================================
