---------------------------- MODULE GssStream_proofs ----------------------------
(* Theorems about GssStream: its types, the sign of its timeouts, the order   *)
(* of the bytes its callers are given, that it implements ByteStream, and     *)
(* that an end of file comes with all that was promised.                      *)
EXTENDS GssStream, TLAPS

LEMMA CutFacts ==
  ASSUME NEW S, NEW s \in Seq(S), NEW n \in 0..Len(s)
  PROVE  /\ First(s, n) \in Seq(S) /\ Len(First(s, n)) = n
         /\ \A i \in 1..n : First(s, n)[i] = s[i]
         /\ After(s, n) \in Seq(S) /\ Len(After(s, n)) = Len(s) - n
         /\ \A i \in 1..(Len(s) - n) : After(s, n)[i] = s[n + i]
  BY DEF First, After

LEMMA JoinFacts ==
  ASSUME NEW S
  PROVE  \A s, t \in Seq(S) :
           /\ s \o t \in Seq(S) /\ Len(s \o t) = Len(s) + Len(t)
           /\ \A i \in 1..Len(s) : (s \o t)[i] = s[i]
           /\ \A i \in 1..Len(t) : (s \o t)[Len(s) + i] = t[i]
  OBVIOUS

LEMMA SumFacts ==
  \A a, b, c, d \in Nat : a + b <= c /\ d >= c => a + b <= d
  OBVIOUS

LEMMA JoinBytes ==
  \A s, t \in Seq(Nat) : /\ s \o t \in Seq(Nat) /\ Len(s \o t) = Len(s) + Len(t)
                         /\ \A i \in 1..Len(s) : (s \o t)[i] = s[i]
                         /\ \A i \in 1..Len(t) : (s \o t)[Len(s) + i] = t[i]
  BY JoinFacts

LEMMA JoinUnits ==
  \A s, t \in Seq(Unit) : /\ s \o t \in Seq(Unit) /\ Len(s \o t) = Len(s) + Len(t)
                          /\ \A i \in 1..Len(s) : (s \o t)[i] = s[i]
                          /\ \A i \in 1..Len(t) : (s \o t)[Len(s) + i] = t[i]
  BY JoinFacts

LEMMA BytesFacts ==
  ASSUME NEW s \in Seq(Unit)
  PROVE  /\ Bytes(s) \in Seq(Nat) /\ Len(Bytes(s)) = Len(s)
         /\ \A i \in 1..Len(s) : Bytes(s)[i] = s[i].byte
<1>1. Len(s) \in Nat /\ \A i \in 1..Len(s) : s[i] \in Unit
  OBVIOUS
<1>2. \A i \in 1..Len(s) : s[i].byte \in Nat
  BY <1>1 DEF Unit
<1>3. Bytes(s) \in [1..Len(s) -> Nat]
  BY <1>2 DEF Bytes
<1>4. Bytes(s) \in Seq(Nat) /\ Len(Bytes(s)) = Len(s)
  BY <1>1, <1>3
<1> QED
  BY <1>4 DEF Bytes

LEMMA RecordFacts ==
  ASSUME NEW b \in Nat, NEW n \in Nat \ {0}
  PROVE  /\ Record(b, n) \in Seq(Unit) /\ Len(Record(b, n)) = n
         /\ \A i \in 1..n : Record(b, n)[i].byte = b + i
  BY DEF Record, Unit

LEMMA FlightFacts ==
  /\ Flight \in Seq(Unit) /\ Len(Flight) = 2 /\ Flight # <<>>
  /\ \A i \in 1..2 : Flight[i].byte = 0
  BY DEF Flight, Unit

LEMMA PeerFacts == \A e \in Ends : /\ Peer[e] \in Ends /\ Peer[e] # e
                                   /\ Peer[Peer[e]] = e
  BY DEF Ends, Peer

LEMMA EmptyFacts ==
  /\ <<>> \in Seq(Unit) /\ <<>> \in Seq(Nat) /\ Len(<<>>) = 0
  OBVIOUS

LEMMA CallFacts ==
  /\ NoCall \in Call /\ NoCall.op = "none" /\ NoCall.left = <<>>
  /\ \A op \in {"lookup", "dial", "shake", "write"}, t \in Seq(Unit) :
       /\ Sending(op, t) \in Call
       /\ Sending(op, t).op = op /\ Sending(op, t).left = t
       /\ ~Sending(op, t).stuck
  /\ \A op \in {"read", "full"}, n, k \in Nat :
       /\ Reading(op, n, k) \in Call
       /\ Reading(op, n, k).op = op /\ Reading(op, n, k).left = <<>>
       /\ Reading(op, n, k).size = n /\ Reading(op, n, k).total = k
  BY DEF NoCall, Sending, Reading, Call

--------------------------------------------------------------------------------
(* Typing. *)

\* TypeOK, but for the times.
Shape ==
  /\ sock \in [Ends -> {"none", "open", "closed", "reset"}]
  /\ wire \in [Ends -> Seq(Unit)]
  /\ flights \in [Ends -> 0..Flights]
  /\ held \in [Ends -> Seq(Unit)]
  /\ next \in [Ends -> Nat]
  /\ buffer \in [Ends -> Seq(Nat)]
  /\ call \in [Ends -> Call]
  /\ result \in [Ends -> {"ok", "timeout", "errno", "herrno", "gss", "eof"}]
  /\ written \in [Ends -> Nat]
  /\ promised \in [Ends -> Nat]
  /\ got \in [Ends -> Seq(Nat)]

LEMMA FlightType ==
  ASSUME Shape, NEW e \in Ends
  PROVE  /\ wire[e] \in Seq(Unit) /\ held[e] \in Seq(Unit)
         /\ buffer[e] \in Seq(Nat) /\ got[e] \in Seq(Nat)
         /\ call[e] \in Call /\ call[e].left \in Seq(Unit)
         /\ call[e].size \in Nat /\ call[e].total \in Nat
         /\ flights[e] \in 0..Flights /\ next[e] \in Nat
         /\ written[e] \in Nat /\ promised[e] \in Nat
<1>1. /\ wire[e] \in Seq(Unit) /\ held[e] \in Seq(Unit)
      /\ buffer[e] \in Seq(Nat) /\ got[e] \in Seq(Nat)
      /\ call[e] \in Call
  BY DEF Shape
<1>2. /\ flights[e] \in 0..Flights /\ next[e] \in Nat
      /\ written[e] \in Nat /\ promised[e] \in Nat
  BY DEF Shape
<1>3. call[e].left \in Seq(Unit) /\ call[e].size \in Nat /\ call[e].total \in Nat
  BY <1>1 DEF Call
<1> QED
  BY <1>1, <1>2, <1>3

LEMMA ClosedType ==
  ASSUME Shape, NEW e \in Ends, Closed(e)
  PROVE  /\ sock' \in [Ends -> {"none", "open", "closed", "reset"}]
         /\ wire' \in [Ends -> Seq(Unit)]
         /\ buffer' \in [Ends -> Seq(Nat)]
         /\ held' \in [Ends -> Seq(Unit)]
<1>1. sock' \in [Ends -> {"none", "open", "closed", "reset"}]
  BY DEF Shape, Closed
<1>2. wire' \in [Ends -> Seq(Unit)]
  BY PeerFacts, EmptyFacts DEF Shape, Closed
<1>3. buffer' \in [Ends -> Seq(Nat)] /\ held' \in [Ends -> Seq(Unit)]
  BY EmptyFacts DEF Shape, Closed
<1> QED
  BY <1>1, <1>2, <1>3

LEMMA ReturnType ==
  ASSUME Shape, NEW e \in Ends,
         NEW r \in {"ok", "timeout", "errno", "herrno", "gss", "eof"}, Return(e, r)
  PROVE  /\ call' \in [Ends -> Call]
         /\ result' \in [Ends -> {"ok", "timeout", "errno", "herrno", "gss", "eof"}]
  BY CallFacts DEF Shape, Return

LEMMA FailType ==
  ASSUME Shape, NEW e \in Ends,
         NEW r \in {"ok", "timeout", "errno", "herrno", "gss", "eof"}, Fail(e, r)
  PROVE  Shape'
<1>1. /\ call' \in [Ends -> Call]
      /\ result' \in [Ends -> {"ok", "timeout", "errno", "herrno", "gss", "eof"}]
  BY ReturnType DEF Fail
<1>2. /\ sock' \in [Ends -> {"none", "open", "closed", "reset"}]
      /\ wire' \in [Ends -> Seq(Unit)]
      /\ buffer' \in [Ends -> Seq(Nat)]
      /\ held' \in [Ends -> Seq(Unit)]
  BY ClosedType DEF Fail, Shape
<1> QED
  BY <1>1, <1>2 DEF Fail, Shape, history

LEMMA SmallerFacts ==
  \A m, n \in Nat : /\ Smaller(m, n) \in Nat
                    /\ Smaller(m, n) <= m /\ Smaller(m, n) <= n
                    /\ Smaller(m, n) \in {m, n}
  BY DEF Smaller

LEMMA ServeType ==
  ASSUME Shape, NEW e \in Ends, NEW n \in Nat, Serve(e, n)
  PROVE  got' \in [Ends -> Seq(Nat)] /\ buffer' \in [Ends -> Seq(Nat)]
<1> DEFINE k == Smaller(n, Len(buffer[e]))
<1>1. buffer[e] \in Seq(Nat) /\ got[e] \in Seq(Nat) /\ k \in 0..Len(buffer[e])
  BY SmallerFacts DEF Shape
<1>2. First(buffer[e], k) \in Seq(Nat) /\ After(buffer[e], k) \in Seq(Nat)
  BY <1>1, CutFacts
<1>3. got[e] \o First(buffer[e], k) \in Seq(Nat)
  BY <1>1, <1>2
<1> HIDE DEF k
<1> QED
  BY <1>2, <1>3 DEF Serve, Shape, k

LEMMA SentType ==
  ASSUME Shape, NEW e \in Ends, Sent(e), call[e].op # "write" => flights[e] < Flights
  PROVE  /\ call' \in [Ends -> Call]
         /\ result' \in [Ends -> {"ok", "timeout", "errno", "herrno", "gss", "eof"}]
         /\ flights' \in [Ends -> 0..Flights]
         /\ promised' \in [Ends -> Nat]
<1>1. CASE call[e].op = "write"
  <2>1. Return(e, "ok") /\ flights' = flights
        /\ promised' = [promised EXCEPT ![e] = written[e]]
    BY <1>1 DEF Sent
  <2> QED
    BY <2>1, ReturnType DEF Shape
<1>2. CASE call[e].op # "write"
  <2>1. flights' \in [Ends -> 0..Flights] /\ promised' = promised
    <3>1. /\ flights' = [flights EXCEPT ![e] = @ + 1]
          /\ promised' = promised
      BY <1>2 DEF Sent
    <3>2. flights[e] + 1 \in 0..Flights
      BY <1>2, StreamAssumption, FlightType
    <3> QED
      BY <3>1, <3>2 DEF Shape
  <2>2. /\ call' \in [Ends -> Call]
        /\ result' \in [Ends -> {"ok", "timeout", "errno", "herrno", "gss", "eof"}]
    <3>1. CASE flights[e] + 1 = Flights
      BY <1>2, <3>1, ReturnType DEF Sent
    <3>2. CASE flights[e] + 1 # Flights
      <4>1. Sending("shake", <<>>) \in Call
        BY CallFacts, EmptyFacts
      <4>2. /\ call' = [call EXCEPT ![e] = Sending("shake", <<>>)]
            /\ result' = result
        BY <1>2, <3>2 DEF Sent
      <4> QED
        BY <4>1, <4>2 DEF Shape
    <3> QED
      BY <3>1, <3>2
  <2> QED
    BY <2>1, <2>2 DEF Shape
<1> QED
  BY <1>1, <1>2

--------------------------------------------------------------------------------
(* The inductive invariant. *)

\* s holds the bytes that follow byte k.
Numbered(s, k) == \A i \in 1..Len(s) : s[i] = k + i

\* The units of the bytes that follow byte k.
Following(units, k) == \A i \in 1..Len(units) : units[i].byte = k + i

\* The SSL layer of e is where the caller's bytes end.
Sound(e) == /\ sock[e] = "open" /\ flights[e] = Flights
            /\ result[e] \in {"ok", "timeout"}

\* What e holds and what it keeps for its next reads.
Ordered(e) == /\ Numbered(got[e], 0) /\ Numbered(buffer[e], Len(got[e]))
              /\ Len(got[e]) + Len(buffer[e]) <= written[Peer[e]]

\* What the SSL layer holds comes next.
Chained(e) == Sound(e) =>
  /\ next[e] = Len(got[e]) + Len(buffer[e]) + Len(held[e]) + 1
  /\ Following(held[e], Len(got[e]) + Len(buffer[e]))
  /\ next[e] <= written[Peer[e]] + 1

\* Nothing is given out before the context is there, and none of a token is
\* held while the end sends.
Shaking(e) == flights[e] < Flights =>
  /\ next[e] = 1 /\ got[e] = <<>> /\ buffer[e] = <<>>
  /\ call[e].op \in {"none", "lookup", "dial", "shake"}
  /\ call[e].op # "shake" \/ call[e].left # <<>> => held[e] = <<>>

Calling(e) ==
  /\ sock[e] = "none" => flights[e] < Flights /\ call[e].op \in {"none", "lookup", "dial"}
  /\ call[e].op \in {"write", "read", "full"} => Sound(e)
  /\ call[e].op \in {"read", "full"} =>
       /\ buffer[e] = <<>> /\ call[e].left = <<>>
       /\ call[e].total < call[e].size
  /\ call[e].op \in {"lookup", "dial", "shake"} => flights[e] < Flights
  /\ call[e].left # <<>> => call[e].op \in {"shake", "write"}

Link(e) == Ordered(e) /\ Chained(e) /\ Shaking(e) /\ Calling(e)

\* No end sends what it has not written.
Sendable(units, n) == \A i \in 1..Len(units) : units[i].byte <= n
OnWire(e) == Sendable(wire[e], written[e]) /\ Sendable(call[e].left, written[e])

IInv == Shape /\ \A e \in Ends : Link(e) /\ OnWire(e)

\* The bytes an end is given out of units in order.
LEMMA SplitOrder ==
  ASSUME NEW g \in Seq(Nat), NEW a \in Seq(Unit), NEW c \in 0..Len(a), NEW n \in 0..c,
         Numbered(g, 0), Following(a, Len(g))
  PROVE  /\ g \o Bytes(First(a, n)) \in Seq(Nat)
         /\ Bytes(After(First(a, c), n)) \in Seq(Nat) /\ After(a, c) \in Seq(Unit)
         /\ Len(g \o Bytes(First(a, n))) = Len(g) + n
         /\ Len(Bytes(After(First(a, c), n))) = c - n
         /\ Len(After(a, c)) = Len(a) - c
         /\ Numbered(g \o Bytes(First(a, n)), 0)
         /\ Numbered(Bytes(After(First(a, c), n)), Len(g) + n)
         /\ Following(After(a, c), Len(g) + c)
<1> DEFINE p == First(a, n)
           q == First(a, c)
           r == After(q, n)
           g2 == g \o Bytes(p)
           b2 == Bytes(r)
           h2 == After(a, c)
<1>0. /\ \A i \in 1..Len(g) : g[i] = i
      /\ \A i \in 1..Len(a) : a[i].byte = Len(g) + i
  BY DEF Numbered, Following
<1>1. n \in 0..Len(a) /\ Len(a) \in Nat /\ Len(g) \in Nat /\ n \in Nat /\ c \in Nat
  OBVIOUS
<1>2. p \in Seq(Unit) /\ Len(p) = n /\ \A i \in 1..n : p[i] = a[i]
  BY <1>1, CutFacts
<1>3. q \in Seq(Unit) /\ Len(q) = c /\ \A i \in 1..c : q[i] = a[i]
  BY CutFacts
<1>4. h2 \in Seq(Unit) /\ Len(h2) = Len(a) - c /\ \A i \in 1..(Len(a) - c) : h2[i] = a[c + i]
  BY CutFacts
<1> HIDE DEF p, q, g2, b2, h2
<1>5. n \in 0..Len(q)
  BY <1>3
<1>6. r \in Seq(Unit) /\ Len(r) = c - n /\ \A i \in 1..(c - n) : r[i] = q[n + i]
  BY <1>3, <1>5, CutFacts
<1> HIDE DEF r
<1>7. Bytes(p) \in Seq(Nat) /\ Len(Bytes(p)) = n /\ \A i \in 1..n : Bytes(p)[i] = Len(g) + i
  <2>1. /\ Bytes(p) \in Seq(Nat) /\ Len(Bytes(p)) = n
        /\ \A i \in 1..n : Bytes(p)[i] = p[i].byte
    BY <1>2, BytesFacts
  <2>2. ASSUME NEW i \in 1..n PROVE p[i].byte = Len(g) + i
    <3>1. i \in 1..Len(a)
      BY <1>1
    <3>2. p[i] = a[i]
      BY <1>2
    <3> QED
      BY <1>0, <3>1, <3>2
  <2> QED
    BY <2>1, <2>2
<1>8. b2 \in Seq(Nat) /\ Len(b2) = c - n /\ \A i \in 1..(c - n) : b2[i] = Len(g) + n + i
  <2>1. \A i \in 1..(c - n) : n + i \in 1..c /\ n + i \in 1..Len(a)
    BY <1>1
  <2>2. ASSUME NEW i \in 1..(c - n) PROVE r[i].byte = Len(g) + n + i
    <3>1. r[i] = a[n + i]
      BY <1>3, <1>6, <2>1
    <3> QED
      BY <1>0, <1>1, <2>1, <3>1
  <2>3. b2 = Bytes(r)
    BY DEF b2
  <2>4. /\ Bytes(r) \in Seq(Nat) /\ Len(Bytes(r)) = Len(r)
        /\ \A i \in 1..Len(r) : Bytes(r)[i] = r[i].byte
    BY <1>6, BytesFacts
  <2> QED
    BY <1>6, <2>2, <2>3, <2>4
<1>9. g2 = g \o Bytes(p)
  BY DEF g2
<1>10. /\ g2 \in Seq(Nat) /\ Len(g2) = Len(g) + n
       /\ \A i \in 1..Len(g) : g2[i] = g[i]
       /\ \A i \in 1..n : g2[Len(g) + i] = Bytes(p)[i]
  <2> DEFINE t == Bytes(p)
  <2>1. t \in Seq(Nat) /\ Len(t) = n /\ g2 = g \o t
    BY <1>7, <1>9
  <2> HIDE DEF t
  <2>2. /\ g \o t \in Seq(Nat) /\ Len(g \o t) = Len(g) + Len(t)
        /\ \A i \in 1..Len(g) : (g \o t)[i] = g[i]
        /\ \A i \in 1..Len(t) : (g \o t)[Len(g) + i] = t[i]
    BY <2>1, JoinBytes
  <2>3. \A i \in 1..n : g2[Len(g) + i] = t[i]
    BY <2>1, <2>2
  <2> QED
    BY <2>1, <2>2, <2>3 DEF t
<1>11. \A i \in 1..Len(g2) : g2[i] = i
  <2> TAKE i \in 1..Len(g2)
  <2>1. CASE i <= Len(g)
    BY <1>0, <1>1, <1>10, <2>1, SMTT(30)
  <2>2. CASE i > Len(g)
    <3>1. i - Len(g) \in 1..n /\ i = Len(g) + (i - Len(g))
      BY <1>1, <1>10, <2>2
    <3> QED
      BY <1>7, <1>10, <3>1
  <2> QED
    BY <1>1, <2>1, <2>2
<1>12. \A i \in 1..Len(h2) : h2[i].byte = Len(g) + c + i
  <2> SUFFICES ASSUME NEW i \in 1..Len(h2) PROVE h2[i].byte = Len(g) + c + i
    OBVIOUS
  <2>1. c + i \in 1..Len(a) /\ i \in 1..(Len(a) - c)
    BY <1>1, <1>4
  <2>2. h2[i] = a[c + i]
    BY <1>4, <2>1
  <2> QED
    BY <1>0, <1>1, <2>1, <2>2
<1>13. Numbered(g2, 0) /\ Numbered(b2, Len(g) + n) /\ Following(h2, Len(g) + c)
  BY <1>8, <1>11, <1>12 DEF Numbered, Following
<1> QED
  BY <1>4, <1>8, <1>10, <1>13 DEF g2, b2, h2, r, q, p

\* The bytes an end is given out of its buffer.
LEMMA ServeOrder ==
  ASSUME NEW g \in Seq(Nat), NEW b \in Seq(Nat), NEW n \in 0..Len(b),
         Numbered(g, 0), Numbered(b, Len(g))
  PROVE  /\ g \o First(b, n) \in Seq(Nat) /\ After(b, n) \in Seq(Nat)
         /\ Len(g \o First(b, n)) = Len(g) + n /\ Len(After(b, n)) = Len(b) - n
         /\ Numbered(g \o First(b, n), 0)
         /\ Numbered(After(b, n), Len(g) + n)
<1> DEFINE p == First(b, n)
           g2 == g \o p
           b2 == After(b, n)
<1>0. /\ \A i \in 1..Len(g) : g[i] = i
      /\ \A i \in 1..Len(b) : b[i] = Len(g) + i
  BY DEF Numbered
<1>1. n \in Nat /\ Len(b) \in Nat /\ Len(g) \in Nat
  OBVIOUS
<1>2. p \in Seq(Nat) /\ Len(p) = n /\ \A i \in 1..n : p[i] = b[i]
  BY CutFacts
<1>3. b2 \in Seq(Nat) /\ Len(b2) = Len(b) - n /\ \A i \in 1..(Len(b) - n) : b2[i] = b[n + i]
  BY CutFacts
<1>4. g2 = g \o p
  OBVIOUS
<1> HIDE DEF p, g2, b2
<1>5. /\ g2 \in Seq(Nat) /\ Len(g2) = Len(g) + n
      /\ \A i \in 1..Len(g) : g2[i] = g[i]
      /\ \A i \in 1..n : g2[Len(g) + i] = p[i]
  <2>1. /\ g \o p \in Seq(Nat) /\ Len(g \o p) = Len(g) + Len(p)
        /\ \A i \in 1..Len(g) : (g \o p)[i] = g[i]
        /\ \A i \in 1..Len(p) : (g \o p)[Len(g) + i] = p[i]
    BY <1>2, JoinBytes
  <2> QED
    BY <1>2, <1>4, <2>1
<1>6. \A i \in 1..Len(g2) : g2[i] = i
  <2> TAKE i \in 1..Len(g2)
  <2>1. CASE i <= Len(g)
    <3>1. i \in 1..Len(g)
      BY <1>1, <1>5, <2>1
    <3>2. g2[i] = g[i]
      BY <1>5, <3>1
    <3>3. g[i] = i
      BY <1>0, <3>1
    <3> QED
      BY <3>2, <3>3
  <2>2. CASE i > Len(g)
    <3>1. i - Len(g) \in 1..n /\ i - Len(g) \in 1..Len(b) /\ i = Len(g) + (i - Len(g))
      BY <1>1, <1>5, <2>2
    <3>2. p[i - Len(g)] = b[i - Len(g)]
      BY <1>2, <3>1
    <3>3. b[i - Len(g)] = Len(g) + (i - Len(g))
      BY <1>0, <3>1
    <3> QED
      BY <1>5, <3>1, <3>2, <3>3
  <2> QED
    BY <1>1, <1>5, <2>1, <2>2
<1>7. \A i \in 1..Len(b2) : b2[i] = Len(g2) + i
  <2> SUFFICES ASSUME NEW i \in 1..Len(b2) PROVE b2[i] = Len(g2) + i
    OBVIOUS
  <2>1. n + i \in 1..Len(b) /\ i \in 1..(Len(b) - n)
    BY <1>1, <1>3
  <2>2. b2[i] = b[n + i]
    BY <1>3, <2>1
  <2> QED
    BY <1>0, <1>1, <1>5, <2>1, <2>2
<1>8. Numbered(g2, 0) /\ Numbered(b2, Len(g) + n)
  BY <1>5, <1>6, <1>7 DEF Numbered
<1> QED
  BY <1>3, <1>5, <1>8 DEF p, g2, b2

\* The bytes a caller puts back.
LEMMA UnreadOrder ==
  ASSUME NEW g \in Seq(Nat), NEW b \in Seq(Nat), NEW n \in Nat, NEW m \in Nat,
         m + n = Len(g), Numbered(g, 0), Numbered(b, Len(g))
  PROVE  /\ First(g, m) \in Seq(Nat) /\ After(g, m) \o b \in Seq(Nat)
         /\ Len(First(g, m)) = m /\ Len(After(g, m) \o b) = n + Len(b)
         /\ Numbered(First(g, m), 0) /\ Numbered(After(g, m) \o b, m)
<1>0. \A j \in Nat : Len(g) + j = m + (n + j)
  <2>1. \A l \in Nat : m + n = l => \A j \in Nat : l + j = m + (n + j)
    OBVIOUS
  <2>2. m + n = Len(g) /\ Len(g) \in Nat
    OBVIOUS
  <2> QED
    BY <2>1, <2>2
<1> DEFINE p == After(g, m)
           g2 == First(g, m)
           b2 == p \o b
<1>1. Len(b) \in Nat /\ Len(g) \in Nat /\ m \in 0..Len(g) /\ Len(g) - m = n
  OBVIOUS
<1>2. g2 \in Seq(Nat) /\ Len(g2) = m /\ \A i \in 1..m : g2[i] = g[i]
  BY <1>1, CutFacts
<1>3. p \in Seq(Nat) /\ Len(p) = n /\ \A i \in 1..n : p[i] = g[m + i]
  BY <1>1, CutFacts
<1> HIDE DEF p, g2
<1>4. /\ b2 \in Seq(Nat) /\ Len(b2) = n + Len(b)
      /\ \A i \in 1..n : b2[i] = p[i]
      /\ \A i \in 1..Len(b) : b2[n + i] = b[i]
  BY <1>3, JoinBytes
<1> HIDE DEF b2
<1>5. Numbered(g2, 0)
  <2>1. \A i \in 1..m : g[i] = 0 + i
    BY <1>1 DEF Numbered
  <2> QED
    BY <1>2, <2>1 DEF Numbered
<1>6. \A i \in 1..Len(b2) : b2[i] = m + i
  <2> TAKE i \in 1..Len(b2)
  <2>1. CASE i <= n
    <3>1. i \in 1..n /\ m + i \in 1..Len(g)
      BY <1>1, <1>4, <2>1
    <3>2. b2[i] = g[m + i]
      BY <1>3, <1>4, <3>1
    <3>3. g[m + i] = 0 + (m + i)
      BY <3>1 DEF Numbered
    <3> QED
      BY <3>1, <3>2, <3>3
  <2>2. CASE i > n
    <3>1. PICK j \in Nat : j \in 1..Len(b) /\ i = n + j
      <4>1. i - n \in Nat /\ i - n \in 1..Len(b) /\ i = n + (i - n)
        BY <1>1, <1>4, <2>2
      <4> QED
        BY <4>1
    <3>2. b2[i] = b[j]
      BY <1>4, <3>1
    <3>3. b[j] = Len(g) + j
      BY <3>1 DEF Numbered
    <3>4. Len(g) + j = m + (n + j)
      BY <1>0
    <3> QED
      BY <3>1, <3>2, <3>3, <3>4
  <2> QED
    BY <1>1, <1>4, <2>1, <2>2
<1> QED
  BY <1>2, <1>4, <1>5, <1>6 DEF Numbered, g2, b2, p

--------------------------------------------------------------------------------
(* Steps. *)

\* What an end does not touch stays true for it, as more is written.
LEMMA LinkKept ==
  ASSUME Shape, Shape', NEW e \in Ends, Link(e),
         sock'[e] = sock[e], flights'[e] = flights[e], held'[e] = held[e],
         next'[e] = next[e], buffer'[e] = buffer[e], call'[e] = call[e],
         result'[e] = result[e], got'[e] = got[e],
         written'[Peer[e]] >= written[Peer[e]]
  PROVE  Link(e)'
<1>1. Peer[e] \in Ends /\ Peer' = Peer
  BY PeerFacts DEF Peer, Ends
<1>2. /\ written[Peer[e]] \in Nat /\ written'[Peer[e]] \in Nat
      /\ Len(got[e]) \in Nat /\ Len(buffer[e]) \in Nat /\ next[e] \in Nat
  <2>1. got[e] \in Seq(Nat) /\ buffer[e] \in Seq(Nat) /\ next[e] \in Nat
    BY FlightType
  <2>2. written[Peer[e]] \in Nat
    BY <1>1, FlightType
  <2>3. written' \in [Ends -> Nat]
    BY DEF Shape
  <2> QED
    BY <1>1, <2>1, <2>2, <2>3
<1>3. Ordered(e)'
  <2>1. Numbered(got'[e], 0) /\ Numbered(buffer'[e], Len(got'[e]))
    BY DEF Link, Ordered
  <2>2. Len(got'[e]) + Len(buffer'[e]) <= written'[Peer[e]]
    <3>1. Len(got[e]) + Len(buffer[e]) <= written[Peer[e]]
      BY DEF Link, Ordered
    <3>2. Len(got[e]) + Len(buffer[e]) <= written'[Peer[e]]
      BY <1>2, <3>1, SumFacts
    <3> QED
      BY <3>2
  <2> QED
    BY <1>1, <2>1, <2>2 DEF Ordered
<1>4. Chained(e)'
  <2> SUFFICES ASSUME Sound(e)' PROVE Chained(e)'
    BY DEF Chained
  <2>1. Sound(e)
    BY DEF Sound
  <2>2. next'[e] = Len(got'[e]) + Len(buffer'[e]) + Len(held'[e]) + 1
    BY <2>1 DEF Link, Chained
  <2>3. Following(held'[e], Len(got'[e]) + Len(buffer'[e]))
    BY <2>1 DEF Link, Chained
  <2>4. next'[e] <= written'[Peer[e]] + 1
    BY <1>2, <2>1 DEF Link, Chained
  <2> QED
    BY <1>1, <2>2, <2>3, <2>4 DEF Chained
<1>5. Shaking(e)' /\ Calling(e)'
  BY DEF Link, Shaking, Calling, Sound
<1> QED
  BY <1>3, <1>4, <1>5 DEF Link

\* Cut or joined, units stay what an end has written.
LEMMA SendableFacts ==
  /\ \A n \in Nat : Sendable(<<>>, n) /\ Sendable(Flight, n)
  /\ \A s \in Seq(Unit), n \in Nat, k \in Nat :
       Sendable(s, n) /\ k <= Len(s) => Sendable(First(s, k), n) /\ Sendable(After(s, k), n)
  /\ \A s, t \in Seq(Unit), n \in Nat :
       Sendable(s, n) /\ Sendable(t, n) => Sendable(s \o t, n)
  /\ \A s \in Seq(Unit), m, n \in Nat : Sendable(s, n) /\ m >= n => Sendable(s, m)
<1>1. \A n \in Nat : Sendable(<<>>, n) /\ Sendable(Flight, n)
  BY FlightFacts, EmptyFacts DEF Sendable
<1>2. ASSUME NEW s \in Seq(Unit), NEW n \in Nat, NEW k \in Nat, Sendable(s, n), k <= Len(s)
      PROVE  Sendable(First(s, k), n) /\ Sendable(After(s, k), n)
  <2>1. k \in 0..Len(s) /\ Len(s) \in Nat
    BY <1>2
  <2>2. /\ Len(First(s, k)) = k
        /\ \A i \in 1..k : First(s, k)[i] = s[i]
        /\ Len(After(s, k)) = Len(s) - k
        /\ \A i \in 1..(Len(s) - k) : After(s, k)[i] = s[k + i]
    BY <2>1, CutFacts
  <2>3. \A i \in 1..k : First(s, k)[i].byte <= n
    BY <1>2, <2>1, <2>2 DEF Sendable
  <2>4. \A i \in 1..(Len(s) - k) : After(s, k)[i].byte <= n
    <3> TAKE i \in 1..(Len(s) - k)
    <3>1. k + i \in 1..Len(s) /\ After(s, k)[i] = s[k + i]
      BY <2>1, <2>2
    <3> QED
      BY <1>2, <3>1 DEF Sendable
  <2> QED
    BY <2>2, <2>3, <2>4 DEF Sendable
<1>3. ASSUME NEW s \in Seq(Unit), NEW t \in Seq(Unit), NEW n \in Nat,
             Sendable(s, n), Sendable(t, n)
      PROVE  Sendable(s \o t, n)
  <2>1. /\ Len(s \o t) = Len(s) + Len(t)
        /\ \A i \in 1..Len(s) : (s \o t)[i] = s[i]
        /\ \A i \in 1..Len(t) : (s \o t)[Len(s) + i] = t[i]
    BY JoinUnits
  <2>2. Len(s) \in Nat /\ Len(t) \in Nat
    OBVIOUS
  <2>3. ASSUME NEW i \in 1..Len(s \o t) PROVE (s \o t)[i].byte <= n
    <3>1. CASE i <= Len(s)
      <4>1. i \in 1..Len(s)
        BY <2>1, <2>2, <3>1
      <4> QED
        BY <1>3, <2>1, <4>1 DEF Sendable
    <3>2. CASE i > Len(s)
      <4>1. i - Len(s) \in 1..Len(t) /\ i = Len(s) + (i - Len(s))
        BY <2>1, <2>2, <3>2
      <4>2. (s \o t)[i] = t[i - Len(s)]
        BY <2>1, <4>1
      <4> QED
        BY <1>3, <4>1, <4>2 DEF Sendable
    <3> QED
      BY <2>1, <2>2, <3>1, <3>2
  <2> QED
    BY <2>3 DEF Sendable
<1>4. ASSUME NEW s \in Seq(Unit), NEW m \in Nat, NEW n \in Nat, Sendable(s, n), m >= n
      PROVE  Sendable(s, m)
  <2>1. \A i \in 1..Len(s) : s[i].byte \in Nat
    <3>1. \A i \in 1..Len(s) : s[i] \in Unit
      OBVIOUS
    <3> QED
      BY <3>1 DEF Unit
  <2> QED
    BY <1>4, <2>1 DEF Sendable
<1> QED
  BY <1>1, <1>2, <1>3, <1>4

\* What an end sees of itself.
Untouched(e) ==
  /\ sock'[e] = sock[e] /\ flights'[e] = flights[e] /\ held'[e] = held[e]
  /\ next'[e] = next[e] /\ buffer'[e] = buffer[e] /\ call'[e] = call[e]
  /\ result'[e] = result[e] /\ got'[e] = got[e]

LEMMA WireKept ==
  ASSUME IInv, Shape', NEW e \in Ends,
         wire'[e] \in {wire[e], <<>>}, call'[e].left \in {call[e].left, <<>>},
         written'[e] >= written[e]
  PROVE  OnWire(e)'
<1>1. /\ written[e] \in Nat /\ wire[e] \in Seq(Unit) /\ call[e].left \in Seq(Unit)
      /\ Sendable(wire[e], written[e]) /\ Sendable(call[e].left, written[e])
  BY FlightType DEF IInv, OnWire
<1>2. written'[e] \in Nat
  BY DEF Shape
<1>3. /\ Sendable(wire[e], written'[e]) /\ Sendable(call[e].left, written'[e])
      /\ Sendable(<<>>, written'[e])
  BY <1>1, <1>2, SendableFacts
<1> QED
  BY <1>3 DEF OnWire

\* A step concerns one end; the other one sees what is on the wire.
LEMMA Combine ==
  ASSUME IInv, Shape', NEW e \in Ends, Link(e)',
         \A f \in Ends \ {e} : Untouched(f),
         \A f \in Ends : written'[f] >= written[f],
         \A f \in Ends : OnWire(f)'
  PROVE  IInv'
<1> SUFFICES ASSUME NEW f \in Ends PROVE Link(f)'
  BY DEF IInv, Ends
<1>1. CASE f = e
  BY <1>1
<1>2. CASE f # e
  <2>1. Untouched(f) /\ written'[Peer[f]] >= written[Peer[f]]
    BY <1>2, PeerFacts
  <2>2. Shape /\ Link(f)
    BY DEF IInv
  <2> QED
    BY <2>1, <2>2, LinkKept DEF Untouched
<1> QED
  BY <1>1, <1>2

\* A step that changes neither end.
LEMMA SameInv ==
  ASSUME IInv, Shape', \A f \in Ends : Untouched(f),
         UNCHANGED <<wire, written>>
  PROVE  IInv'
<1>1. Shape /\ \A f \in Ends : Link(f)
  BY DEF IInv
<1>2. ASSUME NEW f \in Ends PROVE Link(f)' /\ OnWire(f)'
  <2>1. written[f] \in Nat /\ written[Peer[f]] \in Nat
    BY <1>1, FlightType, PeerFacts
  <2>2. written'[f] >= written[f] /\ written'[Peer[f]] >= written[Peer[f]]
    BY <2>1
  <2>3. Link(f)'
    BY <1>1, <2>2, LinkKept DEF Untouched
  <2>4. wire'[f] \in {wire[f], <<>>} /\ call'[f].left \in {call[f].left, <<>>}
    BY DEF Untouched
  <2> QED
    BY <2>2, <2>3, <2>4, WireKept
<1> QED
  BY <1>2 DEF IInv, Ends

LEMMA InitInv == Init => IInv
<1> SUFFICES ASSUME Init PROVE IInv
  OBVIOUS
<1>1. 0 \in 0..Flights /\ 0 # Flights /\ Flights \in Nat
  BY StreamAssumption
<1>2. Shape
  BY <1>1, CallFacts, EmptyFacts DEF Init, Shape
<1>3. ASSUME NEW e \in Ends PROVE Link(e) /\ OnWire(e)
  <2>1. /\ sock[e] = "none" /\ wire[e] = <<>> /\ flights[e] = 0 /\ held[e] = <<>>
        /\ next[e] = 1 /\ buffer[e] = <<>> /\ call[e] = NoCall /\ got[e] = <<>>
        /\ written[e] = 0 /\ written[Peer[e]] = 0
    BY PeerFacts DEF Init
  <2>2. Ordered(e)
    BY <2>1, EmptyFacts DEF Ordered, Numbered
  <2>3. Chained(e) /\ Shaking(e) /\ Calling(e)
    BY <1>1, <2>1, CallFacts DEF Chained, Sound, Shaking, Calling
  <2>4. OnWire(e)
    BY <2>1, CallFacts, SendableFacts DEF OnWire
  <2> QED
    BY <2>2, <2>3, <2>4 DEF Link
<1> QED
  BY <1>2, <1>3 DEF IInv

\* One end's call, or its result, is replaced.
LEMMA CallSet ==
  ASSUME Shape, NEW e \in Ends, NEW c, call' = [call EXCEPT ![e] = c]
  PROVE  call'[e] = c /\ \A f \in Ends \ {e} : call'[f] = call[f]
  BY DEF Shape

LEMMA ResultSet ==
  ASSUME Shape, NEW e \in Ends, NEW r, result' = [result EXCEPT ![e] = r]
  PROVE  result'[e] = r /\ \A f \in Ends \ {e} : result'[f] = result[f]
  BY DEF Shape

LEMMA SetTimeoutInv ==
  ASSUME IInv, NEW e \in Ends, NEW t \in Timeouts, SetTimeout(e, t)
  PROVE  IInv'
<1>1. Shape'
  BY DEF IInv, Shape, SetTimeout, history
<1> QED
  BY <1>1, SameInv DEF SetTimeout, Untouched, history

LEMMA TickInv ==
  ASSUME IInv, Tick
  PROVE  IInv'
<1>1. Shape'
  BY DEF IInv, Shape, Tick, history
<1> QED
  BY <1>1, SameInv DEF Tick, Untouched, history

\* What edg_wll_gss_connect does before its socket is connected.
Dials == \/ Connect \/ LookUp \/ Resolved \/ LookUpFails \/ Refused
         \/ \E r \in {"timeout", "errno"} : HangUp(r)

LEMMA DialFacts ==
  ASSUME IInv, Dials
  PROVE  /\ flights["client"] < Flights
         /\ call["client"].op \in {"lookup", "dial"} \/ sock["client"] = "none"
         /\ \/ sock' = sock
            \/ /\ sock' = [sock EXCEPT !["client"] = "closed"]
               /\ call["client"].op = "dial" /\ call' = [call EXCEPT !["client"] = NoCall]
         /\ \/ call' = call
            \/ \E c \in {NoCall, Sending("lookup", <<>>), Sending("dial", <<>>)} :
                 call' = [call EXCEPT !["client"] = c]
         /\ \/ result' = result
            \/ \E r \in {"timeout", "errno", "herrno"} :
                 result' = [result EXCEPT !["client"] = r]
         /\ UNCHANGED <<wire, flights, held, next, buffer, written, promised, got>>
<1>1. Shape /\ Link("client") /\ "client" \in Ends
  BY DEF IInv, Ends
<1>2. CASE Connect
  BY <1>1, <1>2 DEF Connect, Link, Calling, history
<1>3. CASE LookUp \/ Resolved
  BY <1>1, <1>3 DEF LookUp, Resolved, Return, Link, Calling, history
<1>4. CASE LookUpFails \/ Refused
  BY <1>1, <1>4 DEF LookUpFails, Refused, Return, Link, Calling, history
<1>5. CASE \E r \in {"timeout", "errno"} : HangUp(r)
  BY <1>1, <1>5 DEF HangUp, Return, Link, Calling, history
<1> QED
  BY <1>2, <1>3, <1>4, <1>5 DEF Dials

\* The calls of the client before its socket is connected.
LEMMA DialCalls ==
  \A c \in {NoCall, Sending("lookup", <<>>), Sending("dial", <<>>)} :
    c \in Call /\ c.op \in {"none", "lookup", "dial"} /\ c.left = <<>>
<1>1. NoCall \in Call /\ NoCall.op = "none" /\ NoCall.left = <<>>
  BY CallFacts
<1>2. LET c == Sending("lookup", <<>>) IN c \in Call /\ c.op = "lookup" /\ c.left = <<>>
  BY CallFacts, EmptyFacts, ZenonT(30)
<1>3. LET c == Sending("dial", <<>>) IN c \in Call /\ c.op = "dial" /\ c.left = <<>>
  BY CallFacts, EmptyFacts, ZenonT(30)
<1> QED
  BY <1>1, <1>2, <1>3

\* What they leave of a call.
LEMMA DialsCall ==
  ASSUME IInv, Dials
  PROVE  /\ call' \in [Ends -> Call]
         /\ \A f \in Ends \ {"client"} : call'[f] = call[f]
         /\ \/ call'["client"] = call["client"]
            \/ call'["client"].op \in {"none", "lookup", "dial"} /\ call'["client"].left = <<>>
<1>1. Shape /\ "client" \in Ends
  BY DEF IInv, Ends
<1>2. CASE call' = call
  BY <1>1, <1>2 DEF Shape
<1>3. ASSUME NEW c \in {NoCall, Sending("lookup", <<>>), Sending("dial", <<>>)},
             call' = [call EXCEPT !["client"] = c]
      PROVE  /\ call' \in [Ends -> Call]
             /\ \A f \in Ends \ {"client"} : call'[f] = call[f]
             /\ call'["client"].op \in {"none", "lookup", "dial"} /\ call'["client"].left = <<>>
  <2>1. c \in Call /\ c.op \in {"none", "lookup", "dial"} /\ c.left = <<>>
    BY DialCalls
  <2>2. call'["client"] = c /\ \A f \in Ends \ {"client"} : call'[f] = call[f]
    BY <1>1, <1>3, CallSet
  <2>3. call' \in [Ends -> Call]
    BY <1>1, <1>3, <2>1 DEF Shape
  <2> QED
    BY <2>1, <2>2, <2>3
<1> QED
  BY <1>2, <1>3, DialFacts

LEMMA DialsInv ==
  ASSUME IInv, Dials
  PROVE  IInv'
<1> DEFINE e == "client"
<1>1. e \in Ends /\ Shape /\ Link(e)
  BY DEF IInv, Ends
<1>2. /\ flights[e] < Flights
      /\ call[e].op \in {"lookup", "dial"} \/ sock[e] = "none"
      /\ UNCHANGED <<wire, flights, held, next, buffer, written, promised, got>>
  BY DialFacts
<1>3. /\ sock' \in [Ends -> {"none", "open", "closed", "reset"}]
      /\ sock'[e] \in {sock[e], "closed"}
      /\ result' \in [Ends -> {"ok", "timeout", "errno", "herrno", "gss", "eof"}]
      /\ \A f \in Ends \ {e} : sock'[f] = sock[f] /\ result'[f] = result[f]
  <2>1. /\ sock' \in [Ends -> {"none", "open", "closed", "reset"}]
        /\ sock'[e] \in {sock[e], "closed"}
        /\ \A f \in Ends \ {e} : sock'[f] = sock[f]
    <3>1. sock \in [Ends -> {"none", "open", "closed", "reset"}]
      BY <1>1 DEF Shape
    <3>2. sock' = sock \/ sock' = [sock EXCEPT !["client"] = "closed"]
      BY DialFacts
    <3> QED
      BY <1>1, <3>1, <3>2
  <2>2. /\ result' \in [Ends -> {"ok", "timeout", "errno", "herrno", "gss", "eof"}]
        /\ \A f \in Ends \ {e} : result'[f] = result[f]
    <3>1. result \in [Ends -> {"ok", "timeout", "errno", "herrno", "gss", "eof"}]
      BY <1>1 DEF Shape
    <3>2. \/ result' = result
          \/ \E r \in {"timeout", "errno", "herrno"} :
               result' = [result EXCEPT !["client"] = r]
      BY DialFacts
    <3> QED
      BY <1>1, <3>1, <3>2
  <2> QED
    BY <2>1, <2>2
<1>4. /\ call' \in [Ends -> Call]
      /\ \A f \in Ends \ {e} : call'[f] = call[f]
      /\ \/ call'[e] = call[e]
         \/ call'[e].op \in {"none", "lookup", "dial"} /\ call'[e].left = <<>>
  BY DialsCall
<1> HIDE DEF e
<1>5. Shape'
  BY <1>1, <1>2, <1>3, <1>4 DEF Shape
<1>6. /\ call[e].op \in {"none", "lookup", "dial"} /\ call[e].left = <<>>
      /\ call'[e].op \in {"none", "lookup", "dial"} /\ call'[e].left = <<>>
  BY <1>1, <1>2, <1>4 DEF Link, Calling
<1>7. Link(e)'
  <2>1. flights[e] # Flights
    BY <1>1, <1>2, FlightType, StreamAssumption
  <2>2. Ordered(e)' /\ Chained(e)'
    BY <1>1, <1>2, <2>1 DEF Link, Ordered, Chained, Sound
  <2>3. Shaking(e)' /\ Calling(e)'
    BY <1>1, <1>2, <1>6 DEF Link, Shaking, Calling
  <2> QED
    BY <2>2, <2>3 DEF Link
<1>8. \A f \in Ends \ {e} : Untouched(f)
  BY <1>2, <1>3, <1>4 DEF Untouched
<1>9. ASSUME NEW f \in Ends PROVE written'[f] >= written[f] /\ OnWire(f)'
  <2>1. written'[f] >= written[f]
    BY <1>1, <1>2, FlightType
  <2>2. wire'[f] \in {wire[f], <<>>} /\ call'[f].left \in {call[f].left, <<>>}
    BY <1>2, <1>6, <1>8 DEF Untouched
  <2> QED
    BY <1>5, <2>1, <2>2, WireKept
<1> QED
  BY <1>1, <1>5, <1>7, <1>8, <1>9, Combine

LEMMA DialledInv ==
  ASSUME IInv, Dialled
  PROVE  IInv'
<1> DEFINE e == "client"
<1>1. e \in Ends /\ Shape /\ Link(e)
  BY DEF IInv, Ends
<1> HIDE DEF e
<1>2. /\ call[e].op = "dial" /\ call' = [call EXCEPT ![e] = Sending("shake", Flight)]
      /\ sock' = [sock EXCEPT ![e] = "open"]
      /\ UNCHANGED <<wire, flights, held, next, buffer, result,
                     written, promised, got>>
  BY DEF Dialled, history, e
<1>3. /\ Sending("shake", Flight) \in Call /\ Sending("shake", Flight).op = "shake"
      /\ Sending("shake", Flight).left = Flight
  BY CallFacts, FlightFacts
<1>4. Shape'
  BY <1>1, <1>2, <1>3 DEF Shape
<1>5. call'[e].op = "shake" /\ call'[e].left = Flight
  BY <1>1, <1>2, <1>3 DEF Shape
<1>6. flights[e] < Flights
  BY <1>1, <1>2 DEF Link, Calling
<1>7. Link(e)'
  <2>1. got'[e] = got[e] /\ buffer'[e] = buffer[e] /\ held'[e] = held[e]
        /\ written'[Peer[e]] = written[Peer[e]] /\ next'[e] = next[e]
        /\ flights'[e] = flights[e] /\ sock'[e] = "open"
    BY <1>1, <1>2 DEF Shape
  <2>2. Ordered(e)'
    BY <1>1, <2>1 DEF Link, Ordered
  <2>3. Chained(e)'
    <3>1. flights'[e] # Flights
      BY <1>1, <1>6, <2>1, FlightType, StreamAssumption
    <3> QED
      BY <3>1 DEF Chained, Sound
  <2>4. Shaking(e)'
    BY <1>1, <1>2, <1>5, <2>1 DEF Link, Shaking
  <2>5. Calling(e)'
    BY <1>5, <1>6, <2>1 DEF Calling
  <2> QED
    BY <2>2, <2>3, <2>4, <2>5 DEF Link
<1>8. \A f \in Ends \ {e} : Untouched(f)
  BY <1>1, <1>2 DEF Untouched, Shape
<1>9. ASSUME NEW f \in Ends PROVE written'[f] >= written[f] /\ OnWire(f)'
  <2>1. written'[f] >= written[f] /\ written'[f] \in Nat
    BY <1>1, <1>2, FlightType
  <2>2. CASE f = e
    BY <1>1, <1>2, <1>5, <2>1, <2>2, SendableFacts DEF IInv, OnWire
  <2>3. CASE f # e
    <3>1. wire'[f] \in {wire[f], <<>>} /\ call'[f].left \in {call[f].left, <<>>}
      BY <1>2, <1>8, <2>3 DEF Untouched
    <3> QED
      BY <1>4, <2>1, <3>1, WireKept
  <2> QED
    BY <2>1, <2>2, <2>3
<1> QED
  BY <1>1, <1>4, <1>7, <1>8, <1>9, Combine

LEMMA AcceptInv ==
  ASSUME IInv, Accept
  PROVE  IInv'
<1> DEFINE e == "server"
<1>1. e \in Ends /\ Shape /\ Link(e)
  BY DEF IInv, Ends
<1> HIDE DEF e
<1>2. /\ call[e].op = "none" /\ sock[e] = "none"
      /\ call' = [call EXCEPT ![e] = Sending("shake", <<>>)]
      /\ sock' = [sock EXCEPT ![e] = "open"]
      /\ UNCHANGED <<wire, flights, held, next, buffer, result,
                     written, promised, got>>
  BY DEF Accept, Busy, history, e
<1>3. /\ Sending("shake", <<>>) \in Call /\ Sending("shake", <<>>).op = "shake"
      /\ Sending("shake", <<>>).left = <<>>
  BY CallFacts, EmptyFacts
<1>4. Shape'
  BY <1>1, <1>2, <1>3 DEF Shape
<1>5. call'[e].op = "shake" /\ call'[e].left = <<>>
  BY <1>1, <1>2, <1>3 DEF Shape
<1>6. flights[e] < Flights
  BY <1>1, <1>2 DEF Link, Calling
<1>7. Link(e)'
  <2>1. got'[e] = got[e] /\ buffer'[e] = buffer[e] /\ held'[e] = held[e]
        /\ written'[Peer[e]] = written[Peer[e]] /\ next'[e] = next[e]
        /\ flights'[e] = flights[e] /\ sock'[e] = "open"
    BY <1>1, <1>2 DEF Shape
  <2>2. Ordered(e)'
    BY <1>1, <2>1 DEF Link, Ordered
  <2>3. Chained(e)'
    <3>1. flights'[e] # Flights
      BY <1>1, <1>6, <2>1, FlightType, StreamAssumption
    <3> QED
      BY <3>1 DEF Chained, Sound
  <2>4. Shaking(e)'
    BY <1>1, <1>2, <1>5, <2>1 DEF Link, Shaking
  <2>5. Calling(e)'
    BY <1>5, <1>6, <2>1 DEF Calling
  <2> QED
    BY <2>2, <2>3, <2>4, <2>5 DEF Link
<1>8. \A f \in Ends \ {e} : Untouched(f)
  BY <1>1, <1>2 DEF Untouched, Shape
<1>9. ASSUME NEW f \in Ends PROVE written'[f] >= written[f] /\ OnWire(f)'
  <2>1. written'[f] >= written[f]
    BY <1>1, <1>2, FlightType
  <2>2. wire'[f] \in {wire[f], <<>>} /\ call'[f].left \in {call[f].left, <<>>}
    BY <1>2, <1>5, <1>8 DEF Untouched
  <2> QED
    BY <1>4, <2>1, <2>2, WireKept
<1> QED
  BY <1>1, <1>4, <1>7, <1>8, <1>9, Combine

\* The end of an end: its socket is closed and it is in no call.
LEMMA ClosedInv ==
  ASSUME IInv, Shape', NEW e \in Ends, Closed(e),
         call'[e].op = "none", call'[e].left = <<>>,
         \A f \in Ends \ {e} : call'[f] = call[f] /\ result'[f] = result[f],
         UNCHANGED <<flights, next, written, got>>
  PROVE  IInv'
<1>1. Shape /\ Link(e)
  BY DEF IInv
<1>2. /\ sock'[e] \in {"closed", "reset"} /\ buffer'[e] = <<>> /\ held'[e] = <<>>
      /\ call'[e].op = "none" /\ call'[e].left = <<>>
  BY <1>1 DEF Closed, Shape
<1>3. Link(e)'
  <2>1. Ordered(e)'
    <3>1. /\ Numbered(got[e], 0)
          /\ Len(got[e]) + Len(buffer[e]) <= written[Peer[e]]
      BY <1>1 DEF Link, Ordered
    <3>2. /\ Len(got[e]) \in Nat /\ Len(buffer[e]) \in Nat /\ written[Peer[e]] \in Nat
      BY <1>1, FlightType, PeerFacts
    <3>3. Len(got[e]) + 0 <= written[Peer[e]]
      <4>1. \A a, b, c \in Nat : a + b <= c => a + 0 <= c
        OBVIOUS
      <4> QED
        BY <3>1, <3>2, <4>1
    <3> QED
      BY <1>2, <3>1, <3>3, EmptyFacts DEF Ordered, Numbered
  <2>2. Chained(e)'
    BY <1>2 DEF Chained, Sound
  <2>3. Shaking(e)'
    BY <1>1, <1>2 DEF Link, Shaking
  <2>4. Calling(e)'
    BY <1>2 DEF Calling
  <2> QED
    BY <2>1, <2>2, <2>3, <2>4 DEF Link
<1>4. \A f \in Ends \ {e} : Untouched(f)
  BY <1>1 DEF Untouched, Shape, Closed
<1>5. ASSUME NEW f \in Ends PROVE written'[f] >= written[f] /\ OnWire(f)'
  <2>1. written'[f] >= written[f]
    BY <1>1, FlightType
  <2>2. wire'[f] \in {wire[f], <<>>}
    BY <1>1, PeerFacts DEF Closed, Shape
  <2>3. call'[f].left \in {call[f].left, <<>>}
    BY <1>2
  <2> QED
    BY <2>1, <2>2, <2>3, WireKept
<1> QED
  BY <1>3, <1>4, <1>5, Combine

LEMMA CloseInv ==
  ASSUME IInv, NEW e \in Ends, Close(e)
  PROVE  IInv'
<1>1. Shape'
  BY ClosedType DEF IInv, Shape, Close, history
<1>2. call'[e].op = "none" /\ call'[e].left = <<>>
  <2>1. call'[e].op = "none" /\ call' = call
    BY DEF Close, Busy
  <2>2. call[e].left # <<>> => call[e].op \in {"shake", "write"}
    BY DEF IInv, Link, Calling
  <2> QED
    BY <2>1, <2>2
<1>3. Closed(e) /\ UNCHANGED <<call, result, flights, next, written, got>>
  BY DEF Close, history
<1> QED
  BY <1>1, <1>2, <1>3, ClosedInv

LEMMA KillInv ==
  ASSUME IInv, NEW e \in Ends, Kill(e)
  PROVE  IInv'
<1>1. /\ call' \in [Ends -> Call]
      /\ result' \in [Ends -> {"ok", "timeout", "errno", "herrno", "gss", "eof"}]
  BY CallFacts DEF IInv, Shape, Kill
<1>2. Shape'
  BY <1>1, ClosedType DEF IInv, Shape, Kill, history
<1>3. /\ Closed(e) /\ call'[e].op = "none" /\ call'[e].left = <<>>
      /\ \A f \in Ends \ {e} : call'[f] = call[f] /\ result'[f] = result[f]
      /\ UNCHANGED <<flights, next, written, got>>
  BY CallFacts DEF Kill, history, IInv, Shape
<1> QED
  BY <1>2, <1>3, ClosedInv

\* A call that ends with an error.
LEMMA FailInv ==
  ASSUME IInv, NEW e \in Ends, NEW r \in {"timeout", "errno", "herrno", "gss", "eof"}, Fail(e, r),
         call[e].op \notin {"none", "lookup", "dial"}
  PROVE  IInv'
<1>1. Shape /\ Shape' /\ Link(e)
  BY FailType DEF IInv
<1>2. /\ call' = [call EXCEPT ![e] = NoCall] /\ result' = [result EXCEPT ![e] = r]
      /\ UNCHANGED <<flights, next, written, promised, got>>
  BY DEF Fail, Return, history
<1>3. /\ call'[e].op = "none" /\ call'[e].left = <<>> /\ result'[e] = r
      /\ \A f \in Ends \ {e} : call'[f] = call[f] /\ result'[f] = result[f]
  BY <1>1, <1>2, CallFacts DEF Shape
<1>4. CASE call[e].op = "shake"
  <2>1. Closed(e)
    BY <1>4 DEF Fail
  <2> QED
    BY <1>1, <1>2, <1>3, <2>1, ClosedInv
<1>5. CASE call[e].op # "shake"
  <2>1. UNCHANGED <<sock, wire, buffer, held>>
    BY <1>5 DEF Fail
  <2>2. Ordered(e)'
    BY <1>1, <1>2, <2>1 DEF Link, Ordered
  <2>3. Chained(e)'
    <3>1. Sound(e)
      <4>1. call[e].op \in {"none", "lookup", "dial", "shake", "write", "read", "full"}
        BY <1>1, FlightType DEF Call
      <4> QED
        BY <1>1, <1>5, <4>1 DEF Link, Calling
    <3> QED
      BY <1>1, <1>2, <2>1, <3>1 DEF Link, Chained
  <2>4. Shaking(e)' /\ Calling(e)'
    BY <1>1, <1>2, <1>3, <1>5, <2>1 DEF Link, Shaking, Calling
  <2>5. \A f \in Ends \ {e} : Untouched(f)
    BY <1>2, <1>3, <2>1 DEF Untouched
  <2>6. ASSUME NEW f \in Ends PROVE written'[f] >= written[f] /\ OnWire(f)'
    <3>1. written'[f] >= written[f]
      BY <1>1, <1>2, FlightType
    <3>2. wire'[f] \in {wire[f], <<>>} /\ call'[f].left \in {call[f].left, <<>>}
      BY <1>3, <2>1
    <3> QED
      BY <1>1, <3>1, <3>2, WireKept
  <2> QED
    BY <1>1, <2>2, <2>3, <2>4, <2>5, <2>6, Combine DEF Link
<1> QED
  BY <1>4, <1>5

\* The steps that fail a call on the connection.
Failing(e) == \/ SendFails(e) \/ ReceiveEnd(e) \/ Expire(e) \/ Invalid(e)
              \/ WaitsForToken(e) /\ Fail(e, "errno") /\ WaitedForToken(e)

LEMMA FailingCalls ==
  ASSUME IInv, NEW e \in Ends, Failing(e)
  PROVE  call[e].op \in {"shake", "write", "read", "full"}
<1>1. /\ call[e].left # <<>> => call[e].op \in {"shake", "write"}
  BY DEF IInv, Link, Calling
<1> QED
  BY <1>1 DEF Failing, SendFails, ReceiveEnd, Expire, Invalid, WaitsForToken

LEMMA FailingInv ==
  ASSUME IInv, NEW e \in Ends, Failing(e)
  PROVE  IInv'
<1>1. call[e].op \notin {"none", "lookup", "dial"}
  BY FailingCalls
<1>2. \E r \in {"timeout", "errno", "herrno", "gss", "eof"} : Fail(e, r)
  BY DEF Failing, SendFails, ReceiveEnd, Expire, Invalid
<1> QED
  BY <1>1, <1>2, FailInv

LEMMA WriteInv ==
  ASSUME IInv, NEW e \in Ends, NEW n \in Sizes, Write(e, n)
  PROVE  IInv'
<1> DEFINE token == Record(written[e], n)
<1>1. Shape /\ Link(e) /\ n \in Nat \ {0} /\ written[e] \in Nat
  BY StreamAssumption, FlightType DEF IInv
<1>2. /\ token \in Seq(Unit) /\ Len(token) = n
      /\ \A i \in 1..n : token[i].byte = written[e] + i
  BY <1>1, RecordFacts
<1> HIDE DEF token
<1>3. /\ Sound(e) /\ call[e].op = "none"
      /\ call' = [call EXCEPT ![e] = Sending("write", token)]
      /\ written' = [written EXCEPT ![e] = @ + n]
      /\ UNCHANGED <<sock, wire, flights, held, next, buffer, result,
                     promised, got>>
  BY DEF Write, Usable, Busy, Sound, token
<1>4. /\ Sending("write", token) \in Call /\ Sending("write", token).op = "write"
      /\ Sending("write", token).left = token
  BY <1>2, CallFacts
<1>5. written' \in [Ends -> Nat] /\ written'[e] = written[e] + n
      /\ \A f \in Ends : written'[f] >= written[f]
  <2>1. written' \in [Ends -> Nat] /\ written'[e] = written[e] + n
    BY <1>1, <1>3 DEF Shape
  <2>2. ASSUME NEW f \in Ends PROVE written'[f] >= written[f]
    <3>1. CASE f = e
      BY <1>1, <2>1, <3>1
    <3>2. CASE f # e
      BY <1>1, <1>3, <3>2, FlightType DEF Shape
    <3> QED
      BY <3>1, <3>2
  <2> QED
    BY <2>1, <2>2
<1>6. Shape'
  BY <1>1, <1>3, <1>4, <1>5 DEF Shape
<1>7. call'[e].op = "write" /\ call'[e].left = token
  BY <1>1, <1>3, <1>4 DEF Shape
<1>8. Link(e)'
  <2>1. written'[Peer[e]] = written[Peer[e]]
    BY <1>3, PeerFacts
  <2>2. Ordered(e)' /\ Chained(e)'
    BY <1>1, <1>3, <2>1 DEF Link, Ordered, Chained, Sound
  <2>3. flights[e] = Flights /\ Flights \in Nat
    BY <1>3, StreamAssumption DEF Sound
  <2>4. Shaking(e)' /\ Calling(e)'
    BY <1>1, <1>3, <1>7, <2>3 DEF Link, Shaking, Calling, Sound
  <2> QED
    BY <2>2, <2>4 DEF Link
<1>9. \A f \in Ends \ {e} : Untouched(f)
  BY <1>1, <1>3 DEF Untouched, Shape
<1>10. OnWire(e)'
  <2>1. Sendable(wire[e], written'[e])
    BY <1>1, <1>5, SendableFacts, FlightType DEF IInv, OnWire
  <2>2. Sendable(token, written'[e])
    BY <1>1, <1>2, <1>5 DEF Sendable
  <2> QED
    BY <1>3, <1>7, <2>1, <2>2 DEF OnWire
<1>11. ASSUME NEW f \in Ends PROVE OnWire(f)'
  <2>1. CASE f # e
    <3>1. wire'[f] \in {wire[f], <<>>} /\ call'[f].left \in {call[f].left, <<>>}
      BY <1>3, <1>9, <2>1 DEF Untouched
    <3> QED
      BY <1>5, <1>6, <3>1, WireKept
  <2> QED
    BY <1>10, <2>1
<1> QED
  BY <1>5, <1>6, <1>8, <1>9, <1>11, Combine

LEMMA NoBytes == \A s \in Seq(Nat) : Len(s) = 0 => s = <<>>
  BY EmptyFacts

\* What is given out of the buffer.
LEMMA ServeLink ==
  ASSUME IInv, NEW e \in Ends, NEW n \in Nat, Serve(e, n), UNCHANGED written
  PROVE  /\ Ordered(e)'
         /\ Len(got'[e]) \in Nat /\ Len(buffer'[e]) \in Nat
         /\ Len(got'[e]) + Len(buffer'[e]) = Len(got[e]) + Len(buffer[e])
         /\ Len(buffer'[e]) = Len(buffer[e]) - Smaller(n, Len(buffer[e]))
<1> DEFINE k == Smaller(n, Len(buffer[e]))
           g == got[e]
           b == buffer[e]
<1>1. /\ g \in Seq(Nat) /\ b \in Seq(Nat) /\ Len(g) \in Nat /\ Len(b) \in Nat
      /\ got \in [Ends -> Seq(Nat)] /\ buffer \in [Ends -> Seq(Nat)]
  BY FlightType, SMTT(30) DEF IInv, Shape
<1>2. k \in 0..Len(b)
  BY <1>1, SmallerFacts
<1>3. /\ Numbered(g, 0) /\ Numbered(b, Len(g))
      /\ Len(g) + Len(b) <= written[Peer[e]]
  BY DEF IInv, Link, Ordered
<1>4. got'[e] = g \o First(b, k) /\ buffer'[e] = After(b, k)
  BY <1>1 DEF Serve
<1> HIDE DEF k, g, b
<1>5. /\ got'[e] \in Seq(Nat) /\ buffer'[e] \in Seq(Nat)
      /\ Len(got'[e]) = Len(g) + k /\ Len(buffer'[e]) = Len(b) - k
      /\ Numbered(got'[e], 0) /\ Numbered(buffer'[e], Len(g) + k)
  <2>1. /\ g \o First(b, k) \in Seq(Nat) /\ After(b, k) \in Seq(Nat)
        /\ Len(g \o First(b, k)) = Len(g) + k /\ Len(After(b, k)) = Len(b) - k
        /\ Numbered(g \o First(b, k), 0)
        /\ Numbered(After(b, k), Len(g) + k)
    BY <1>1, <1>2, <1>3, ServeOrder
  <2> QED
    BY <1>4, <2>1
<1>6. \A x, y \in Nat : \A z \in 0..y : (x + z) + (y - z) = x + y
  OBVIOUS
<1>7. Len(got'[e]) + Len(buffer'[e]) = Len(g) + Len(b)
  BY <1>1, <1>2, <1>5, <1>6
<1>8. Len(got'[e]) \in Nat /\ Len(buffer'[e]) \in Nat
  BY <1>5
<1>9. Len(got'[e]) + Len(buffer'[e]) <= written'[Peer[e]]
  BY <1>3, <1>7
<1>10. Ordered(e)'
  BY <1>5, <1>9 DEF Ordered
<1> QED
  BY <1>5, <1>7, <1>8, <1>10 DEF k, g, b

\* As many bytes are given and kept as before.
LEMMA ChainKept ==
  ASSUME IInv, NEW e \in Ends, Chained(e), Sound(e),
         Len(got'[e]) + Len(buffer'[e]) = Len(got[e]) + Len(buffer[e]),
         UNCHANGED <<next, held, written>>
  PROVE  Chained(e)'
<1> DEFINE k == Len(got[e]) + Len(buffer[e])
<1>1. /\ next[e] = k + Len(held[e]) + 1
      /\ Following(held[e], k)
      /\ next[e] <= written[Peer[e]] + 1
  BY DEF Chained
<1>2. Len(got'[e]) + Len(buffer'[e]) = k
  OBVIOUS
<1> HIDE DEF k
<1>3. next'[e] = (Len(got'[e]) + Len(buffer'[e])) + Len(held'[e]) + 1
  BY <1>1, <1>2
<1>4. Following(held'[e], Len(got'[e]) + Len(buffer'[e]))
  BY <1>1, <1>2
<1> QED
  BY <1>1, <1>3, <1>4 DEF Chained

\* A step of an end that leaves the wire alone.
LEMMA Apart ==
  ASSUME IInv, Shape', NEW e \in Ends, Link(e)',
         \A f \in Ends \ {e} : Untouched(f),
         UNCHANGED <<wire, written>>, call'[e].left \in {call[e].left, <<>>}
  PROVE  IInv'
<1>1. ASSUME NEW f \in Ends PROVE written'[f] >= written[f] /\ OnWire(f)'
  <2>1. written'[f] >= written[f]
    BY FlightType DEF IInv
  <2>2. wire'[f] \in {wire[f], <<>>} /\ call'[f].left \in {call[f].left, <<>>}
    BY DEF Untouched
  <2> QED
    BY <2>1, <2>2, WireKept
<1> QED
  BY <1>1, Combine

LEMMA ReadInv ==
  ASSUME IInv, NEW e \in Ends, NEW n \in Sizes, Read(e, n)
  PROVE  IInv'
<1>1. Shape /\ Link(e) /\ n \in Nat \ {0} /\ Sound(e) /\ call[e].op = "none"
  BY StreamAssumption DEF IInv, Read, Usable, Busy, Sound
<1>2. UNCHANGED <<sock, wire, flights, held, next, written, promised>>
  BY DEF Read
<1>3. flights[e] = Flights /\ Flights \in Nat
  BY <1>1, StreamAssumption DEF Sound
<1>4. CASE buffer[e] # <<>>
  <2>1. Serve(e, n) /\ Return(e, "ok")
    BY <1>4 DEF Read
  <2>2. Shape'
    BY <1>1, <1>2, <2>1, ServeType, ReturnType DEF Shape
  <2>3. /\ call'[e].op = "none" /\ call'[e].left = <<>> /\ result'[e] = "ok"
    BY <1>1, <2>1, CallFacts DEF Return, Shape
  <2>4. Ordered(e)' /\ Chained(e)'
    BY <1>1, <1>2, <2>1, ServeLink, ChainKept DEF Link
  <2>5. Shaking(e)' /\ Calling(e)'
    BY <1>1, <1>2, <1>3, <2>3 DEF Link, Shaking, Calling, Sound
  <2>6. \A f \in Ends \ {e} : Untouched(f)
    BY <1>1, <1>2, <2>1 DEF Untouched, Shape, Serve, Return
  <2> QED
    BY <1>2, <2>2, <2>3, <2>4, <2>5, <2>6, Apart DEF Link
<1>5. CASE buffer[e] = <<>>
  <2>1. /\ call' = [call EXCEPT ![e] = Reading("read", n, 0)]
        /\ UNCHANGED <<buffer, result, got>>
    BY <1>5 DEF Read
  <2>2. /\ Reading("read", n, 0) \in Call /\ Reading("read", n, 0).op = "read"
        /\ Reading("read", n, 0).left = <<>>
        /\ Reading("read", n, 0).size = n /\ Reading("read", n, 0).total = 0
    BY <1>1, CallFacts
  <2>3. Shape'
    BY <1>1, <1>2, <2>1, <2>2 DEF Shape
  <2>4. /\ call'[e].op = "read" /\ call'[e].left = <<>>
        /\ call'[e].size = n /\ call'[e].total = 0
    BY <1>1, <2>1, <2>2 DEF Shape
  <2>5. Ordered(e)' /\ Chained(e)'
    BY <1>1, <1>2, <2>1 DEF Link, Ordered, Chained, Sound
  <2>6. Shaking(e)' /\ Calling(e)'
    BY <1>1, <1>2, <1>3, <1>5, <2>1, <2>4 DEF Link, Shaking, Calling, Sound
  <2>7. \A f \in Ends \ {e} : Untouched(f)
    BY <1>1, <1>2, <2>1 DEF Untouched, Shape
  <2> QED
    BY <1>2, <2>3, <2>4, <2>5, <2>6, <2>7, Apart DEF Link
<1> QED
  BY <1>4, <1>5

LEMMA ReadFullInv ==
  ASSUME IInv, NEW e \in Ends, NEW n \in Sizes, ReadFull(e, n)
  PROVE  IInv'
<1>1. Shape /\ Link(e) /\ n \in Nat \ {0} /\ Sound(e) /\ call[e].op = "none"
  BY StreamAssumption DEF IInv, ReadFull, Usable, Busy, Sound
<1>2. /\ UNCHANGED <<sock, wire, flights, held, next, written, promised>>
      /\ Serve(e, n)
  BY DEF ReadFull
<1>3. flights[e] = Flights /\ Flights \in Nat
  BY <1>1, StreamAssumption DEF Sound
<1>4. got' \in [Ends -> Seq(Nat)] /\ buffer' \in [Ends -> Seq(Nat)]
  BY <1>1, <1>2, ServeType
<1>5. Ordered(e)' /\ Chained(e)'
  BY <1>1, <1>2, ServeLink, ChainKept DEF Link
<1>6. CASE Len(buffer[e]) >= n
  <2>1. Return(e, "ok")
    BY <1>6 DEF ReadFull
  <2>2. Shape'
    BY <1>1, <1>2, <1>4, <2>1, ReturnType DEF Shape
  <2>3. /\ call'[e].op = "none" /\ call'[e].left = <<>>
    BY <1>1, <2>1, CallFacts DEF Return, Shape
  <2>4. Shaking(e)' /\ Calling(e)'
    BY <1>1, <1>2, <1>3, <2>3 DEF Link, Shaking, Calling, Sound
  <2>5. \A f \in Ends \ {e} : Untouched(f)
    BY <1>1, <1>2, <2>1 DEF Untouched, Shape, Serve, Return
  <2> QED
    BY <1>2, <1>5, <2>2, <2>3, <2>4, <2>5, Apart DEF Link
<1>7. CASE ~(Len(buffer[e]) >= n)
  <2> DEFINE k == Len(buffer[e])
  <2>1. /\ call' = [call EXCEPT ![e] = Reading("full", n, k)]
        /\ UNCHANGED result
    BY <1>7 DEF ReadFull
  <2>2. k \in Nat /\ k < n
    BY <1>1, <1>7, FlightType
  <2>3. buffer'[e] = <<>>
    <3>1. Smaller(n, Len(buffer[e])) = Len(buffer[e])
      BY <1>1, <2>2 DEF Smaller
    <3>2. Len(buffer'[e]) = 0
      <4>1. Len(buffer'[e]) = Len(buffer[e]) - Smaller(n, Len(buffer[e]))
        BY <1>1, <1>2, ServeLink
      <4> QED
        BY <2>2, <3>1, <4>1
    <3> QED
      BY <1>4, <3>2, NoBytes
  <2> HIDE DEF k
  <2>4. /\ Reading("full", n, k) \in Call /\ Reading("full", n, k).op = "full"
        /\ Reading("full", n, k).left = <<>>
        /\ Reading("full", n, k).size = n /\ Reading("full", n, k).total = k
    BY <1>1, <2>2, CallFacts
  <2>5. Shape'
    BY <1>1, <1>2, <1>4, <2>1, <2>4 DEF Shape
  <2>6. /\ call'[e].op = "full" /\ call'[e].left = <<>>
        /\ call'[e].size = n /\ call'[e].total = k
    BY <1>1, <2>1, <2>4 DEF Shape
  <2>7. Shaking(e)' /\ Calling(e)'
    BY <1>1, <1>2, <1>3, <2>1, <2>2, <2>3, <2>6 DEF Link, Shaking, Calling, Sound
  <2>8. \A f \in Ends \ {e} : Untouched(f)
    BY <1>1, <1>2, <2>1 DEF Untouched, Shape, Serve
  <2> QED
    BY <1>2, <1>5, <2>5, <2>6, <2>7, <2>8, Apart DEF Link
<1> QED
  BY <1>6, <1>7

LEMMA UnreadInv ==
  ASSUME IInv, NEW e \in Ends, NEW n \in Sizes, Unread(e, n)
  PROVE  IInv'
<1> DEFINE g == got[e]
           b == buffer[e]
<1>1. /\ Shape /\ Link(e) /\ n \in Nat /\ Sound(e) /\ call[e].op = "none"
      /\ g \in Seq(Nat) /\ b \in Seq(Nat) /\ Len(g) \in Nat /\ Len(b) \in Nat
      /\ n <= Len(g)
  BY StreamAssumption, FlightType DEF IInv, Unread, Usable, Busy, Sound
<1>2. PICK m \in Nat : m + n = Len(g) /\ m = Len(g) - n
  <2>1. Len(g) - n \in Nat /\ (Len(g) - n) + n = Len(g)
    BY <1>1
  <2> QED
    BY <2>1
<1>3. /\ buffer' = [buffer EXCEPT ![e] = After(g, m) \o b]
      /\ got' = [got EXCEPT ![e] = First(g, m)]
      /\ UNCHANGED <<sock, wire, flights, held, next, call, result,
                     written, promised>>
  BY <1>2 DEF Unread
<1>4. Numbered(g, 0) /\ Numbered(b, Len(g)) /\ Len(g) + Len(b) <= written[Peer[e]]
  BY <1>1 DEF Link, Ordered
<1>5. buffer'[e] = After(g, m) \o b /\ got'[e] = First(g, m)
  BY <1>1, <1>3 DEF Shape
<1> HIDE DEF g, b
<1>6. /\ got'[e] \in Seq(Nat) /\ buffer'[e] \in Seq(Nat)
      /\ Len(got'[e]) = m /\ Len(buffer'[e]) = n + Len(b)
      /\ Numbered(got'[e], 0) /\ Numbered(buffer'[e], m)
  <2>1. /\ First(g, m) \in Seq(Nat) /\ After(g, m) \o b \in Seq(Nat)
        /\ Len(First(g, m)) = m /\ Len(After(g, m) \o b) = n + Len(b)
        /\ Numbered(First(g, m), 0) /\ Numbered(After(g, m) \o b, m)
    <3>1. /\ g \in Seq(Nat) /\ b \in Seq(Nat) /\ n \in Nat /\ m \in Nat
          /\ m + n = Len(g)
      BY <1>1, <1>2
    <3> QED
      BY <3>1, <1>4, UnreadOrder
  <2> QED
    BY <1>5, <2>1
<1>7. Len(got'[e]) + Len(buffer'[e]) = Len(g) + Len(b)
  <2>1. n \in Nat /\ Len(g) \in Nat /\ Len(b) \in Nat /\ m + n = Len(g)
    BY <1>1, <1>2
  <2>2. \A l, k \in Nat : m + n = l => m + (n + k) = l + k
    BY <2>1
  <2>3. m + (n + Len(b)) = Len(g) + Len(b)
    BY <2>1, <2>2
  <2> QED
    BY <1>6, <2>3
<1>8. Shape'
  BY <1>1, <1>3, <1>5, <1>6 DEF Shape
<1>9. Ordered(e)'
  <2>1. Numbered(got'[e], 0) /\ Numbered(buffer'[e], Len(got'[e]))
    BY <1>6
  <2>2. Len(got'[e]) + Len(buffer'[e]) <= written'[Peer[e]]
    BY <1>3, <1>4, <1>7
  <2> QED
    BY <2>1, <2>2 DEF Ordered
<1>10. Chained(e)'
  BY <1>1, <1>3, <1>7, ChainKept DEF Link, g, b
<1>11. Shaking(e)' /\ Calling(e)'
  <2>1. flights[e] = Flights /\ Flights \in Nat
    BY <1>1, StreamAssumption DEF Sound
  <2> QED
    BY <1>1, <1>3, <2>1 DEF Link, Shaking, Calling, Sound
<1>12. \A f \in Ends \ {e} : Untouched(f)
  BY <1>1, <1>3 DEF Untouched, Shape
<1> QED
  BY <1>3, <1>8, <1>9, <1>10, <1>11, <1>12, Apart DEF Link

\* The last of a token is out.
LEMMA SentLink ==
  ASSUME IInv, NEW e \in Ends, Sent(e), call[e].left # <<>>,
         UNCHANGED <<sock, held, next, buffer, written, got>>
  PROVE  /\ call' \in [Ends -> Call]
         /\ result' \in [Ends -> {"ok", "timeout", "errno", "herrno", "gss", "eof"}]
         /\ flights' \in [Ends -> 0..Flights]
         /\ promised' \in [Ends -> Nat]
         /\ Link(e)' /\ call'[e].left = <<>>
         /\ \A f \in Ends \ {e} : Untouched(f)
<1>1. Shape /\ Link(e) /\ Flights \in Nat /\ flights[e] \in 0..Flights
  BY StreamAssumption, FlightType DEF IInv
<1>2. /\ call[e].op \in {"shake", "write"}
      /\ call[e].op = "shake" => flights[e] < Flights /\ sock[e] # "none"
      /\ call[e].op = "write" => Sound(e)
  BY <1>1 DEF Link, Calling
<1>3. /\ call' \in [Ends -> Call]
      /\ result' \in [Ends -> {"ok", "timeout", "errno", "herrno", "gss", "eof"}]
      /\ flights' \in [Ends -> 0..Flights]
      /\ promised' \in [Ends -> Nat]
  BY <1>1, <1>2, SentType
<1>4. \A f \in Ends \ {e} : Untouched(f)
  BY <1>1, SMTT(30) DEF Sent, Return, Untouched, Shape
<1>5. Ordered(e)'
  BY <1>1 DEF Link, Ordered
<1>6. CASE call[e].op = "write"
  <2>1. Return(e, "ok") /\ UNCHANGED flights
    BY <1>6 DEF Sent
  <2>2. call'[e].op = "none" /\ call'[e].left = <<>>
    BY <1>1, <2>1, CallFacts DEF Return, Shape
  <2>3. Chained(e)'
    BY <1>1, <1>2, <1>6 DEF Link, Chained
  <2>4. Shaking(e)' /\ Calling(e)'
    BY <1>1, <1>2, <1>6, <2>1, <2>2 DEF Link, Shaking, Calling, Sound
  <2> QED
    BY <1>3, <1>4, <1>5, <2>2, <2>3, <2>4 DEF Link
<1>7. CASE call[e].op = "shake"
  <2>1. /\ flights' = [flights EXCEPT ![e] = @ + 1]
        /\ flights'[e] = flights[e] + 1
    BY <1>1, <1>7 DEF Sent, Shape
  <2>2. /\ next[e] = 1 /\ got[e] = <<>> /\ buffer[e] = <<>> /\ held[e] = <<>>
    BY <1>1, <1>2, <1>7 DEF Link, Shaking
  <2>3. /\ call'[e].left = <<>>
        /\ \/ call'[e].op = "none"
           \/ call'[e].op = "shake" /\ flights'[e] # Flights
    <3>1. CASE flights[e] + 1 = Flights
      BY <1>1, <1>7, <3>1, CallFacts DEF Sent, Return, Shape
    <3>2. CASE flights[e] + 1 # Flights
      <4>1. call' = [call EXCEPT ![e] = Sending("shake", <<>>)]
        BY <1>7, <3>2 DEF Sent
      <4>2. Sending("shake", <<>>).left = <<>> /\ Sending("shake", <<>>).op = "shake"
        BY CallFacts, EmptyFacts
      <4>3. call'[e] = Sending("shake", <<>>)
        BY <1>1, <4>1 DEF Shape
      <4> QED
        BY <2>1, <3>2, <4>2, <4>3
    <3> QED
      BY <3>1, <3>2
  <2>4. Chained(e)'
    <3>1. written[Peer[e]] \in Nat
      BY <1>1, FlightType, PeerFacts
    <3> QED
      BY <2>2, <3>1, EmptyFacts DEF Chained, Following
  <2>5. Shaking(e)'
    BY <2>2, <2>3 DEF Shaking
  <2>6. flights'[e] # Flights => flights'[e] < Flights
    BY <1>1, <1>3
  <2>7. Calling(e)'
    BY <1>2, <1>7, <2>3, <2>6 DEF Calling
  <2> QED
    BY <1>3, <1>4, <1>5, <2>3, <2>4, <2>5, <2>7 DEF Link
<1> QED
  BY <1>2, <1>6, <1>7

LEMMA SendInVainInv ==
  ASSUME IInv, NEW e \in Ends, SendInVain(e)
  PROVE  IInv'
<1>1. /\ Sent(e) /\ call[e].left # <<>>
      /\ UNCHANGED <<sock, wire, held, next, buffer, written, got>>
  BY DEF SendInVain
<1>2. Shape'
  BY <1>1, SentLink DEF IInv, Shape
<1> QED
  BY <1>1, <1>2, SentLink, Apart

LEMMA SendInv ==
  ASSUME IInv, NEW e \in Ends, Send(e)
  PROVE  IInv'
<1> DEFINE left == call[e].left
           w == wire[e]
<1>1. /\ Shape /\ Link(e) /\ w \in Seq(Unit) /\ left \in Seq(Unit)
      /\ Len(w) \in Nat /\ Len(left) \in Nat
      /\ written[e] \in Nat /\ Sendable(w, written[e]) /\ Sendable(left, written[e])
  BY FlightType DEF IInv, OnWire
<1>2. /\ left # <<>> /\ Len(w) < Capacity
      /\ UNCHANGED <<sock, held, next, buffer, written, got>>
  BY DEF Send
<1>3. PICK k \in 1..Smaller(Len(left), Capacity - Len(w)) :
        /\ wire' = [wire EXCEPT ![e] = @ \o First(left, k)]
        /\ IF k = Len(left) THEN Sent(e)
           ELSE /\ call' = [call EXCEPT ![e].left = After(@, k),
                                        ![e].stuck = e \in Blocking]
                /\ UNCHANGED <<flights, result, promised>>
  BY DEF Send
<1>4. k \in Nat /\ k <= Len(left) /\ k \in 0..Len(left)
  <2>1. Capacity - Len(w) \in Nat
    BY <1>1, <1>2, StreamAssumption
  <2>2. Smaller(Len(left), Capacity - Len(w)) \in Nat
        /\ Smaller(Len(left), Capacity - Len(w)) <= Len(left)
    BY <1>1, <2>1, SmallerFacts
  <2> HIDE DEF left, w
  <2> QED
    BY <1>1, <2>2
<1>5. /\ First(left, k) \in Seq(Unit) /\ After(left, k) \in Seq(Unit)
      /\ Sendable(First(left, k), written[e]) /\ Sendable(After(left, k), written[e])
  BY <1>1, <1>4, CutFacts, SendableFacts
<1>6. /\ w \o First(left, k) \in Seq(Unit)
      /\ Sendable(w \o First(left, k), written[e])
  BY <1>1, <1>5, JoinUnits, SendableFacts
<1>7. wire'[e] = w \o First(left, k) /\ wire' \in [Ends -> Seq(Unit)]
  BY <1>1, <1>3, <1>6 DEF Shape
<1>8. \A f \in Ends \ {e} : wire'[f] = wire[f]
  BY <1>1, <1>3 DEF Shape
<1>9. /\ Shape' /\ Link(e)' /\ Sendable(call'[e].left, written[e])
      /\ \A f \in Ends \ {e} : Untouched(f)
  <2>1. CASE k = Len(left)
    <3>1. Sent(e)
      BY <1>3, <2>1
    <3>2. Shape'
      BY <1>1, <1>2, <1>7, <3>1, SentLink DEF Shape
    <3>3. Link(e)' /\ call'[e].left = <<>> /\ \A f \in Ends \ {e} : Untouched(f)
      BY <1>2, <3>1, SentLink
    <3> QED
      BY <1>1, <3>2, <3>3, SendableFacts
  <2>2. CASE k # Len(left)
    <3>1. /\ call' = [call EXCEPT ![e].left = After(@, k),
                                  ![e].stuck = e \in Blocking]
          /\ UNCHANGED <<flights, result, promised>>
      BY <1>3, <2>2
    <3>2. call'[e] = [call[e] EXCEPT !.left = After(left, k), !.stuck = e \in Blocking]
      BY <1>1, <3>1 DEF Shape
    <3>3. /\ call'[e] \in Call /\ call'[e].left = After(left, k)
          /\ call'[e].op = call[e].op
      <4>1. call[e] \in Call /\ (e \in Blocking) \in BOOLEAN
        BY <1>1, FlightType
      <4> DEFINE u == After(left, k)
                 b == e \in Blocking
      <4>3. u \in Seq(Unit) /\ b \in BOOLEAN
        BY <1>5, <4>1
      <4>4. call'[e] = [call[e] EXCEPT !.left = u, !.stuck = b]
        BY <3>2
      <4> HIDE DEF u, b
      <4>5. call'[e] \in Call /\ call'[e].left = u /\ call'[e].op = call[e].op
        BY <4>1, <4>3, <4>4 DEF Call
      <4> QED
        BY <4>5 DEF u
    <3>4. call' \in [Ends -> Call] /\ \A f \in Ends \ {e} : call'[f] = call[f]
      BY <1>1, <3>1, <3>3 DEF Shape
    <3>5. Shape'
      BY <1>1, <1>2, <1>7, <3>1, <3>4 DEF Shape
    <3>6. \A f \in Ends \ {e} : Untouched(f)
      BY <1>2, <3>1, <3>4 DEF Untouched
    <3>7. Ordered(e)' /\ Chained(e)'
      BY <1>1, <1>2, <3>1 DEF Link, Ordered, Chained, Sound
    <3>8. Shaking(e)' /\ Calling(e)'
      BY <1>1, <1>2, <3>1, <3>3 DEF Link, Shaking, Calling, Sound
    <3> QED
      BY <1>5, <3>3, <3>5, <3>6, <3>7, <3>8 DEF Link
  <2> QED
    BY <2>1, <2>2
<1>10. ASSUME NEW f \in Ends PROVE written'[f] >= written[f] /\ OnWire(f)'
  <2>1. written'[f] >= written[f]
    BY <1>1, <1>2, FlightType
  <2>2. CASE f = e
    BY <1>2, <1>6, <1>7, <1>9, <2>1, <2>2 DEF OnWire
  <2>3. CASE f # e
    <3>1. wire'[f] \in {wire[f], <<>>} /\ call'[f].left \in {call[f].left, <<>>}
      BY <1>8, <1>9, <2>3 DEF Untouched
    <3> QED
      BY <1>9, <2>1, <3>1, WireKept
  <2> QED
    BY <2>1, <2>2, <2>3
<1> QED
  BY <1>9, <1>10, Combine

\* A piece of the handshake arrives.
LEMMA FlightLink ==
  ASSUME IInv, NEW e \in Ends, NEW all \in Seq(Unit), ReceiveFlight(e, all),
         call[e].left = <<>>, UNCHANGED <<sock, written>>
  PROVE  /\ call' \in [Ends -> Call] /\ held' \in [Ends -> Seq(Unit)]
         /\ result' \in [Ends -> {"ok", "timeout", "errno", "herrno", "gss", "eof"}]
         /\ flights' \in [Ends -> 0..Flights]
         /\ UNCHANGED <<buffer, next, got>>
         /\ Link(e)' /\ call'[e].left \in {<<>>, Flight}
         /\ \A f \in Ends \ {e} : Untouched(f)
<1>1. /\ Shape /\ Link(e) /\ Flights \in Nat /\ flights[e] \in 0..Flights
      /\ call[e] \in Call /\ call[e].op = "shake" /\ UNCHANGED <<buffer, next, got>>
  BY StreamAssumption, FlightType DEF IInv, ReceiveFlight
<1>2. /\ flights[e] < Flights /\ sock[e] # "none"
      /\ next[e] = 1 /\ got[e] = <<>> /\ buffer[e] = <<>>
  BY <1>1 DEF Link, Calling, Shaking
<1>3. Ordered(e)'
  BY <1>1 DEF Link, Ordered
<1>4. CASE ~all[Len(all)].last
  <2>1. /\ held' = [held EXCEPT ![e] = all]
        /\ UNCHANGED <<flights, call, result>>
    BY <1>4 DEF ReceiveFlight
  <2>2. held' \in [Ends -> Seq(Unit)] /\ \A f \in Ends \ {e} : Untouched(f)
    BY <1>1, <2>1 DEF Shape, Untouched
  <2>3. Chained(e)'
    <3>1. flights'[e] # Flights
      BY <1>1, <1>2, <2>1
    <3> QED
      BY <3>1 DEF Chained, Sound
  <2>4. Shaking(e)' /\ Calling(e)'
    BY <1>1, <1>2, <2>1 DEF Link, Shaking, Calling, Sound
  <2> QED
    BY <1>1, <1>3, <2>1, <2>2, <2>3, <2>4 DEF Link, Shape
<1>5. CASE all[Len(all)].last
  <2>1. /\ held' = [held EXCEPT ![e] = <<>>]
        /\ flights' = [flights EXCEPT ![e] = @ + 1]
        /\ flights'[e] = flights[e] + 1 /\ held'[e] = <<>>
    BY <1>1, <1>5 DEF ReceiveFlight, Shape
  <2>2. flights[e] + 1 \in 0..Flights
    BY <1>1, <1>2
  <2>3. flights' \in [Ends -> 0..Flights] /\ held' \in [Ends -> Seq(Unit)]
    BY <1>1, <2>1, <2>2, EmptyFacts DEF Shape
  <2>4. /\ call' \in [Ends -> Call]
        /\ result' \in [Ends -> {"ok", "timeout", "errno", "herrno", "gss", "eof"}]
        /\ \A f \in Ends \ {e} : call'[f] = call[f] /\ result'[f] = result[f]
        /\ \/ call'[e].op = "none" /\ call'[e].left = <<>>
           \/ /\ call'[e].op = "shake" /\ call'[e].left = Flight
              /\ flights'[e] # Flights
    <3>1. CASE flights[e] + 1 = Flights
      <4>1. Return(e, "ok")
        BY <1>5, <3>1 DEF ReceiveFlight
      <4> QED
        <5>1. /\ call' \in [Ends -> Call]
              /\ result' \in [Ends -> {"ok", "timeout", "errno", "herrno", "gss", "eof"}]
          BY <1>1, <4>1, ReturnType
        <5>2. /\ \A f \in Ends \ {e} : call'[f] = call[f] /\ result'[f] = result[f]
              /\ call'[e] = NoCall
          BY <1>1, <4>1 DEF Return, Shape
        <5> QED
          BY <5>1, <5>2, CallFacts
    <3>2. CASE flights[e] + 1 # Flights
      <4>1. call' = [call EXCEPT ![e].left = Flight] /\ result' = result
        BY <1>5, <3>2 DEF ReceiveFlight
      <4>2. /\ call'[e] = [call[e] EXCEPT !.left = Flight]
            /\ \A f \in Ends \ {e} : call'[f] = call[f]
        BY <1>1, <4>1 DEF Shape
      <4>3. call'[e] \in Call /\ call'[e].left = Flight /\ call'[e].op = "shake"
        BY <1>1, <4>2, FlightFacts DEF Call
      <4>4. call' \in [Ends -> Call]
        BY <1>1, <4>1, <4>3 DEF Shape
      <4>5. result' \in [Ends -> {"ok", "timeout", "errno", "herrno", "gss", "eof"}]
        BY <1>1, <4>1 DEF Shape
      <4> QED
        BY <2>1, <3>2, <4>1, <4>2, <4>3, <4>4, <4>5
    <3> QED
      BY <3>1, <3>2
  <2>5. \A f \in Ends \ {e} : Untouched(f)
    BY <1>1, <2>1, <2>4 DEF Shape, Untouched
  <2>6. Chained(e)'
    <3>1. written[Peer[e]] \in Nat
      BY <1>1, FlightType, PeerFacts
    <3> QED
      BY <1>1, <1>2, <2>1, <3>1, EmptyFacts DEF Chained, Following
  <2>7. Shaking(e)'
    BY <1>1, <1>2, <2>1, <2>4 DEF Shaking
  <2>8. Calling(e)'
    <3>1. flights'[e] # Flights => flights'[e] < Flights
      BY <1>1, <2>1, <2>2
    <3> QED
      BY <1>2, <2>4, <3>1 DEF Calling
  <2> QED
    BY <1>1, <1>3, <2>3, <2>4, <2>5, <2>6, <2>7, <2>8 DEF Link
<1> QED
  BY <1>4, <1>5

\* Units of records arrive in order: what the end holds is what comes next.
LEMMA ArrivalOrder ==
  ASSUME IInv, NEW e \in Ends, call[e].op \in {"read", "full"},
         NEW k \in Nat, k >= 1, k <= Len(wire[Peer[e]]),
         NEW all, all = held[e] \o First(wire[Peer[e]], k),
         \A i \in 1..k : all[Len(held[e]) + i].byte = next[e] + i - 1
  PROVE  /\ all \in Seq(Unit) /\ Following(all, Len(got[e]))
         /\ next[e] + k = Len(got[e]) + Len(all) + 1
         /\ Len(got[e]) + Len(all) <= written[Peer[e]]
<1> DEFINE h == held[e]
           p == First(wire[Peer[e]], k)
           g == Len(got[e])
<1>1. /\ Shape /\ Link(e) /\ Sound(e) /\ buffer[e] = <<>> /\ Peer[e] \in Ends
      /\ h \in Seq(Unit) /\ Len(h) \in Nat /\ g \in Nat
      /\ wire[Peer[e]] \in Seq(Unit) /\ written[Peer[e]] \in Nat
      /\ Sendable(wire[Peer[e]], written[Peer[e]])
  BY PeerFacts, FlightType DEF IInv, Link, Calling, OnWire
<1>2. /\ next[e] = g + Len(buffer[e]) + Len(h) + 1
      /\ Following(h, g + Len(buffer[e]))
  BY <1>1 DEF Link, Chained
<1>3. next[e] = g + Len(h) + 1 /\ Following(h, g)
  <2>1. Len(buffer[e]) = 0 /\ g + 0 = g
    BY <1>1, EmptyFacts
  <2> QED
    BY <1>1, <1>2, <2>1
<1>4. k \in 0..Len(wire[Peer[e]])
  BY <1>1
<1>5. p \in Seq(Unit) /\ Len(p) = k
  BY <1>1, <1>4, CutFacts
<1>6. Sendable(p, written[Peer[e]])
  BY <1>1, SendableFacts
<1>7. all = h \o p
  OBVIOUS
<1> HIDE DEF h, p, g
<1>8. /\ all \in Seq(Unit) /\ Len(all) = Len(h) + k
      /\ \A i \in 1..Len(h) : all[i] = h[i]
      /\ \A i \in 1..k : all[Len(h) + i] = p[i]
  <2>1. /\ h \o p \in Seq(Unit) /\ Len(h \o p) = Len(h) + Len(p)
        /\ \A i \in 1..Len(h) : (h \o p)[i] = h[i]
        /\ \A i \in 1..Len(p) : (h \o p)[Len(h) + i] = p[i]
    BY <1>1, <1>5, JoinUnits
  <2> QED
    BY <1>5, <1>7, <2>1
<1>9. \A i \in 1..k : all[Len(h) + i].byte = next[e] + i - 1
  BY DEF h
<1>10. Following(all, g)
  <2> SUFFICES ASSUME NEW i \in 1..Len(all) PROVE all[i].byte = g + i
    BY DEF Following
  <2>0. i \in Nat
    BY <1>1, <1>8
  <2>1. CASE i <= Len(h)
    <3>1. i \in 1..Len(h)
      BY <1>1, <1>8, <2>1
    <3> QED
      BY <1>3, <1>8, <3>1 DEF Following
  <2>2. CASE i > Len(h)
    <3>1. i - Len(h) \in 1..k /\ Len(h) + (i - Len(h)) = i /\ i \in Nat
      BY <1>1, <1>8, <2>2
    <3>2. all[i].byte = next[e] + (i - Len(h)) - 1
      BY <1>9, <3>1
    <3>3. \A x, y, z \in Nat : (x + y + 1) + (z - y) - 1 = x + z
      OBVIOUS
    <3> QED
      BY <1>1, <1>3, <3>1, <3>2, <3>3
  <2> QED
    BY <1>1, <2>0, <2>1, <2>2
<1>11. next[e] + k = g + Len(all) + 1
  <2>1. \A x, y, z \in Nat : (x + y + 1) + z = x + (y + z) + 1
    OBVIOUS
  <2> QED
    BY <1>1, <1>3, <1>8, <2>1
<1>12. g + Len(all) <= written[Peer[e]]
  <2>1. Len(h) + k \in 1..Len(all) /\ k \in 1..k /\ Len(all) = Len(h) + k
    BY <1>1, <1>8
  <2>2. all[Len(h) + k].byte = g + (Len(h) + k)
    BY <1>10, <2>1 DEF Following
  <2>3. all[Len(h) + k] = p[k]
    BY <1>8, <2>1
  <2>4. p[k].byte <= written[Peer[e]]
    BY <1>5, <1>6, <2>1 DEF Sendable
  <2> QED
    BY <2>1, <2>2, <2>3, <2>4
<1> QED
  BY <1>8, <1>10, <1>11, <1>12 DEF g

\* Records are decoded.
LEMMA UnwrapLink ==
  ASSUME IInv, NEW e \in Ends, call[e].op \in {"read", "full"},
         NEW all \in Seq(Unit), NEW c \in 0..Len(all), Unwrap(e, all, c),
         Following(all, Len(got[e])),
         next'[e] = Len(got[e]) + Len(all) + 1,
         Len(got[e]) + Len(all) <= written[Peer[e]],
         UNCHANGED <<sock, flights, written>>
  PROVE  /\ held' \in [Ends -> Seq(Unit)]
         /\ got' \in [Ends -> Seq(Nat)] /\ buffer' \in [Ends -> Seq(Nat)]
         /\ call' \in [Ends -> Call]
         /\ result' \in [Ends -> {"ok", "timeout", "errno", "herrno", "gss", "eof"}]
         /\ Link(e)' /\ call'[e].left = <<>>
         /\ \A f \in Ends \ {e} :
              /\ held'[f] = held[f] /\ got'[f] = got[f] /\ buffer'[f] = buffer[f]
              /\ call'[f] = call[f] /\ result'[f] = result[f]
<1> DEFINE room == call[e].size - call[e].total
           n == Smaller(room, c)
           g == got[e]
<1>1. /\ Shape /\ Link(e) /\ Sound(e) /\ buffer[e] = <<>> /\ Peer[e] \in Ends
      /\ call[e] \in Call /\ call[e].left = <<>> /\ call[e].total < call[e].size
      /\ call[e].size \in Nat /\ call[e].total \in Nat /\ written[Peer[e]] \in Nat
      /\ g \in Seq(Nat) /\ Len(g) \in Nat /\ Len(all) \in Nat
      /\ Numbered(g, 0)
  <2>1. Shape /\ Link(e) /\ Peer[e] \in Ends
    BY PeerFacts DEF IInv
  <2>2. /\ Sound(e) /\ buffer[e] = <<>> /\ call[e].left = <<>>
        /\ call[e].total < call[e].size /\ Numbered(g, 0)
    BY <2>1 DEF Link, Calling, Ordered
  <2>3. /\ call[e] \in Call /\ call[e].size \in Nat /\ call[e].total \in Nat
        /\ written[Peer[e]] \in Nat /\ g \in Seq(Nat)
    BY <2>1, FlightType
  <2> QED
    BY <2>1, <2>2, <2>3
<1>2. room \in Nat /\ c \in Nat /\ c <= Len(all) /\ n \in Nat /\ n <= c /\ n <= room
      /\ n \in {room, c}
  <2>1. room \in Nat /\ c \in Nat /\ c <= Len(all)
    BY <1>1
  <2> HIDE DEF room
  <2> QED
    BY <2>1, SmallerFacts
<1> HIDE DEF room, n
<1>3. held' = [held EXCEPT ![e] = After(all, c)]
  BY DEF Unwrap
<1>4. flights[e] = Flights /\ Flights \in Nat /\ sock[e] = "open"
  BY <1>1, StreamAssumption DEF Sound
<1>5. CASE /\ got' = [got EXCEPT ![e] = @ \o Bytes(First(all, n))]
           /\ buffer' = [buffer EXCEPT ![e] = Bytes(After(First(all, c), n))]
           /\ IF c > 0 /\ (call[e].op = "read" \/ n = room)
              THEN Return(e, "ok")
              ELSE /\ call' = [call EXCEPT ![e].total = @ + n]
                   /\ UNCHANGED result
  <2>1. n \in 0..c
    BY <1>2
  <2>2. /\ g \o Bytes(First(all, n)) \in Seq(Nat)
        /\ Bytes(After(First(all, c), n)) \in Seq(Nat) /\ After(all, c) \in Seq(Unit)
        /\ Len(g \o Bytes(First(all, n))) = Len(g) + n
        /\ Len(Bytes(After(First(all, c), n))) = c - n
        /\ Len(After(all, c)) = Len(all) - c
        /\ Numbered(g \o Bytes(First(all, n)), 0)
        /\ Numbered(Bytes(After(First(all, c), n)), Len(g) + n)
        /\ Following(After(all, c), Len(g) + c)
    BY <1>1, <2>1, SplitOrder
  <2>3. /\ got'[e] = g \o Bytes(First(all, n)) /\ held'[e] = After(all, c)
        /\ buffer'[e] = Bytes(After(First(all, c), n))
    BY <1>1, <1>3, <1>5 DEF Shape
  <2>4. /\ held' \in [Ends -> Seq(Unit)]
        /\ got' \in [Ends -> Seq(Nat)] /\ buffer' \in [Ends -> Seq(Nat)]
        /\ \A f \in Ends \ {e} :
             held'[f] = held[f] /\ got'[f] = got[f] /\ buffer'[f] = buffer[f]
    BY <1>1, <1>3, <1>5, <2>2 DEF Shape
  <2> HIDE DEF g
  <2>5. /\ Len(got'[e]) = Len(g) + n /\ Len(buffer'[e]) = c - n
        /\ Len(held'[e]) = Len(all) - c
        /\ Numbered(got'[e], 0) /\ Numbered(buffer'[e], Len(got'[e]))
        /\ Following(held'[e], Len(g) + c)
    BY <2>2, <2>3
  <2>6. Len(got'[e]) + Len(buffer'[e]) = Len(g) + c
    <3>1. \A x, y, z \in Nat : (x + y) + (z - y) = x + z
      OBVIOUS
    <3> QED
      BY <1>1, <1>2, <2>5, <3>1
  <2>7. Ordered(e)'
    <3>1. Len(g) + c <= written[Peer[e]]
      <4>1. \A x, y, z, w \in Nat : x + y <= w /\ z <= y => x + z <= w
        OBVIOUS
      <4> QED
        BY <1>1, <1>2, <4>1 DEF g
    <3>2. Len(got'[e]) + Len(buffer'[e]) <= written'[Peer[e]]
      BY <2>6, <3>1
    <3> QED
      BY <2>5, <3>2 DEF Ordered
  <2>8. Chained(e)'
    <3>1. next'[e] = (Len(got'[e]) + Len(buffer'[e])) + Len(held'[e]) + 1
      <4>1. \A x, y, z \in Nat : x + y + 1 = (x + z) + (y - z) + 1
        OBVIOUS
      <4>2. Len(g) + Len(all) + 1 = (Len(g) + c) + (Len(all) - c) + 1
        BY <1>1, <1>2, <4>1
      <4> QED
        BY <2>5, <2>6, <4>2 DEF g
    <3>2. Following(held'[e], Len(got'[e]) + Len(buffer'[e]))
      BY <2>5, <2>6
    <3>3. next'[e] <= written'[Peer[e]] + 1
      <4>1. \A x, y, w \in Nat : x + y <= w => x + y + 1 <= w + 1
        OBVIOUS
      <4> QED
        BY <1>1, <4>1 DEF g
    <3> QED
      BY <3>1, <3>2, <3>3 DEF Chained
  <2>9. /\ call' \in [Ends -> Call]
        /\ result' \in [Ends -> {"ok", "timeout", "errno", "herrno", "gss", "eof"}]
        /\ Calling(e)' /\ call'[e].left = <<>>
        /\ \A f \in Ends \ {e} : call'[f] = call[f] /\ result'[f] = result[f]
    <3>1. CASE c > 0 /\ (call[e].op = "read" \/ n = room)
      <4>1. Return(e, "ok")
        BY <1>5, <3>1
      <4>2. /\ call' \in [Ends -> Call]
            /\ result' \in [Ends -> {"ok", "timeout", "errno", "herrno", "gss", "eof"}]
        BY <1>1, <4>1, ReturnType
      <4>3. /\ \A f \in Ends \ {e} : call'[f] = call[f] /\ result'[f] = result[f]
            /\ call'[e] = NoCall
        BY <1>1, <4>1 DEF Return, Shape
      <4>4. call'[e].op = "none" /\ call'[e].left = <<>>
        BY <4>3, CallFacts
      <4> QED
        BY <1>4, <4>2, <4>3, <4>4 DEF Calling
    <3>2. CASE ~(c > 0 /\ (call[e].op = "read" \/ n = room))
      <4> DEFINE t == call[e].total + n
      <4>1. call' = [call EXCEPT ![e].total = t] /\ result' = result
        BY <1>5, <3>2
      <4>2. t \in Nat
        BY <1>1, <1>2
      <4>3. n = c /\ t < call[e].size
        <5>1. CASE c > 0
          <6>1. n # room /\ n = c /\ n < room
            BY <1>2, <3>2, <5>1
          <6> QED
            BY <1>1, <1>2, <6>1 DEF room
        <5>2. CASE ~(c > 0)
          <6>1. c = 0 /\ n = 0
            BY <1>2, <5>2
          <6> QED
            BY <1>1, <6>1
        <5> QED
          BY <5>1, <5>2
      <4> HIDE DEF t
      <4>4. /\ call'[e] = [call[e] EXCEPT !.total = t]
            /\ \A f \in Ends \ {e} : call'[f] = call[f] /\ result'[f] = result[f]
        BY <1>1, <4>1 DEF Shape
      <4>5. /\ call'[e] \in Call /\ call'[e].op = call[e].op /\ call'[e].left = <<>>
            /\ call'[e].total = t /\ call'[e].size = call[e].size
        BY <1>1, <4>2, <4>4 DEF Call
      <4>6. call' \in [Ends -> Call]
        BY <1>1, <4>1, <4>5 DEF Shape
      <4>7. result' \in [Ends -> {"ok", "timeout", "errno", "herrno", "gss", "eof"}]
        BY <1>1, <4>1 DEF Shape
      <4>8. buffer'[e] = <<>>
        <5>1. Len(buffer'[e]) = 0 /\ buffer'[e] \in Seq(Nat)
          BY <1>2, <2>4, <2>5, <4>3
        <5> QED
          BY <5>1, NoBytes
      <4>9. Sound(e)'
        BY <1>1, <4>1 DEF Sound
      <4>10. Calling(e)'
        BY <1>4, <4>3, <4>5, <4>8, <4>9 DEF Calling
      <4> QED
        BY <4>4, <4>5, <4>6, <4>7, <4>10
    <3> QED
      BY <3>1, <3>2
  <2>10. Shaking(e)'
    BY <1>4 DEF Shaking
  <2> QED
    BY <2>4, <2>7, <2>8, <2>9, <2>10 DEF Link
<1>6. CASE /\ buffer' = [buffer EXCEPT ![e] = <<>>]
           /\ Return(e, "errno")
           /\ UNCHANGED got
  <2>1. /\ call' \in [Ends -> Call]
        /\ result' \in [Ends -> {"ok", "timeout", "errno", "herrno", "gss", "eof"}]
    BY <1>1, <1>6, ReturnType
  <2>2. /\ \A f \in Ends \ {e} : call'[f] = call[f] /\ result'[f] = result[f]
        /\ call'[e] = NoCall /\ result'[e] = "errno"
    BY <1>1, <1>6 DEF Return, Shape
  <2>3. call'[e].op = "none" /\ call'[e].left = <<>>
    BY <2>2, CallFacts
  <2>4. After(all, c) \in Seq(Unit)
    BY CutFacts
  <2>5. /\ held' \in [Ends -> Seq(Unit)] /\ buffer' \in [Ends -> Seq(Nat)]
        /\ got' \in [Ends -> Seq(Nat)] /\ buffer'[e] = <<>>
        /\ \A f \in Ends \ {e} :
             held'[f] = held[f] /\ got'[f] = got[f] /\ buffer'[f] = buffer[f]
    BY <1>1, <1>3, <1>6, <2>4, EmptyFacts DEF Shape
  <2>6. Ordered(e)'
    <3>1. Ordered(e)
      BY <1>1 DEF Link
    <3> QED
      BY <1>1, <1>6, <2>5, <3>1 DEF Ordered
  <2>7. Chained(e)'
    BY <2>2 DEF Chained, Sound
  <2>8. Shaking(e)' /\ Calling(e)'
    BY <1>4, <2>3 DEF Shaking, Calling
  <2> QED
    BY <2>1, <2>2, <2>3, <2>5, <2>6, <2>7, <2>8 DEF Link
<1> QED
  BY <1>5, <1>6 DEF Unwrap, n, room

\* What a record's reader makes of the units that arrive.
LEMMA DataLink ==
  ASSUME IInv, NEW e \in Ends, NEW k \in Nat, k >= 1, k <= Len(wire[Peer[e]]),
         NEW all, all = held[e] \o First(wire[Peer[e]], k),
         ReceiveData(e, all, k), UNCHANGED <<sock, written>>
  PROVE  /\ held' \in [Ends -> Seq(Unit)] /\ next' \in [Ends -> Nat]
         /\ got' \in [Ends -> Seq(Nat)] /\ buffer' \in [Ends -> Seq(Nat)]
         /\ call' \in [Ends -> Call] /\ UNCHANGED flights
         /\ result' \in [Ends -> {"ok", "timeout", "errno", "herrno", "gss", "eof"}]
         /\ Link(e)' /\ call'[e].left = <<>>
         /\ \A f \in Ends \ {e} : Untouched(f)
<1>1. /\ Shape /\ Link(e) /\ call[e].op \in {"read", "full"} /\ UNCHANGED flights
      /\ next[e] \in Nat
  BY FlightType DEF IInv, ReceiveData
<1>2. CASE \A i \in 1..k : all[Len(held[e]) + i].byte = next[e] + i - 1
  <2>1. /\ all \in Seq(Unit) /\ Following(all, Len(got[e]))
        /\ next[e] + k = Len(got[e]) + Len(all) + 1
        /\ Len(got[e]) + Len(all) <= written[Peer[e]]
    BY <1>1, <1>2, ArrivalOrder
  <2>2. next' = [next EXCEPT ![e] = @ + k]
    BY <1>2 DEF ReceiveData
  <2>3. PICK c \in 0..Len(all) : Unwrap(e, all, c)
    BY <1>2 DEF ReceiveData
  <2>4. next' \in [Ends -> Nat] /\ next'[e] = next[e] + k
        /\ \A f \in Ends \ {e} : next'[f] = next[f]
    <3>1. next \in [Ends -> Nat]
      BY <1>1 DEF Shape
    <3>2. \A x, y \in Nat : x + y \in Nat
      OBVIOUS
    <3>3. next[e] + k \in Nat
      BY <1>1, <3>2
    <3> QED
      BY <2>2, <3>1, <3>3
  <2>5. next'[e] = Len(got[e]) + Len(all) + 1
    BY <2>1, <2>4
  <2>6. /\ held' \in [Ends -> Seq(Unit)]
        /\ got' \in [Ends -> Seq(Nat)] /\ buffer' \in [Ends -> Seq(Nat)]
        /\ call' \in [Ends -> Call]
        /\ result' \in [Ends -> {"ok", "timeout", "errno", "herrno", "gss", "eof"}]
        /\ Link(e)' /\ call'[e].left = <<>>
        /\ \A f \in Ends \ {e} :
             /\ held'[f] = held[f] /\ got'[f] = got[f] /\ buffer'[f] = buffer[f]
             /\ call'[f] = call[f] /\ result'[f] = result[f]
    BY <1>1, <2>1, <2>3, <2>5, UnwrapLink
  <2> QED
    BY <1>1, <2>4, <2>6 DEF Untouched
<1>3. CASE ~(\A i \in 1..k : all[Len(held[e]) + i].byte = next[e] + i - 1)
  <2>1. Return(e, "gss") /\ UNCHANGED <<held, next, buffer, got>>
    BY <1>3 DEF ReceiveData
  <2>2. /\ call' \in [Ends -> Call]
        /\ result' \in [Ends -> {"ok", "timeout", "errno", "herrno", "gss", "eof"}]
    BY <1>1, <2>1, ReturnType
  <2>3. /\ \A f \in Ends \ {e} : call'[f] = call[f] /\ result'[f] = result[f]
        /\ call'[e] = NoCall /\ result'[e] = "gss"
    BY <1>1, <2>1 DEF Return, Shape
  <2>4. call'[e].op = "none" /\ call'[e].left = <<>>
    BY <2>3, CallFacts
  <2>5. \A f \in Ends \ {e} : Untouched(f)
    BY <1>1, <2>1, <2>3 DEF Untouched
  <2>6. Ordered(e)'
    BY <1>1, <2>1 DEF Link, Ordered
  <2>7. Chained(e)'
    BY <2>3 DEF Chained, Sound
  <2>8. Shaking(e)' /\ Calling(e)'
    <3>1. flights[e] = Flights /\ Flights \in Nat /\ sock[e] = "open"
      BY <1>1, StreamAssumption DEF Link, Calling, Sound
    <3> QED
      BY <1>1, <2>4, <3>1 DEF Shaking, Calling
  <2> QED
    BY <1>1, <2>1, <2>2, <2>4, <2>5, <2>6, <2>7, <2>8 DEF Link, Shape
<1> QED
  BY <1>2, <1>3

LEMMA ReceiveInv ==
  ASSUME IInv, NEW e \in Ends, Receive(e)
  PROVE  IInv'
<1> DEFINE p == Peer[e]
<1>1. /\ Shape /\ Link(e) /\ call[e].left = <<>> /\ p \in Ends /\ p # e
      /\ wire[p] \in Seq(Unit) /\ Len(wire[p]) \in Nat /\ held[e] \in Seq(Unit)
      /\ written[p] \in Nat /\ Sendable(wire[p], written[p])
      /\ UNCHANGED <<sock, written, promised>>
  BY PeerFacts, FlightType DEF IInv, OnWire, Receive
<1>2. PICK k \in 1..Smaller(Chunk, Len(wire[p])) :
        LET all == held[e] \o First(wire[p], k)
        IN /\ wire' = [wire EXCEPT ![p] = After(@, k)]
           /\ ReceiveFlight(e, all) \/ ReceiveData(e, all, k)
  BY DEF Receive
<1>3. k \in Nat /\ k >= 1 /\ k <= Len(wire[p]) /\ k \in 0..Len(wire[p])
  <2>1. /\ Smaller(Chunk, Len(wire[p])) \in Nat
        /\ Smaller(Chunk, Len(wire[p])) <= Len(wire[p])
    BY <1>1, StreamAssumption, SmallerFacts
  <2> HIDE DEF p
  <2> QED
    BY <1>1, <2>1
<1> DEFINE all == held[e] \o First(wire[p], k)
<1>4. all \in Seq(Unit)
  <2>1. First(wire[p], k) \in Seq(Unit)
    BY <1>1, <1>3, CutFacts
  <2> QED
    BY <1>1, <2>1, JoinUnits
<1>5. /\ wire' = [wire EXCEPT ![p] = After(@, k)]
      /\ ReceiveFlight(e, all) \/ ReceiveData(e, all, k)
  BY <1>2
<1>6. After(wire[p], k) \in Seq(Unit) /\ Sendable(After(wire[p], k), written[p])
  BY <1>1, <1>3, CutFacts, SendableFacts
<1>7. /\ wire' \in [Ends -> Seq(Unit)] /\ wire'[p] = After(wire[p], k)
      /\ wire'[e] = wire[e] /\ \A f \in Ends : f \in {e, p}
  BY <1>1, <1>5, <1>6 DEF Shape, Ends, Peer
<1>8. /\ Shape' /\ Link(e)' /\ call'[e].left \in {<<>>, Flight}
      /\ \A f \in Ends \ {e} : Untouched(f)
  <2>1. CASE ReceiveFlight(e, all)
    <3> HIDE DEF all
    <3>1. /\ call' \in [Ends -> Call] /\ held' \in [Ends -> Seq(Unit)]
          /\ result' \in [Ends -> {"ok", "timeout", "errno", "herrno", "gss", "eof"}]
          /\ flights' \in [Ends -> 0..Flights]
          /\ UNCHANGED <<buffer, next, got>>
          /\ Link(e)' /\ call'[e].left \in {<<>>, Flight}
          /\ \A f \in Ends \ {e} : Untouched(f)
      BY <1>1, <1>4, <2>1, FlightLink
    <3>2. Shape'
      BY <1>1, <1>7, <3>1 DEF Shape
    <3> QED
      BY <3>1, <3>2
  <2>2. CASE ReceiveData(e, all, k)
    <3>1. all = held[e] \o First(wire[Peer[e]], k)
      OBVIOUS
    <3> HIDE DEF all
    <3>2. /\ held' \in [Ends -> Seq(Unit)] /\ next' \in [Ends -> Nat]
          /\ got' \in [Ends -> Seq(Nat)] /\ buffer' \in [Ends -> Seq(Nat)]
          /\ call' \in [Ends -> Call] /\ UNCHANGED flights
          /\ result' \in [Ends -> {"ok", "timeout", "errno", "herrno", "gss", "eof"}]
          /\ Link(e)' /\ call'[e].left = <<>>
          /\ \A f \in Ends \ {e} : Untouched(f)
      BY <1>1, <1>3, <2>2, <3>1, DataLink
    <3>3. Shape'
      BY <1>1, <1>7, <3>2 DEF Shape
    <3> QED
      BY <3>2, <3>3
  <2> QED
    BY <1>5, <2>1, <2>2
<1> HIDE DEF p, all
<1>9. \A f \in Ends : written'[f] >= written[f] /\ written[f] \in Nat
  BY <1>1, FlightType
<1>10. OnWire(p)'
  <2>1. call'[p] = call[p]
    BY <1>1, <1>8 DEF Untouched
  <2>2. Sendable(call[p].left, written[p])
    BY <1>1 DEF IInv, OnWire
  <2> QED
    BY <1>1, <1>6, <1>7, <2>1, <2>2 DEF OnWire
<1>11. OnWire(e)'
  <2>1. Sendable(wire[e], written[e])
    BY DEF IInv, OnWire
  <2> QED
    BY <1>1, <1>7, <1>8, <1>9, <2>1, SendableFacts DEF OnWire
<1> QED
  BY <1>7, <1>8, <1>9, <1>10, <1>11, Combine

--------------------------------------------------------------------------------
(* The theorems. *)

\* The steps of the specification, as the lemmas take them.
LEMMA NextCases ==
  ASSUME [Next]_vars
  PROVE  \/ UNCHANGED vars \/ Tick \/ Dials \/ Dialled \/ Accept
         \/ \E e \in Ends : \/ Caller(e) \/ Failing(e) \/ Kill(e)
                            \/ Send(e) \/ SendInVain(e) \/ Receive(e)
<1>1. Connect \/ LookUp \/ Resolved \/ LookUpFails \/ Refused => Dials
  BY DEF Dials
<1>2. DialExpires => Dials
  BY DEF Dials, DialExpires
<1>3. ASSUME NEW e \in Ends, Step(e)
      PROVE  \/ Dials \/ Dialled
             \/ Failing(e) \/ Send(e) \/ SendInVain(e) \/ Receive(e)
  BY <1>1, <1>2, <1>3 DEF Step, Dialling, Failing
<1>4. ASSUME NEW e \in Ends, Interrupted(e) PROVE Dials \/ Failing(e)
  BY <1>4 DEF Interrupted, Dials, Failing
<1> QED
  BY <1>1, <1>3, <1>4 DEF Next

LEMMA NextInv == IInv /\ [Next]_vars => IInv'
<1> SUFFICES ASSUME IInv, [Next]_vars PROVE IInv'
  OBVIOUS
<1>1. CASE UNCHANGED vars
  <2>1. Shape'
    BY <1>1 DEF IInv, Shape, vars
  <2> QED
    BY <1>1, <2>1, SameInv DEF vars, Untouched
<1>2. CASE Tick \/ Dials \/ Dialled \/ Accept
  BY <1>2, TickInv, DialsInv, DialledInv, AcceptInv
<1>3. ASSUME NEW e \in Ends, Caller(e) PROVE IInv'
  BY <1>3, SetTimeoutInv, WriteInv, ReadInv, ReadFullInv, UnreadInv, CloseInv DEF Caller
<1>4. ASSUME NEW e \in Ends, Failing(e) \/ Kill(e) PROVE IInv'
  BY <1>4, FailingInv, KillInv
<1>5. ASSUME NEW e \in Ends, Send(e) \/ SendInVain(e) \/ Receive(e) PROVE IInv'
  BY <1>5, SendInv, SendInVainInv, ReceiveInv
<1> QED
  BY <1>1, <1>2, <1>3, <1>4, <1>5, NextCases

\* The types of the times.
Times == timeout \in [Ends -> Int] /\ spent \in [Ends -> Nat]

LEMMA LeftFacts ==
  ASSUME Times, NEW e \in Ends
  PROVE  Left(e) \in Nat /\ timeout[e] \in Int /\ spent[e] \in Nat
<1>1. timeout[e] \in Int /\ spent[e] \in Nat
  BY DEF Times
<1> QED
  BY <1>1 DEF Left

\* What is left to an end is set to t.
LEMMA TimesSet ==
  ASSUME IInv, Times, TimeoutValid, NEW e \in Ends, NEW t \in Int,
         timeout' = [timeout EXCEPT ![e] = t],
         spent' = spent \/ spent' = [spent EXCEPT ![e] = 0],
         \A f \in Ends \ {e} : flights'[f] = flights[f],
         t < 0 => e = "client" /\ flights'[e] < Flights
  PROVE  Times' /\ TimeoutValid'
<1>1. Times'
  BY DEF Times
<1>2. ASSUME NEW f \in Ends, timeout'[f] < 0
      PROVE  f = "client" /\ flights'[f] < Flights
  <2>1. CASE f = e
    BY <1>2, <2>1 DEF Times
  <2>2. CASE f # e
    BY <1>2, <2>2 DEF Times, TimeoutValid
  <2> QED
    BY <2>1, <2>2
<1> QED
  BY <1>1, <1>2 DEF TimeoutValid

LEMMA WaitedTimes ==
  ASSUME IInv, Times, TimeoutValid, NEW e \in Ends,
         \/ WaitedForToken(e) /\ \A f \in Ends \ {e} : flights'[f] = flights[f]
         \/ WaitedForNothing(e) /\ UNCHANGED flights
         \/ WaitedToDial(e) /\ UNCHANGED flights /\ e = "client" /\ flights[e] < Flights
  PROVE  Times' /\ TimeoutValid'
<1>1. Left(e) \in Nat /\ timeout[e] \in Int /\ spent[e] \in Nat
  BY LeftFacts
<1>2. CASE WaitedForToken(e) /\ \A f \in Ends \ {e} : flights'[f] = flights[f]
  <2>1. /\ timeout' = [timeout EXCEPT ![e] = Left(e)]
        /\ spent' = [spent EXCEPT ![e] = 0]
    BY <1>2 DEF WaitedForToken
  <2>2. Left(e) \in Int /\ ~(Left(e) < 0)
    BY <1>1
  <2> QED
    BY <1>2, <2>1, <2>2, TimesSet
<1>3. CASE WaitedForNothing(e) /\ UNCHANGED flights
  <2>1. timeout' = [timeout EXCEPT ![e] = timeout[e]] /\ spent' = [spent EXCEPT ![e] = 0]
    BY <1>3 DEF WaitedForNothing, Times
  <2>2. timeout[e] < 0 => e = "client" /\ flights'[e] < Flights
    BY <1>3 DEF TimeoutValid
  <2> QED
    BY <1>1, <1>3, <2>1, <2>2, TimesSet
<1>4. CASE WaitedToDial(e) /\ UNCHANGED flights /\ e = "client" /\ flights[e] < Flights
  <2>1. /\ timeout' = [timeout EXCEPT ![e] = timeout[e] - spent[e]]
        /\ spent' = [spent EXCEPT ![e] = 0]
    BY <1>4 DEF WaitedToDial, Times
  <2>2. timeout[e] - spent[e] \in Int
    BY <1>1
  <2> QED
    BY <1>4, <2>1, <2>2, TimesSet
<1> QED
  BY <1>2, <1>3, <1>4

LEMMA TimesStep ==
  ASSUME IInv, Times, TimeoutValid, [Next]_vars
  PROVE  Times' /\ TimeoutValid'
<1>0. Shape /\ "client" \in Ends
  BY DEF IInv, Ends
<1>1. ASSUME UNCHANGED <<times, flights>> PROVE Times' /\ TimeoutValid'
  BY <1>1 DEF Times, TimeoutValid, times
<1>2. CASE Tick
  <2>1. spent' \in [Ends -> Nat]
    BY <1>2 DEF Tick, Times
  <2> QED
    BY <1>2, <2>1 DEF Tick, Times, TimeoutValid
<1>3. CASE Dials \/ Dialled
  <2>1. flights["client"] < Flights /\ UNCHANGED flights
    BY <1>0, <1>3, DialFacts DEF Dialled, IInv, Link, Calling
  <2>2. CASE Connect
    BY <1>1, <2>1, <2>2 DEF Connect
  <2>3. CASE LookUp \/ Refused \/ Dialled
    BY <1>0, <2>1, <2>3, WaitedTimes DEF LookUp, Refused, Dialled
  <2>4. CASE Resolved \/ LookUpFails \/ \E r \in {"timeout", "errno"} : HangUp(r)
    BY <1>0, <2>1, <2>4, WaitedTimes DEF Resolved, LookUpFails, HangUp
  <2> QED
    BY <1>3, <2>2, <2>3, <2>4 DEF Dials
<1>4. ASSUME NEW e \in Ends, NEW t \in Timeouts, SetTimeout(e, t)
      PROVE  Times' /\ TimeoutValid'
  <2>1. t \in Int /\ ~(t < 0)
    BY StreamAssumption
  <2>2. timeout' = [timeout EXCEPT ![e] = t] /\ spent' = spent /\ flights' = flights
    BY <1>4 DEF SetTimeout
  <2> QED
    BY <2>1, <2>2, TimesSet
<1>5. ASSUME NEW e \in Ends, NEW n \in Sizes,
             Close(e) \/ Write(e, n) \/ Read(e, n) \/ ReadFull(e, n) \/ Unread(e, n)
      PROVE  UNCHANGED <<times, flights>>
  BY <1>5 DEF Close, Write, Read, ReadFull, Unread
<1>6. ASSUME NEW e \in Ends, Close(e) PROVE UNCHANGED <<times, flights>>
  BY <1>6 DEF Close
<1>7. ASSUME NEW e \in Ends, Failing(e) \/ Kill(e) PROVE Times' /\ TimeoutValid'
  <2>1. UNCHANGED flights
    BY <1>7 DEF Failing, SendFails, ReceiveEnd, Expire, Invalid, Kill, Fail
  <2>2. WaitedForToken(e) \/ WaitedForNothing(e)
    BY <1>7 DEF Failing, SendFails, ReceiveEnd, Expire, Invalid, Kill
  <2> QED
    BY <2>1, <2>2, WaitedTimes
<1>8. ASSUME NEW e \in Ends, Send(e) \/ SendInVain(e) PROVE Times' /\ TimeoutValid'
  <2>1. \/ UNCHANGED <<times, flights>>
        \/ Sent(e) /\ WaitedForToken(e)
    BY <1>8 DEF Send, SendInVain
  <2>2. ASSUME Sent(e) PROVE \A f \in Ends \ {e} : flights'[f] = flights[f]
    BY <1>0, <2>2 DEF Sent, Shape
  <2> QED
    BY <1>1, <2>1, <2>2, WaitedTimes
<1>9. ASSUME NEW e \in Ends, Receive(e) PROVE Times' /\ TimeoutValid'
  <2>1. WaitedForToken(e) /\ \E all, k : ReceiveFlight(e, all) \/ ReceiveData(e, all, k)
    BY <1>9 DEF Receive
  <2>2. \A f \in Ends \ {e} : flights'[f] = flights[f]
    BY <1>0, <2>1 DEF ReceiveFlight, ReceiveData, Shape
  <2> QED
    BY <2>1, <2>2, WaitedTimes
<1>10. CASE UNCHANGED vars \/ Accept
  BY <1>1, <1>10 DEF vars, Accept, times
<1> QED
  BY <1>1, <1>2, <1>3, <1>4, <1>5, <1>6, <1>7, <1>8, <1>9, <1>10, NextCases DEF Caller

LEMMA InitTimes == Init => Times /\ TimeoutValid
  BY DEF Init, Times, TimeoutValid

(***************************************************************************)
(* Every variable keeps its type.                                          *)
(***************************************************************************)
THEOREM TypeCorrect == Spec => []TypeOK
<1>1. IInv /\ Times => TypeOK
  BY DEF IInv, Shape, Times, TypeOK, Results
<1>2. IInv /\ Times /\ TimeoutValid /\ [Next]_vars => IInv' /\ Times' /\ TimeoutValid'
  BY NextInv, TimesStep
<1> QED
  BY <1>1, <1>2, InitInv, InitTimes, PTL DEF Spec

(***************************************************************************)
(* For any timeouts, and however late a process runs again: what is left   *)
(* of a timeout is negative only while the client connects, so that        *)
(* select() accepts it in every call on a connection that stands           *)
(* (glite_gss.c:64-74, 308-310, 376-383, 449-457).                         *)
(***************************************************************************)
THEOREM TimeoutsValid == Spec => []TimeoutValid
<1>1. IInv /\ Times /\ TimeoutValid /\ [Next]_vars => IInv' /\ Times' /\ TimeoutValid'
  BY NextInv, TimesStep
<1> QED
  BY <1>1, InitInv, InitTimes, PTL DEF Spec

(***************************************************************************)
(* For any number of handshake tokens, sizes of records, buffers and       *)
(* sockets, and whatever fails when: the bytes a caller has been given and *)
(* those kept for its next reads are the first the other end wrote, in     *)
(* order and each once (glite_gss.c:940-985, 1005-1023, 1541-1548).        *)
(***************************************************************************)
THEOREM BytesInOrder == Spec => []InOrder
<1>1. IInv => InOrder
  <2> SUFFICES ASSUME IInv, NEW e \in Ends
               PROVE  \A i \in 1..Len(got[e] \o buffer[e]) : (got[e] \o buffer[e])[i] = i
    BY DEF InOrder
  <2> DEFINE g == got[e]
             b == buffer[e]
  <2>1. /\ g \in Seq(Nat) /\ b \in Seq(Nat) /\ Numbered(g, 0) /\ Numbered(b, Len(g))
        /\ Len(g) \in Nat /\ Len(b) \in Nat
    <3>1. g \in Seq(Nat) /\ b \in Seq(Nat)
      BY FlightType DEF IInv
    <3>2. Numbered(g, 0) /\ Numbered(b, Len(g))
      BY DEF IInv, Link, Ordered
    <3> QED
      BY <3>1, <3>2
  <2> HIDE DEF g, b
  <2>2. /\ Len(g \o b) = Len(g) + Len(b)
        /\ \A i \in 1..Len(g) : (g \o b)[i] = g[i]
        /\ \A i \in 1..Len(b) : (g \o b)[Len(g) + i] = b[i]
    BY <2>1, JoinBytes
  <2>3. ASSUME NEW i \in 1..Len(g \o b) PROVE (g \o b)[i] = i
    <3>0. i \in Nat
      BY <2>1, <2>2
    <3>1. CASE i <= Len(g)
      <4>1. i \in 1..Len(g)
        BY <2>1, <2>2, <3>1
      <4> QED
        BY <2>1, <2>2, <4>1 DEF Numbered
    <3>2. CASE i > Len(g)
      <4>1. i - Len(g) \in 1..Len(b) /\ Len(g) + (i - Len(g)) = i
        BY <2>1, <2>2, <3>2
      <4> QED
        BY <2>1, <2>2, <4>1 DEF Numbered
    <3> QED
      BY <2>1, <3>0, <3>1, <3>2
  <2> QED
    BY <2>3 DEF g, b
<1> QED
  BY <1>1, InitInv, NextInv, PTL DEF Spec

\* The bytes an end has written, of which its peer holds the first.
LEMMA HeldAreFirst ==
  ASSUME IInv, NEW e \in Ends
  PROVE  /\ got[e] \in Seq(Nat) /\ Numbered(got[e], 0)
         /\ Len(got[e]) <= written[Peer[e]] /\ written[Peer[e]] \in Nat
<1>1. /\ got[e] \in Seq(Nat) /\ Len(got[e]) \in Nat /\ Len(buffer[e]) \in Nat
      /\ written[Peer[e]] \in Nat
  <2>1. got[e] \in Seq(Nat) /\ buffer[e] \in Seq(Nat) /\ written[Peer[e]] \in Nat
    BY PeerFacts, FlightType DEF IInv
  <2> QED
    BY <2>1
<1>2. Numbered(got[e], 0) /\ Len(got[e]) + Len(buffer[e]) <= written[Peer[e]]
  BY DEF IInv, Link, Ordered
<1>3. \A x, y, z \in Nat : x + y <= z => x <= z
  OBVIOUS
<1> QED
  BY <1>1, <1>2, <1>3

\* A step gives no end anything, or gives to one end what comes next, or takes
\* back what it was given last; and only writes write.
LEMMA HistorySteps ==
  ASSUME IInv, IInv', [Next]_vars
  PROVE  \/ UNCHANGED <<written, got>>
         \/ \E e \in Ends : /\ UNCHANGED got
                            /\ written' = [written EXCEPT ![e] = written'[e]]
                            /\ written'[e] >= written[e]
         \/ \E e \in Ends : /\ UNCHANGED written
                            /\ got' = [got EXCEPT ![e] = got'[e]]
<1>1. CASE UNCHANGED vars
  BY <1>1 DEF vars
<1>2. CASE Tick \/ Dials \/ Dialled \/ Accept
  BY <1>2, DialFacts DEF Dialled, Accept, Tick, history
<1>3. ASSUME NEW e \in Ends, \E t \in Timeouts : SetTimeout(e, t) PROVE UNCHANGED <<written, got>>
  BY <1>3 DEF SetTimeout, history
<1>4. ASSUME NEW e \in Ends, NEW n \in Sizes, Write(e, n)
      PROVE  /\ UNCHANGED got
             /\ written' = [written EXCEPT ![e] = written'[e]]
             /\ written'[e] >= written[e]
  <2>1. written \in [Ends -> Nat] /\ n \in Nat /\ written[e] \in Nat
    BY StreamAssumption DEF IInv, Shape
  <2>2. written' = [written EXCEPT ![e] = written[e] + n] /\ UNCHANGED got
    BY <1>4 DEF Write
  <2>3. written'[e] = written[e] + n
    BY <2>1, <2>2
  <2> QED
    BY <2>1, <2>2, <2>3
<1>5. ASSUME NEW e \in Ends, NEW n \in Sizes, Read(e, n) \/ ReadFull(e, n) \/ Unread(e, n)
      PROVE  UNCHANGED written /\ got' = [got EXCEPT ![e] = got'[e]]
  <2>1. got \in [Ends -> Seq(Nat)]
    BY DEF IInv, Shape
  <2> QED
    BY <1>5, <2>1 DEF Read, ReadFull, Unread, Serve
<1>6. ASSUME NEW e \in Ends, Close(e) \/ Kill(e) PROVE UNCHANGED <<written, got>>
  BY <1>6 DEF Close, Kill, history
<1>7. ASSUME NEW e \in Ends, Send(e) \/ SendInVain(e)
      PROVE  UNCHANGED <<written, got>>
  BY <1>7 DEF Send, SendInVain, history
<1>8. ASSUME NEW e \in Ends, Failing(e)
      PROVE  UNCHANGED <<written, got>>
  BY <1>8 DEF Failing, SendFails, ReceiveEnd, Expire, Invalid, Fail, history
<1>9. ASSUME NEW e \in Ends, Receive(e)
      PROVE  UNCHANGED written /\ got' = [got EXCEPT ![e] = got'[e]]
  <2>1. got \in [Ends -> Seq(Nat)]
    BY DEF IInv, Shape
  <2>2. UNCHANGED written
    BY <1>9 DEF Receive
  <2>3. \E all, k : ReceiveFlight(e, all) \/ ReceiveData(e, all, k)
    BY <1>9 DEF Receive
  <2>4. UNCHANGED got \/ \E g : got' = [got EXCEPT ![e] = g]
    BY <2>3 DEF ReceiveFlight, ReceiveData, Unwrap
  <2> QED
    BY <2>1, <2>2, <2>4
<1> QED
  BY <1>1, <1>2, <1>3, <1>4, <1>5, <1>6, <1>7, <1>8, <1>9, NextCases DEF Caller

\* Of two sequences of numbered bytes the shorter begins the longer.
LEMMA BeginFacts ==
  ASSUME NEW s \in Seq(Nat), NEW t \in Seq(Nat), Numbered(s, 0), Numbered(t, 0),
         Len(s) <= Len(t)
  PROVE  Stream!Begins(s, t)
  BY DEF Stream!Begins, Numbered

LEMMA CountFacts ==
  ASSUME NEW n \in Nat
  PROVE  /\ [i \in 1..n |-> i] \in Seq(Nat) /\ Len([i \in 1..n |-> i]) = n
         /\ Numbered([i \in 1..n |-> i], 0)
  BY DEF Numbered

(***************************************************************************)
(* The wrapper implements an ordered stream of bytes: every write adds     *)
(* bytes behind those written before, every read gives a caller bytes that *)
(* come next, an unread takes back the last ones, and nothing else         *)
(* happens to them (glite_gss.c:899-926, 930-1026, 1530-1551).             *)
(***************************************************************************)
THEOREM Implements == Spec => IsStream
<1> DEFINE sent == [e \in Ends |-> [i \in 1..written[e] |-> i]]
<1>1. Init => Stream!Init
  <2> SUFFICES ASSUME Init PROVE Stream!Init
    OBVIOUS
  <2>1. \A e \in Ends : [i \in 1..0 |-> i] = <<>>
    OBVIOUS
  <2>2. written = [e \in Ends |-> 0] /\ got = [e \in Ends |-> <<>>]
    BY DEF Init
  <2>3. sent = [e \in Ends |-> <<>>]
    BY <2>1, <2>2
  <2> QED
    BY <2>2, <2>3 DEF Stream!Init
<1>2. IInv /\ IInv' /\ [Next]_vars => [Stream!Next]_(Stream!svars)
  <2> SUFFICES ASSUME IInv, IInv', [Next]_vars
               PROVE  Stream!Next \/ UNCHANGED Stream!svars
    OBVIOUS
  <2>1. CASE UNCHANGED <<written, got>>
    BY <2>1 DEF Stream!svars
  <2>2. ASSUME NEW e \in Ends, UNCHANGED got,
               written' = [written EXCEPT ![e] = written'[e]],
               written'[e] >= written[e]
        PROVE  Stream!Next
    <3>1. written[e] \in Nat /\ written'[e] \in Nat /\ written \in [Ends -> Nat]
      BY DEF IInv, Shape
    <3>2. sent[e] = [i \in 1..written[e] |-> i] /\ sent'[e] = [i \in 1..written'[e] |-> i]
      OBVIOUS
    <3>3. Stream!Begins(sent[e], sent'[e])
      BY <2>2, <3>1, <3>2, CountFacts, BeginFacts
    <3>4. sent' = [sent EXCEPT ![e] = sent'[e]]
      BY <2>2, <3>1
    <3> QED
      BY <2>2, <3>3, <3>4 DEF Stream!Next, Stream!Send
  <2>3. ASSUME NEW e \in Ends, UNCHANGED written,
               got' = [got EXCEPT ![e] = got'[e]]
        PROVE  Stream!Next
    <3>1. /\ got[e] \in Seq(Nat) /\ Numbered(got[e], 0)
          /\ got'[e] \in Seq(Nat) /\ Numbered(got'[e], 0)
          /\ Len(got'[e]) <= written[Peer[e]] /\ written[Peer[e]] \in Nat
      <4>1. got[e] \in Seq(Nat) /\ Numbered(got[e], 0)
        BY HeldAreFirst
      <4>2. got'[e] \in Seq(Nat) /\ written[Peer[e]] \in Nat
        BY PeerFacts, FlightType DEF IInv, Shape
      <4>3. Link(e)' /\ buffer'[e] \in Seq(Nat)
        BY DEF IInv, Shape
      <4>4. /\ Numbered(got'[e], 0)
            /\ Len(got'[e]) + Len(buffer'[e]) <= written'[Peer[e]]
        <5>1. Peer' = Peer
          BY DEF Peer, Ends
        <5> QED
          BY <4>3, <5>1 DEF Link, Ordered
      <4>5. \A x, y, z \in Nat : x + y <= z => x <= z
        OBVIOUS
      <4>6. Len(got'[e]) \in Nat /\ Len(buffer'[e]) \in Nat
        BY <4>2, <4>3
      <4> QED
        BY <2>3, <4>1, <4>2, <4>4, <4>5, <4>6
    <3>2. Stream!Begins(got'[e], sent[Peer[e]])
      <4>1. sent[Peer[e]] = [i \in 1..written[Peer[e]] |-> i]
        BY PeerFacts
      <4> QED
        BY <3>1, <4>1, CountFacts, BeginFacts
    <3>3. CASE Len(got[e]) <= Len(got'[e])
      <4>1. Stream!Begins(got[e], got'[e])
        BY <3>1, <3>3, BeginFacts
      <4> QED
        BY <2>3, <3>2, <4>1 DEF Stream!Next, Stream!Give
    <3>4. CASE ~(Len(got[e]) <= Len(got'[e]))
      <4>1. Stream!Begins(got'[e], got[e])
        BY <3>1, <3>4, BeginFacts
      <4> QED
        BY <2>3, <4>1 DEF Stream!Next, Stream!PutBack
    <3> QED
      BY <3>3, <3>4
  <2> QED
    BY <2>1, <2>2, <2>3, HistorySteps
<1> QED
  BY <1>1, <1>2, InitInv, NextInv, PTL DEF Spec, IsStream, Stream!Spec

--------------------------------------------------------------------------------
(* The end of the file.  First the handshake: the ends take turns, and one    *)
(* that has the context knows that the other one will have it with what is    *)
(* on its way.                                                                *)

\* The client sends the tokens of even number, from 0 on.
Turn == [e \in Ends |-> IF e = "client" THEN 0 ELSE 1]

\* e has the next token of the handshake to send.
ToSend(e) == \/ call[e].op \in {"lookup", "dial"}
             \/ call[e].op = "shake" /\ call[e].left # <<>>

InTurn(e) ==
  /\ ToSend(e) => flights[e] = flights[Peer[e]] /\ flights[e] % 2 = Turn[e]
  /\ call[e].op = "shake" /\ call[e].left = <<>> => flights[e] % 2 # Turn[e]
  /\ flights[e] <= flights[Peer[e]] + 1
  /\ flights[e] = flights[Peer[e]] + 1 => flights[e] % 2 # Turn[e]

\* No more than one token of the handshake is on its way, and nothing is behind it.
OneToken(e) == flights[Peer[e]] < Flights =>
  \A i \in 1..Len(wire[e]) :
    wire[e][i].last => i = Len(wire[e]) /\ flights[e] = flights[Peer[e]] + 1

\* What is held is not complete, and what is left to send ends with the token.
Incomplete(units) == \A i \in 1..Len(units) : ~units[i].last
EndsToken(units) == \A i \in 1..Len(units) : units[i].last <=> i = Len(units)
Parts(e) == Incomplete(held[e]) /\ EndsToken(call[e].left)

\* No data before both ends have the context.
Begun(e) == /\ written[e] > 0 => flights[e] = Flights /\ flights[Peer[e]] = Flights
            /\ call[e].op = "write" => written[e] > 0

Fresh == /\ sock["client"] = "none" => sock["server"] = "none" /\ flights["client"] = 0
         /\ sock["server"] = "none" => flights["server"] = 0
         /\ call["server"].op \notin {"lookup", "dial"}

Shaken(e) == InTurn(e) /\ OneToken(e) /\ Parts(e) /\ Begun(e)
Handshake == Fresh /\ \A e \in Ends : Shaken(e)

\* Steps that move nothing between the ends.
Resting ==
  /\ UNCHANGED <<sock, wire, flights, held, next, written, promised>>
  /\ \A x \in Ends :
       /\ \/ call'[x].op = call[x].op /\ call'[x].left = call[x].left
          \/ /\ call'[x].op \in {"none", "read", "full"} /\ call'[x].left = <<>>
             /\ call[x].op # "none" \/ sock[x] = "open"
       /\ Sound(x)' => Sound(x)
       /\ result'[x] = "eof" =>
            /\ got'[x] = got[x]
            /\ \/ result[x] = "eof"
               \/ /\ call[x].op \in {"read", "full"}
                  /\ sock[Peer[x]] = "closed" /\ wire[Peer[x]] = <<>>

\* e closes its socket.
Leaving(e) ==
  /\ sock[e] # "none"
  /\ sock'[e] \in {"closed", "reset"} /\ sock'[Peer[e]] = sock[Peer[e]]
  /\ wire'[Peer[e]] = <<>> /\ wire'[e] = wire[e]
  /\ held'[e] = <<>> /\ held'[Peer[e]] = held[Peer[e]]
  /\ call'[e].op = "none" /\ call'[e].left = <<>> /\ call'[Peer[e]] = call[Peer[e]]
  /\ result'[Peer[e]] = result[Peer[e]]
  /\ result'[e] = "eof" =>
       result[e] = "eof" \/ (flights[e] < Flights /\ Gone(Peer[e]))
  /\ UNCHANGED <<flights, next, written, promised, got>>

\* There are two ends.
LEMMA BothEnds ==
  ASSUME NEW e \in Ends
  PROVE  /\ Peer[e] \in Ends /\ Peer[e] # e /\ Peer[Peer[e]] = e
         /\ \A x \in Ends : x = e \/ x = Peer[e]
  BY DEF Ends, Peer

\* A call that ends without closing the socket.
LEMMA FailRests ==
  ASSUME IInv, NEW e \in Ends, NEW r \in {"timeout", "errno", "eof"}, Fail(e, r),
         call[e].op \in {"write", "read", "full"},
         r = "eof" => /\ call[e].op \in {"read", "full"}
                      /\ sock[Peer[e]] = "closed" /\ wire[Peer[e]] = <<>>
  PROVE  Resting
<1>1. Shape /\ Sound(e)
  BY DEF IInv, Link, Calling
<1>2. /\ call' = [call EXCEPT ![e] = NoCall] /\ result' = [result EXCEPT ![e] = r]
      /\ UNCHANGED <<sock, wire, buffer, held>>
      /\ UNCHANGED <<flights, next, written, promised, got>>
  BY DEF Fail, Return, history
<1>3. /\ call'[e].op = "none" /\ call'[e].left = <<>> /\ result'[e] = r
      /\ \A f \in Ends \ {e} : call'[f] = call[f] /\ result'[f] = result[f]
  BY <1>1, <1>2, CallFacts DEF Shape
<1> QED
  BY <1>1, <1>2, <1>3 DEF Resting, Sound

\* What closing the socket leaves.
LEMMA ClosedLeaves ==
  ASSUME Shape, NEW e \in Ends, Closed(e),
         \/ call' = [call EXCEPT ![e] = NoCall]
         \/ call[e].op = "none" /\ call[e].left = <<>> /\ call' = call,
         \E r : result' = [result EXCEPT ![e] = r],
         sock[e] # "none",
         result'[e] = "eof" =>
           result[e] = "eof" \/ (flights[e] < Flights /\ Gone(Peer[e])),
         UNCHANGED <<flights, next, written, promised, got>>
  PROVE  Leaving(e)
<1>1. Peer[e] \in Ends /\ Peer[e] # e
  BY PeerFacts
<1>2. /\ sock'[e] \in {"closed", "reset"} /\ sock'[Peer[e]] = sock[Peer[e]]
      /\ wire'[Peer[e]] = <<>> /\ wire'[e] = wire[e]
      /\ held'[e] = <<>> /\ held'[Peer[e]] = held[Peer[e]]
  BY <1>1 DEF Closed, Shape
<1>3. /\ call'[e].op = "none" /\ call'[e].left = <<>> /\ call'[Peer[e]] = call[Peer[e]]
      /\ result'[Peer[e]] = result[Peer[e]]
  <2>1. CASE call' = [call EXCEPT ![e] = NoCall]
    <3>1. call'[e] = NoCall /\ call'[Peer[e]] = call[Peer[e]]
      BY <1>1, <2>1, CallSet
    <3>2. result'[Peer[e]] = result[Peer[e]]
      BY <1>1, ResultSet
    <3> QED
      BY <3>1, <3>2, CallFacts
  <2>2. CASE call[e].op = "none" /\ call[e].left = <<>> /\ call' = call
    BY <1>1, <2>2, ResultSet
  <2> QED
    BY <2>1, <2>2
<1> QED
  BY <1>2, <1>3 DEF Leaving

\* A call of the handshake that fails closes it.
LEMMA FailLeaves ==
  ASSUME IInv, NEW e \in Ends, NEW r \in {"timeout", "errno", "eof"}, Fail(e, r),
         call[e].op = "shake", r = "eof" => Gone(Peer[e])
  PROVE  Leaving(e)
<1>1. Shape /\ flights[e] < Flights /\ sock[e] # "none"
  BY DEF IInv, Link, Calling
<1>2. /\ call' = [call EXCEPT ![e] = NoCall] /\ result' = [result EXCEPT ![e] = r]
      /\ Closed(e)
      /\ UNCHANGED <<flights, next, written, promised, got>>
  BY <1>1 DEF Fail, Return, history
<1>3. result'[e] = r
  BY <1>1, <1>2 DEF Shape
<1> QED
  BY <1>1, <1>2, <1>3, ClosedLeaves

\* So do close() and the end of the process.
LEMMA GoingLeaves ==
  ASSUME IInv, NEW e \in Ends, Close(e) \/ Kill(e)
  PROVE  Leaving(e)
<1>1. Shape
  BY DEF IInv
<1>2. CASE Close(e)
  <2>1. /\ call[e].op = "none" /\ Closed(e)
        /\ UNCHANGED <<flights, next, call, result, written, promised, got>>
    BY <1>2 DEF Close, Busy, history
  <2>2. call[e].left = <<>> /\ sock[e] = "open"
    BY <1>2, <2>1 DEF IInv, Link, Calling, Close
  <2>3. result' = [result EXCEPT ![e] = result[e]]
    BY <1>1, <2>1 DEF Shape
  <2> QED
    BY <1>1, <2>1, <2>2, <2>3, ClosedLeaves
<1>3. CASE Kill(e)
  <2>1. /\ call' = [call EXCEPT ![e] = NoCall] /\ result' = [result EXCEPT ![e] = "errno"]
        /\ Closed(e)
        /\ UNCHANGED <<flights, next, written, promised, got>>
    BY <1>3 DEF Kill, history
  <2>2. result'[e] # "eof" /\ sock[e] = "open"
    BY <1>1, <1>3, <2>1 DEF Shape, Kill
  <2> QED
    BY <1>1, <2>1, <2>2, ClosedLeaves
<1> QED
  BY <1>2, <1>3

\* Every failing step is one or the other.
LEMMA FailingSteps ==
  ASSUME IInv, NEW e \in Ends, Failing(e)
  PROVE  Resting \/ Leaving(e)
<1>1. call[e].op \in {"shake", "write", "read", "full"}
  BY FailingCalls
<1>2. CASE ~ReceiveEnd(e)
  <2>1. \E r \in {"timeout", "errno"} : Fail(e, r)
    BY <1>2 DEF Failing, SendFails, Expire, Invalid
  <2> QED
    BY <1>1, <2>1, FailRests, FailLeaves
<1>3. CASE ReceiveEnd(e)
  <2>1. /\ Gone(Peer[e]) /\ call[e].op \in {"shake", "read", "full"}
        /\ \/ Fail(e, "eof") /\ sock[Peer[e]] = "closed" /\ wire[Peer[e]] = <<>>
           \/ Fail(e, "errno")
    BY <1>3 DEF ReceiveEnd
  <2> QED
    BY <1>1, <2>1, FailRests, FailLeaves
<1> QED
  BY <1>2, <1>3

\* Reading what is in the buffer, putting back, and the clock move nothing.
LEMMA RestingSteps ==
  ASSUME IInv,
         \/ UNCHANGED vars \/ Tick
         \/ \E e \in Ends : \/ \E t \in Timeouts : SetTimeout(e, t)
                            \/ \E n \in Sizes : Read(e, n) \/ ReadFull(e, n) \/ Unread(e, n)
  PROVE  Resting
<1>1. Shape
  BY DEF IInv
<1>2. CASE \/ UNCHANGED vars \/ Tick
           \/ \E e \in Ends : \E t \in Timeouts : SetTimeout(e, t)
  BY <1>2 DEF vars, Tick, SetTimeout, Resting, Sound, history
<1>3. ASSUME NEW e \in Ends, NEW n \in Sizes, Unread(e, n) PROVE Resting
  <2>1. /\ result[e] # "eof" /\ result' = result /\ call' = call
        /\ got' = [got EXCEPT ![e] = First(got[e], Len(got[e]) - n)]
        /\ UNCHANGED <<sock, wire, flights, held, next, written, promised>>
    BY <1>3 DEF Unread, Usable
  <2>2. \A x \in Ends \ {e} : got'[x] = got[x]
    BY <1>1, <2>1 DEF Shape
  <2> QED
    BY <2>1, <2>2 DEF Resting, Sound
<1>4. ASSUME NEW e \in Ends, NEW n \in Sizes, Read(e, n) \/ ReadFull(e, n) PROVE Resting
  <2>1. /\ Sound(e) /\ call[e].op = "none" /\ n \in Nat
        /\ UNCHANGED <<sock, wire, flights, held, next, written, promised>>
    BY <1>4, StreamAssumption DEF Read, ReadFull, Usable, Busy, Sound
  <2>2. Len(buffer[e]) \in Nat
    BY <1>1, FlightType
  <2>3. \/ Return(e, "ok")
        \/ /\ \E op \in {"read", "full"}, k \in Nat :
                call' = [call EXCEPT ![e] = Reading(op, n, k)]
           /\ UNCHANGED result
    BY <1>4, <2>2 DEF Read, ReadFull
  <2>4. \A x \in Ends \ {e} : got'[x] = got[x]
    BY <1>1, <1>4 DEF Read, ReadFull, Serve, Shape
  <2>5. /\ call'[e].op \in {"none", "read", "full"} /\ call'[e].left = <<>>
        /\ result'[e] \in {"ok", "timeout"}
        /\ \A x \in Ends \ {e} : call'[x] = call[x] /\ result'[x] = result[x]
    <3>1. CASE Return(e, "ok")
      <4>1. call'[e] = NoCall /\ \A x \in Ends \ {e} : call'[x] = call[x]
        BY <1>1, <3>1, CallSet DEF Return
      <4>2. result'[e] = "ok" /\ \A x \in Ends \ {e} : result'[x] = result[x]
        BY <1>1, <3>1, ResultSet DEF Return
      <4> QED
        BY <4>1, <4>2, CallFacts
    <3>2. ASSUME NEW op \in {"read", "full"}, NEW k \in Nat, UNCHANGED result,
                 call' = [call EXCEPT ![e] = Reading(op, n, k)]
          PROVE  /\ call'[e].op \in {"none", "read", "full"} /\ call'[e].left = <<>>
                 /\ result'[e] \in {"ok", "timeout"}
                 /\ \A x \in Ends \ {e} : call'[x] = call[x] /\ result'[x] = result[x]
      <4>1. /\ Reading(op, n, k).op \in {"none", "read", "full"}
            /\ Reading(op, n, k).left = <<>>
        BY <2>1, CallFacts
      <4> QED
        BY <1>1, <2>1, <3>2, <4>1, CallSet DEF Sound
    <3> QED
      BY <2>3, <3>1, <3>2
  <2> QED
    BY <2>1, <2>4, <2>5 DEF Resting, Sound
<1> QED
  BY <1>2, <1>3, <1>4

LEMMA TurnFacts ==
  /\ \A n \in Nat : n % 2 \in {0, 1} /\ (n + 1) % 2 # n % 2
  /\ \A e \in Ends : Turn[e] \in {0, 1} /\ Turn[Peer[e]] # Turn[e]
  /\ Turn["client"] = 0 /\ Turn["server"] = 1 /\ 0 % 2 = 0 /\ Flights % 2 = 0
<1>1. \A n \in Nat : n % 2 \in {0, 1} /\ (n + 1) % 2 # n % 2
  OBVIOUS
<1>2. \A e \in Ends : Turn[e] \in {0, 1} /\ Turn[Peer[e]] # Turn[e]
  BY DEF Turn, Ends, Peer
<1>3. Turn["client"] = 0 /\ Turn["server"] = 1 /\ 0 % 2 = 0 /\ Flights % 2 = 0
  BY StreamAssumption DEF Turn, Ends
<1> QED
  BY <1>1, <1>2, <1>3

\* What Handshake says of an end speaks of these alone.
LEMMA ShakenKept ==
  ASSUME NEW e \in Ends, Shaken(e), UNCHANGED <<flights, written>>,
         wire'[e] \in {wire[e], <<>>}, held'[e] \in {held[e], <<>>},
         \/ call'[e].op = call[e].op /\ call'[e].left = call[e].left
         \/ call'[e].op \in {"none", "read", "full"} /\ call'[e].left = <<>>
  PROVE  Shaken(e)'
<1>1. InTurn(e)'
  BY DEF Shaken, InTurn, ToSend, Turn, Peer, Ends
<1>2. OneToken(e)'
  <2>1. \A i \in 1..Len(<<>>) : FALSE
    OBVIOUS
  <2> QED
    BY <2>1 DEF Shaken, OneToken, Peer, Ends
<1>3. Parts(e)'
  <2>1. \A i \in 1..Len(<<>>) : FALSE
    OBVIOUS
  <2> QED
    BY <2>1 DEF Shaken, Parts, Incomplete, EndsToken
<1>4. Begun(e)'
  BY DEF Shaken, Begun, Peer, Ends
<1> QED
  BY <1>1, <1>2, <1>3, <1>4 DEF Shaken

LEMMA RestingHandshake ==
  ASSUME IInv, Handshake, Resting
  PROVE  Handshake'
<1>1. Fresh'
  BY DEF Handshake, Fresh, Resting, Ends
<1>2. ASSUME NEW e \in Ends PROVE Shaken(e)'
  <2>1. Shaken(e)
    BY DEF Handshake
  <2> QED
    BY <2>1, ShakenKept DEF Resting
<1> QED
  BY <1>1, <1>2 DEF Handshake

LEMMA LeavingHandshake ==
  ASSUME IInv, Handshake, NEW e \in Ends, Leaving(e)
  PROVE  Handshake'
<1>1. Peer[e] \in Ends /\ \A x \in Ends : x = e \/ x = Peer[e]
  BY BothEnds
<1>2. Fresh'
  BY DEF Handshake, Fresh, Leaving, Ends, Peer
<1>3. Shaken(e)' /\ Shaken(Peer[e])'
  BY <1>1, ShakenKept DEF Handshake, Leaving
<1> QED
  BY <1>1, <1>2, <1>3 DEF Handshake

\* Dialling, and what the tokens of the handshake look like.
LEMMA TokenEnds ==
  /\ EndsToken(<<>>) /\ EndsToken(Flight) /\ Incomplete(<<>>)
  /\ \A b \in Nat, n \in Nat \ {0} : EndsToken(Record(b, n))
<1>1. EndsToken(<<>>) /\ EndsToken(Flight) /\ Incomplete(<<>>)
  BY DEF EndsToken, Incomplete, Flight
<1>2. ASSUME NEW b \in Nat, NEW n \in Nat \ {0} PROVE EndsToken(Record(b, n))
  <2>1. Len(Record(b, n)) = n
    BY RecordFacts
  <2> QED
    BY <2>1 DEF EndsToken, Record
<1> QED
  BY <1>1, <1>2

\* An end enters a call.
LEMMA EnterShaken ==
  ASSUME IInv, Handshake, NEW e \in Ends, NEW c, call' = [call EXCEPT ![e] = c],
         EndsToken(c.left), UNCHANGED <<wire, flights, held>>,
         c.op \in {"lookup", "dial"} \/ (c.op = "shake" /\ c.left # <<>>) =>
           flights[e] = flights[Peer[e]] /\ flights[e] % 2 = Turn[e],
         c.op = "shake" /\ c.left = <<>> => flights[e] % 2 # Turn[e],
         c.op = "write" => written'[e] > 0,
         written'[e] > 0 => flights[e] = Flights /\ flights[Peer[e]] = Flights,
         \A f \in Ends \ {e} : written'[f] = written[f]
  PROVE  \A x \in Ends : Shaken(x)'
<1>1. /\ Peer[e] \in Ends /\ Peer[e] # e /\ \A x \in Ends : x = e \/ x = Peer[e]
      /\ Peer' = Peer /\ Turn' = Turn
  BY BothEnds DEF Peer, Turn, Ends
<1>2. call'[e] = c /\ call'[Peer[e]] = call[Peer[e]]
  BY <1>1, CallSet, ZenonT(30) DEF IInv
<1>3. InTurn(e)'
  BY <1>1, <1>2 DEF Handshake, Shaken, InTurn, ToSend
<1>4. OneToken(e)' /\ Parts(e)' /\ Begun(e)'
  BY <1>1, <1>2 DEF Handshake, Shaken, OneToken, Parts, Begun
<1>5. Shaken(Peer[e])'
  <2>1. Shaken(Peer[e])
    BY <1>1 DEF Handshake
  <2>2. InTurn(Peer[e])'
    BY <1>1, <1>2, <2>1 DEF Shaken, InTurn, ToSend
  <2>3. OneToken(Peer[e])' /\ Parts(Peer[e])' /\ Begun(Peer[e])'
    BY <1>1, <1>2, <2>1 DEF Shaken, OneToken, Parts, Begun
  <2> QED
    BY <2>2, <2>3 DEF Shaken
<1> QED
  BY <1>1, <1>3, <1>4, <1>5 DEF Shaken

LEMMA DialsHandshake ==
  ASSUME IInv, Handshake, Dials
  PROVE  Handshake'
<1>1. /\ Shape /\ "client" \in Ends /\ "server" \in Ends
      /\ Peer["client"] = "server" /\ Peer["server"] = "client"
      /\ Shaken("client") /\ Shaken("server") /\ Fresh
  BY DEF IInv, Ends, Peer, Handshake
<1>2. /\ sock' = sock \/ sock' = [sock EXCEPT !["client"] = "closed"]
      /\ call["client"].op \in {"lookup", "dial"} \/ sock["client"] = "none"
      /\ UNCHANGED <<wire, flights, held, written>>
  BY DialFacts
<1>3. /\ call'["server"] = call["server"]
      /\ \/ call'["client"] = call["client"]
         \/ call'["client"].op \in {"none", "lookup", "dial"} /\ call'["client"].left = <<>>
  BY <1>1, DialsCall
<1>4. sock'["server"] = sock["server"] /\ sock'["client"] \in {sock["client"], "closed"}
  BY <1>1, <1>2 DEF Shape
<1>5. Fresh'
  BY <1>1, <1>2, <1>3, <1>4 DEF Fresh
<1>6. Shaken("server")'
  BY <1>1, <1>2, <1>3, ShakenKept
<1>7. flights["client"] = flights["server"] /\ flights["client"] % 2 = Turn["client"]
  <2>1. CASE call["client"].op \in {"lookup", "dial"}
    BY <1>1, <2>1 DEF Shaken, InTurn, ToSend
  <2>2. CASE sock["client"] = "none"
    BY <1>1, <2>2, TurnFacts DEF Fresh
  <2> QED
    BY <1>2, <2>1, <2>2
<1>8. Shaken("client")'
  <2>1. CASE call'["client"] = call["client"]
    BY <1>1, <1>2, <2>1, ShakenKept
  <2>2. CASE call'["client"].op \in {"none", "lookup", "dial"} /\ call'["client"].left = <<>>
    <3>1. Peer' = Peer /\ Turn' = Turn
      BY DEF Peer, Turn, Ends
    <3>2. InTurn("client")'
      BY <1>1, <1>2, <1>7, <2>2, <3>1 DEF Shaken, InTurn, ToSend
    <3>3. OneToken("client")' /\ Parts("client")' /\ Begun("client")'
      BY <1>1, <1>2, <2>2, <3>1, TokenEnds DEF Shaken, OneToken, Parts, Begun
    <3> QED
      BY <3>2, <3>3 DEF Shaken
  <2> QED
    BY <1>3, <2>1, <2>2
<1> QED
  BY <1>5, <1>6, <1>8 DEF Handshake, Ends

LEMMA StartHandshake ==
  ASSUME IInv, Handshake, Dialled \/ Accept
  PROVE  Handshake'
<1>1. /\ Shape /\ "client" \in Ends /\ "server" \in Ends
      /\ Peer["client"] = "server" /\ Peer["server"] = "client"
  BY DEF IInv, Ends, Peer
<1>2. \A e \in Ends : written[e] > 0 => flights[e] = Flights /\ flights[Peer[e]] = Flights
  BY DEF Handshake, Shaken, Begun
<1>3. CASE Dialled
  <2>1. /\ call["client"].op = "dial" /\ sock' = [sock EXCEPT !["client"] = "open"]
        /\ call' = [call EXCEPT !["client"] = Sending("shake", Flight)]
        /\ UNCHANGED <<wire, flights, held, written>>
    BY <1>3 DEF Dialled, history
  <2>2. flights["client"] = flights["server"] /\ flights["client"] % 2 = Turn["client"]
    BY <1>1, <2>1 DEF Handshake, Shaken, InTurn, ToSend
  <2>3. Sending("shake", Flight).op = "shake" /\ Sending("shake", Flight).left = Flight
    BY DEF Sending
  <2>4. \A x \in Ends : Shaken(x)'
    BY <1>1, <1>2, <2>1, <2>2, <2>3, EnterShaken, TokenEnds, FlightFacts
  <2>5. call'["server"] = call["server"] /\ sock'["server"] = sock["server"]
        /\ sock'["client"] = "open"
    BY <1>1, <2>1, CallSet DEF Shape
  <2> QED
    BY <2>1, <2>4, <2>5 DEF Handshake, Fresh
<1>4. CASE Accept
  <2>1. /\ sock["server"] = "none" /\ sock["client"] # "none"
        /\ sock' = [sock EXCEPT !["server"] = "open"]
        /\ call' = [call EXCEPT !["server"] = Sending("shake", <<>>)]
        /\ UNCHANGED <<wire, flights, held, written>>
    BY <1>4 DEF Accept, history
  <2>2. flights["server"] = 0
    BY <2>1 DEF Handshake, Fresh
  <2>3. Sending("shake", <<>>).op = "shake" /\ Sending("shake", <<>>).left = <<>>
    BY DEF Sending
  <2>4. \A x \in Ends : Shaken(x)'
    <3> DEFINE c == Sending("shake", <<>>)
    <3>1. /\ c.op = "shake" /\ c.left = <<>> /\ EndsToken(c.left)
          /\ call' = [call EXCEPT !["server"] = c]
      BY <2>1, <2>3, TokenEnds
    <3>2. flights["server"] % 2 # Turn["server"]
      BY <2>2, TurnFacts
    <3> HIDE DEF c
    <3> QED
      BY <1>1, <1>2, <2>1, <2>2, <3>1, <3>2, EnterShaken
  <2>5. /\ call'["server"].op \notin {"lookup", "dial"} /\ sock'["client"] = sock["client"]
        /\ sock'["server"] = "open"
    BY <1>1, <2>1, <2>3, CallSet DEF Shape
  <2> QED
    BY <2>1, <2>4, <2>5 DEF Handshake, Fresh
<1> QED
  BY <1>3, <1>4

\* The client knows that the server has the context, and the server has been
\* asked something before it answers.
LEMMA WriteHandshake ==
  ASSUME IInv, Handshake, NEW e \in Ends, NEW n \in Sizes, Write(e, n)
  PROVE  Handshake'
<1>1. /\ call' = [call EXCEPT ![e] = Sending("write", Record(written[e], n))]
      /\ written' = [written EXCEPT ![e] = @ + n]
      /\ flights[e] = Flights /\ (e = "server" => got[e] # <<>>)
      /\ UNCHANGED <<sock, wire, flights, held>>
  BY DEF Write, Usable
<1>2. /\ Shape /\ n \in Nat \ {0} /\ written[e] \in Nat
      /\ flights[e] \in Nat /\ flights[Peer[e]] \in 0..Flights /\ Flights \in Nat
  BY PeerFacts, FlightType, StreamAssumption DEF IInv
<1>3. written'[e] = written[e] + n /\ \A f \in Ends \ {e} : written'[f] = written[f]
  BY <1>1, <1>2 DEF Shape
<1>4. flights[Peer[e]] = Flights
  <2>1. CASE e = "client"
    <3>1. /\ flights[e] <= flights[Peer[e]] + 1
          /\ flights[e] = flights[Peer[e]] + 1 => flights[e] % 2 # 0
      BY <2>1, TurnFacts DEF Handshake, Shaken, InTurn
    <3>2. Flights % 2 = 0
      BY TurnFacts
    <3> QED
      BY <1>1, <1>2, <3>1, <3>2
  <2>2. CASE e = "server"
    <3>1. written["client"] > 0
      <4>1. Len(got[e]) <= written[Peer[e]] /\ got[e] \in Seq(Nat) /\ written[Peer[e]] \in Nat
        BY HeldAreFirst
      <4>2. Peer[e] = "client"
        BY <2>2 DEF Peer, Ends
      <4>3. Len(got[e]) > 0
        BY <1>1, <2>2, <4>1
      <4> QED
        BY <4>1, <4>2, <4>3
    <3>2. flights["client"] = Flights
      BY <3>1 DEF Handshake, Shaken, Begun, Ends
    <3> QED
      BY <2>2, <3>2 DEF Peer, Ends
  <2> QED
    BY <2>1, <2>2 DEF Ends
<1>5. /\ Sending("write", Record(written[e], n)).op = "write"
      /\ Sending("write", Record(written[e], n)).left = Record(written[e], n)
  BY DEF Sending
<1>6. EndsToken(Record(written[e], n)) /\ written'[e] > 0
  BY <1>2, <1>3, TokenEnds
<1>7. \A x \in Ends : Shaken(x)'
  <2> DEFINE c == Sending("write", Record(written[e], n))
  <2>1. c.op = "write" /\ EndsToken(c.left) /\ call' = [call EXCEPT ![e] = c]
    BY <1>1, <1>5, <1>6
  <2> HIDE DEF c
  <2> QED
    BY <1>1, <1>3, <1>4, <1>6, <2>1, EnterShaken
<1>8. Fresh'
  <2>1. call'["server"].op \in {call["server"].op, "write"}
    BY <1>1, <1>2, <1>5, CallSet DEF Ends
  <2> QED
    BY <1>1, <2>1 DEF Handshake, Fresh
<1> QED
  BY <1>7, <1>8 DEF Handshake

--------------------------------------------------------------------------------
LEMMA CutEnds ==
  ASSUME NEW s \in Seq(Unit), NEW k \in Nat, k <= Len(s), EndsToken(s)
  PROVE  /\ EndsToken(After(s, k))
         /\ k < Len(s) => Incomplete(First(s, k)) /\ After(s, k) # <<>>
<1>1. /\ k \in 0..Len(s) /\ Len(s) \in Nat
      /\ \A i \in 1..Len(s) : s[i].last <=> i = Len(s)
  BY DEF EndsToken
<1>2. /\ Len(First(s, k)) = k /\ \A i \in 1..k : First(s, k)[i] = s[i]
      /\ Len(After(s, k)) = Len(s) - k
      /\ \A i \in 1..(Len(s) - k) : After(s, k)[i] = s[k + i]
  BY <1>1, CutFacts
<1>3. EndsToken(After(s, k))
  <2>1. \A i \in 1..(Len(s) - k) : /\ k + i \in 1..Len(s)
                                  /\ k + i = Len(s) <=> i = Len(s) - k
    BY <1>1
  <2> QED
    BY <1>1, <1>2, <2>1 DEF EndsToken
<1>4. ASSUME k < Len(s) PROVE Incomplete(First(s, k)) /\ After(s, k) # <<>>
  <2>1. \A i \in 1..k : i \in 1..Len(s) /\ i # Len(s)
    BY <1>1, <1>4
  <2>2. Len(After(s, k)) # 0
    BY <1>1, <1>2, <1>4
  <2> QED
    BY <1>1, <1>2, <2>1, <2>2, EmptyFacts DEF Incomplete
<1> QED
  BY <1>3, <1>4

LEMMA JoinEnds ==
  ASSUME NEW s \in Seq(Unit), NEW u \in Seq(Unit), Incomplete(s)
  PROVE  /\ s \o u \in Seq(Unit)
         /\ Incomplete(u) => Incomplete(s \o u)
         /\ EndsToken(u) =>
              \A i \in 1..Len(s \o u) : (s \o u)[i].last => i = Len(s \o u)
<1>1. /\ s \o u \in Seq(Unit) /\ Len(s \o u) = Len(s) + Len(u)
      /\ \A i \in 1..Len(s) : (s \o u)[i] = s[i]
      /\ \A i \in 1..Len(u) : (s \o u)[Len(s) + i] = u[i]
  BY JoinUnits
<1>2. Len(s) \in Nat /\ Len(u) \in Nat /\ \A i \in 1..Len(s) : ~s[i].last
  BY DEF Incomplete
<1>3. ASSUME NEW i \in 1..Len(s \o u), (s \o u)[i].last
      PROVE  \E j \in 1..Len(u) : i = Len(s) + j /\ u[j].last
  <2> DEFINE t == s \o u
  <2>1. /\ Len(t) = Len(s) + Len(u) /\ i \in 1..Len(t) /\ t[i].last
        /\ \A j \in 1..Len(s) : t[j] = s[j]
        /\ \A j \in 1..Len(u) : t[Len(s) + j] = u[j]
    BY <1>1, <1>3
  <2> HIDE DEF t
  <2>2. ~(i <= Len(s))
    BY <1>2, <2>1
  <2>3. i - Len(s) \in 1..Len(u) /\ i = Len(s) + (i - Len(s))
    BY <1>2, <2>1, <2>2
  <2> QED
    BY <2>1, <2>3
<1>4. Incomplete(u) => Incomplete(s \o u)
  BY <1>3 DEF Incomplete
<1>5. ASSUME EndsToken(u), NEW i \in 1..Len(s \o u), (s \o u)[i].last
      PROVE  i = Len(s \o u)
  <2>1. PICK j \in 1..Len(u) : i = Len(s) + j /\ u[j].last
    BY <1>3, <1>5
  <2>2. j = Len(u)
    BY <1>5, <2>1 DEF EndsToken
  <2> QED
    BY <1>1, <2>1, <2>2
<1> QED
  BY <1>1, <1>4, <1>5

--------------------------------------------------------------------------------
\* A token is out.
LEMMA SentFacts ==
  ASSUME IInv, NEW e \in Ends, Sent(e), call[e].left # <<>>
  PROVE  /\ call[e].op \in {"shake", "write"}
         /\ call'[e].left = <<>> /\ result'[e] \in {"ok", result[e]}
         /\ call'[Peer[e]] = call[Peer[e]] /\ result'[Peer[e]] = result[Peer[e]]
         /\ flights'[Peer[e]] = flights[Peer[e]]
         /\ promised'[Peer[e]] = promised[Peer[e]]
         /\ call[e].op = "write" => /\ flights'[e] = flights[e] /\ call'[e].op = "none"
                                    /\ promised'[e] = written[e]
         /\ call[e].op = "shake" => /\ flights'[e] = flights[e] + 1
                                    /\ call'[e].op \in {"none", "shake"}
                                    /\ promised'[e] = promised[e]
<1>1. Shape /\ call[e].op \in {"shake", "write"}
  BY DEF IInv, Link, Calling
<1>2. Peer[e] \in Ends /\ Peer[e] # e
  BY PeerFacts
<1>3. CASE call[e].op = "write"
  <2>1. /\ promised' = [promised EXCEPT ![e] = written[e]]
        /\ call' = [call EXCEPT ![e] = NoCall] /\ result' = [result EXCEPT ![e] = "ok"]
        /\ UNCHANGED flights
    BY <1>3 DEF Sent, Return
  <2>2. call'[e] = NoCall /\ call'[Peer[e]] = call[Peer[e]]
    BY <1>1, <1>2, <2>1, CallSet
  <2>3. result'[e] = "ok" /\ result'[Peer[e]] = result[Peer[e]]
    BY <1>1, <1>2, <2>1, ResultSet
  <2>4. promised'[e] = written[e] /\ promised'[Peer[e]] = promised[Peer[e]]
    BY <1>1, <1>2, <2>1 DEF Shape
  <2> QED
    BY <1>3, <2>1, <2>2, <2>3, <2>4, CallFacts
<1>4. CASE call[e].op = "shake"
  <2>1. /\ flights' = [flights EXCEPT ![e] = flights[e] + 1] /\ UNCHANGED promised
        /\ \/ /\ call' = [call EXCEPT ![e] = NoCall]
              /\ result' = [result EXCEPT ![e] = "ok"]
           \/ call' = [call EXCEPT ![e] = Sending("shake", <<>>)] /\ UNCHANGED result
    BY <1>4 DEF Sent, Return
  <2>2. flights'[e] = flights[e] + 1 /\ flights'[Peer[e]] = flights[Peer[e]]
    BY <1>1, <1>2, <2>1 DEF Shape
  <2>3. result'[e] \in {"ok", result[e]} /\ result'[Peer[e]] = result[Peer[e]]
    BY <1>1, <1>2, <2>1, ResultSet
  <2>4. /\ call'[e] \in {NoCall, Sending("shake", <<>>)}
        /\ call'[Peer[e]] = call[Peer[e]]
    <3>1. CASE call' = [call EXCEPT ![e] = NoCall]
      BY <1>1, <1>2, <3>1, CallSet
    <3>2. CASE call' = [call EXCEPT ![e] = Sending("shake", <<>>)]
      BY <1>1, <1>2, <3>2, CallSet
    <3> QED
      BY <2>1, <3>1, <3>2
  <2>5. call'[e].left = <<>> /\ call'[e].op \in {"none", "shake"}
    BY <2>4 DEF NoCall, Sending
  <2> QED
    BY <1>4, <2>1, <2>2, <2>3, <2>4, <2>5
<1> QED
  BY <1>1, <1>3, <1>4

\* write() takes some of a token, or all.
LEMMA SendCases ==
  ASSUME IInv, NEW e \in Ends, Send(e)
  PROVE  \E k \in 1..Len(call[e].left) :
           /\ wire'[e] = wire[e] \o First(call[e].left, k)
           /\ wire'[Peer[e]] = wire[Peer[e]]
           /\ \/ k = Len(call[e].left) /\ Sent(e)
              \/ /\ k < Len(call[e].left)
                 /\ call'[e].op = call[e].op /\ call'[e].left = After(call[e].left, k)
                 /\ call'[Peer[e]] = call[Peer[e]]
                 /\ UNCHANGED <<flights, result, promised>>
<1> DEFINE left == call[e].left
           w == wire[e]
<1>1. /\ Shape /\ w \in Seq(Unit) /\ left \in Seq(Unit)
      /\ Len(w) \in Nat /\ Len(left) \in Nat /\ call[e] \in Call
      /\ Peer[e] \in Ends /\ Peer[e] # e
  BY FlightType, PeerFacts DEF IInv
<1>2. left # <<>> /\ Len(w) < Capacity
  BY DEF Send
<1>3. PICK k \in 1..Smaller(Len(left), Capacity - Len(w)) :
        /\ wire' = [wire EXCEPT ![e] = @ \o First(left, k)]
        /\ IF k = Len(left) THEN Sent(e)
           ELSE /\ call' = [call EXCEPT ![e].left = After(@, k),
                                        ![e].stuck = e \in Blocking]
                /\ UNCHANGED <<flights, result, promised>>
  BY DEF Send
<1>4. k \in 1..Len(left)
  <2>1. Capacity - Len(w) \in Nat
    BY <1>1, <1>2, StreamAssumption
  <2>2. Smaller(Len(left), Capacity - Len(w)) \in Nat
        /\ Smaller(Len(left), Capacity - Len(w)) <= Len(left)
    BY <1>1, <2>1, SmallerFacts
  <2> HIDE DEF left, w
  <2> QED
    BY <1>1, <2>2
<1>5. wire'[e] = w \o First(left, k) /\ wire'[Peer[e]] = wire[Peer[e]]
  BY <1>1, <1>3 DEF Shape
<1>6. ASSUME k # Len(left)
      PROVE  /\ k < Len(left)
             /\ call'[e].op = call[e].op /\ call'[e].left = After(left, k)
             /\ call'[Peer[e]] = call[Peer[e]]
             /\ UNCHANGED <<flights, result, promised>>
  <2>1. /\ call' = [call EXCEPT ![e].left = After(@, k),
                                ![e].stuck = e \in Blocking]
        /\ UNCHANGED <<flights, result, promised>>
    BY <1>3, <1>6
  <2>2. call'[e] = [call[e] EXCEPT !.left = After(left, k), !.stuck = e \in Blocking]
    BY <1>1, <2>1 DEF Shape
  <2>3. call'[Peer[e]] = call[Peer[e]]
    BY <1>1, <2>1 DEF Shape
  <2>4. call'[e].op = call[e].op /\ call'[e].left = After(left, k)
    BY <1>1, <2>2 DEF Call
  <2>5. k < Len(left)
    BY <1>1, <1>4, <1>6
  <2> QED
    BY <2>1, <2>3, <2>4, <2>5
<1> QED
  BY <1>3, <1>4, <1>5, <1>6

\* One that has a token to send has none on its way, or both have the context.
LEMMA SenderFacts ==
  ASSUME IInv, Handshake, NEW e \in Ends, call[e].left # <<>>
  PROVE  /\ call[e].op \in {"shake", "write"} /\ EndsToken(call[e].left)
         /\ flights[e] \in 0..Flights /\ flights[Peer[e]] \in 0..Flights
         /\ Flights \in Nat
         /\ call[e].op = "write" => flights[e] = Flights /\ flights[Peer[e]] = Flights
         /\ call[e].op = "shake" =>
              /\ flights[e] < Flights /\ flights[Peer[e]] = flights[e]
              /\ flights[e] % 2 = Turn[e]
              /\ Incomplete(wire[e])
              /\ ~\E i \in 1..Len(wire[Peer[e]]) : wire[Peer[e]][i].last
<1>1. /\ call[e].op \in {"shake", "write"} /\ EndsToken(call[e].left)
      /\ call[e].op = "shake" => flights[e] < Flights
  BY DEF IInv, Link, Calling, Handshake, Shaken, Parts
<1>2. /\ flights[e] \in 0..Flights /\ flights[Peer[e]] \in 0..Flights /\ Flights \in Nat
      /\ Peer[Peer[e]] = e /\ Peer[e] \in Ends
  BY PeerFacts, FlightType, StreamAssumption DEF IInv
<1>3. call[e].op = "write" => flights[e] = Flights /\ flights[Peer[e]] = Flights
  BY DEF Handshake, Shaken, Begun
<1>4. ASSUME call[e].op = "shake"
      PROVE  /\ flights[Peer[e]] = flights[e] /\ flights[e] % 2 = Turn[e]
             /\ Incomplete(wire[e])
             /\ ~\E i \in 1..Len(wire[Peer[e]]) : wire[Peer[e]][i].last
  <2>1. flights[Peer[e]] = flights[e] /\ flights[e] % 2 = Turn[e]
    BY <1>4 DEF Handshake, Shaken, InTurn, ToSend
  <2>2. OneToken(e) /\ OneToken(Peer[e])
    BY <1>2 DEF Handshake, Shaken
  <2>3. flights[e] < Flights /\ flights[e] # flights[e] + 1
    BY <1>1, <1>2, <1>4
  <2> QED
    BY <1>2, <2>1, <2>2, <2>3 DEF OneToken, Incomplete
<1> QED
  BY <1>1, <1>2, <1>3, <1>4

LEMMA SentHandshake ==
  ASSUME IInv, Handshake, NEW e \in Ends, Sent(e), call[e].left # <<>>,
         UNCHANGED <<sock, held, written>>, wire'[Peer[e]] = wire[Peer[e]],
         wire'[e] \in {wire[e], wire[e] \o call[e].left}
  PROVE  Handshake'
<1>1. /\ Peer[e] \in Ends /\ Peer[e] # e /\ Peer[Peer[e]] = e
      /\ \A x \in Ends : x = e \/ x = Peer[e]
      /\ Peer' = Peer /\ Turn' = Turn
  BY BothEnds DEF Peer, Turn, Ends
<1> DEFINE p == Peer[e]
<1>2. /\ call[e].op \in {"shake", "write"}
      /\ call'[e].left = <<>> /\ call'[p] = call[p] /\ flights'[p] = flights[p]
      /\ call[e].op = "write" => flights'[e] = flights[e] /\ call'[e].op = "none"
      /\ call[e].op = "shake" => flights'[e] = flights[e] + 1
                                 /\ call'[e].op \in {"none", "shake"}
  BY SentFacts
<1>3. /\ EndsToken(call[e].left) /\ Flights \in Nat
      /\ flights[e] \in Nat /\ flights[p] \in Nat
      /\ call[e].op = "write" => flights[e] = Flights /\ flights[p] = Flights
      /\ call[e].op = "shake" =>
           /\ flights[e] < Flights /\ flights[p] = flights[e]
           /\ flights[e] % 2 = Turn[e] /\ Incomplete(wire[e])
           /\ ~\E i \in 1..Len(wire[p]) : wire[p][i].last
  BY SenderFacts
<1>4. Shaken(e) /\ Shaken(p)
  BY <1>1 DEF Handshake
<1> HIDE DEF p
<1>5. Peer'[e] = p /\ Peer'[p] = e /\ Peer[e] = p /\ Peer[p] = e
  BY <1>1 DEF p
<1>6. wire'[p] = wire[p]
  BY DEF p
<1>7. CASE call[e].op = "write"
  <2>1. InTurn(e)' /\ InTurn(p)'
    BY <1>1, <1>2, <1>3, <1>4, <1>5, <1>7 DEF Shaken, InTurn, ToSend
  <2>2. OneToken(e)' /\ OneToken(p)'
    BY <1>2, <1>3, <1>5, <1>7 DEF OneToken
  <2>3. Parts(e)' /\ Parts(p)'
    BY <1>2, <1>4, TokenEnds DEF Shaken, Parts
  <2>4. Begun(e)' /\ Begun(p)'
    BY <1>2, <1>4, <1>5, <1>7 DEF Shaken, Begun
  <2>5. Fresh'
    BY <1>1, <1>2, <1>7 DEF Handshake, Fresh, Ends, p, Peer
  <2> QED
    BY <1>1, <2>1, <2>2, <2>3, <2>4, <2>5 DEF Handshake, Shaken, p
<1>8. CASE call[e].op = "shake"
  <2>0. /\ (flights[e] + 1) % 2 # flights[e] % 2 /\ Turn[p] # Turn[e]
        /\ flights[e] + 1 # flights[e] /\ flights[e] # flights[e] + 1 + 1
        /\ flights[e] <= flights[e] + 1 + 1 /\ flights[e] + 1 <= flights[e] + 1
    BY <1>3, TurnFacts DEF p
  <2>1. InTurn(e)'
    BY <1>1, <1>2, <1>3, <1>5, <1>8, <2>0 DEF InTurn, ToSend
  <2>2. InTurn(p)'
    <3>1. /\ ~ToSend(p)
          /\ call[p].op = "shake" /\ call[p].left = <<>> => flights[p] % 2 # Turn[p]
      BY <1>3, <1>4, <1>5, <1>8, <2>0 DEF Shaken, InTurn
    <3> QED
      BY <1>1, <1>2, <1>3, <1>5, <1>8, <2>0, <3>1 DEF InTurn, ToSend
  <2>3. OneToken(e)'
    <3>1. wire[e] \in Seq(Unit) /\ call[e].left \in Seq(Unit)
      BY FlightType DEF IInv
    <3>2. \A i \in 1..Len(wire'[e]) : wire'[e][i].last => i = Len(wire'[e])
      <4>1. CASE wire'[e] = wire[e]
        BY <1>3, <1>8, <4>1 DEF Incomplete
      <4>2. CASE wire'[e] = wire[e] \o call[e].left
        BY <1>3, <1>8, <3>1, <4>2, JoinEnds
      <4> QED
        BY <4>1, <4>2
    <3> QED
      BY <1>2, <1>3, <1>5, <1>8, <3>2 DEF OneToken
  <2>4. OneToken(p)'
    BY <1>3, <1>6, <1>8 DEF OneToken
  <2>5. Parts(e)' /\ Parts(p)'
    BY <1>2, <1>4, TokenEnds DEF Shaken, Parts
  <2>6. Begun(e)' /\ Begun(p)'
    <3>1. flights[e] # Flights
      BY <1>3, <1>8
    <3>2. ~(written[e] > 0) /\ ~(written[p] > 0)
      BY <1>4, <1>5, <3>1 DEF Shaken, Begun
    <3> QED
      BY <1>2, <1>4, <1>8, <3>2 DEF Shaken, Begun
  <2>7. Fresh'
    <3>1. sock[e] # "none"
      BY <1>8 DEF IInv, Link, Calling
    <3>2. e \in {"client", "server"} /\ (e = "client" => p = "server")
          /\ (e = "server" => p = "client")
      BY DEF Ends, p, Peer
    <3> QED
      BY <1>2, <1>8, <3>1, <3>2 DEF Handshake, Fresh
  <2> QED
    BY <1>1, <2>1, <2>2, <2>3, <2>4, <2>5, <2>6, <2>7 DEF Handshake, Shaken, p
<1> QED
  BY <1>2, <1>7, <1>8

LEMMA SendHandshake ==
  ASSUME IInv, Handshake, NEW e \in Ends, Send(e) \/ SendInVain(e)
  PROVE  Handshake'
<1>1. /\ call[e].left # <<>> /\ UNCHANGED <<sock, held, written>>
      /\ Peer[e] \in Ends /\ Peer[e] # e /\ Peer[Peer[e]] = e
      /\ \A x \in Ends : x = e \/ x = Peer[e]
  BY BothEnds DEF Send, SendInVain
<1>2. CASE SendInVain(e)
  BY <1>1, <1>2, SentHandshake DEF SendInVain
<1>3. CASE Send(e)
  <2>1. PICK k \in 1..Len(call[e].left) :
           /\ wire'[e] = wire[e] \o First(call[e].left, k)
           /\ wire'[Peer[e]] = wire[Peer[e]]
           /\ \/ k = Len(call[e].left) /\ Sent(e)
              \/ /\ k < Len(call[e].left)
                 /\ call'[e].op = call[e].op /\ call'[e].left = After(call[e].left, k)
                 /\ call'[Peer[e]] = call[Peer[e]]
                 /\ UNCHANGED <<flights, result, promised>>
    BY <1>3, SendCases
  <2>2. call[e].left \in Seq(Unit) /\ wire[e] \in Seq(Unit)
    BY FlightType DEF IInv
  <2>3. CASE k = Len(call[e].left) /\ Sent(e)
    <3>1. First(call[e].left, k) = call[e].left
      BY <2>2, <2>3 DEF First
    <3> QED
      BY <1>1, <2>1, <2>3, <3>1, SentHandshake
  <2>4. CASE /\ k < Len(call[e].left)
             /\ call'[e].op = call[e].op /\ call'[e].left = After(call[e].left, k)
             /\ call'[Peer[e]] = call[Peer[e]]
             /\ UNCHANGED <<flights, result, promised>>
    <3> DEFINE first == First(call[e].left, k)
    <3>1. /\ call[e].op \in {"shake", "write"}
          /\ flights[e] \in Nat /\ flights[Peer[e]] \in Nat /\ Flights \in Nat
          /\ call[e].op = "write" => flights[e] = Flights /\ flights[Peer[e]] = Flights
          /\ call[e].op = "shake" => Incomplete(wire[e])
          /\ EndsToken(call[e].left)
      BY <1>1, SenderFacts
    <3>2. /\ EndsToken(After(call[e].left, k)) /\ Incomplete(first)
          /\ After(call[e].left, k) # <<>> /\ first \in Seq(Unit)
      <4>1. k \in Nat /\ k <= Len(call[e].left) /\ k \in 0..Len(call[e].left)
        BY <2>2
      <4>2. first \in Seq(Unit)
        BY <2>2, <4>1, CutFacts
      <4> QED
        BY <2>2, <2>4, <3>1, <4>1, <4>2, CutEnds
    <3> HIDE DEF first
    <3>3. Shaken(e) /\ Shaken(Peer[e]) /\ Peer' = Peer /\ Turn' = Turn
      BY <1>1 DEF Handshake, Peer, Turn, Ends
    <3>4. InTurn(e)' /\ Begun(e)' /\ Parts(e)'
      <4>1. Begun(e)' /\ Parts(e)'
        BY <1>1, <2>4, <3>2, <3>3 DEF Shaken, Begun, Parts
      <4> QED
        BY <1>1, <2>4, <3>2, <3>3, <4>1 DEF Shaken, InTurn, ToSend
    <3>5. OneToken(e)'
      <4>1. CASE call[e].op = "write"
        BY <2>4, <3>1, <3>3, <4>1 DEF OneToken
      <4>2. CASE call[e].op = "shake"
        <5>1. Incomplete(wire'[e])
          BY <2>1, <2>2, <3>1, <3>2, <4>2, JoinEnds DEF first
        <5> QED
          BY <5>1 DEF OneToken, Incomplete
      <4> QED
        BY <3>1, <4>1, <4>2
    <3>6. Shaken(Peer[e])'
      BY <1>1, <2>1, <2>4, <3>3, ShakenKept
    <3>7. Fresh'
      BY <1>1, <2>4 DEF Handshake, Fresh, Ends, Peer
    <3> QED
      BY <1>1, <3>4, <3>5, <3>6, <3>7 DEF Handshake, Shaken
  <2> QED
    BY <2>1, <2>3, <2>4
<1> QED
  BY <1>2, <1>3

--------------------------------------------------------------------------------
\* read() returns some of what is on the wire.
LEMMA ReceiveCases ==
  ASSUME IInv, NEW e \in Ends, Receive(e)
  PROVE  \E k \in 1..Len(wire[Peer[e]]) :
           /\ wire'[Peer[e]] = After(wire[Peer[e]], k) /\ wire'[e] = wire[e]
           /\ \/ ReceiveFlight(e, held[e] \o First(wire[Peer[e]], k))
              \/ ReceiveData(e, held[e] \o First(wire[Peer[e]], k), k)
<1> DEFINE p == Peer[e]
<1>1. /\ Shape /\ p \in Ends /\ p # e
      /\ wire[p] \in Seq(Unit) /\ Len(wire[p]) \in Nat
  BY PeerFacts, FlightType DEF IInv
<1>2. PICK k \in 1..Smaller(Chunk, Len(wire[p])) :
        LET all == held[e] \o First(wire[p], k)
        IN /\ wire' = [wire EXCEPT ![p] = After(@, k)]
           /\ ReceiveFlight(e, all) \/ ReceiveData(e, all, k)
  BY DEF Receive
<1>3. k \in 1..Len(wire[p])
  <2>1. /\ Smaller(Chunk, Len(wire[p])) \in Nat
        /\ Smaller(Chunk, Len(wire[p])) <= Len(wire[p])
    BY <1>1, StreamAssumption, SmallerFacts
  <2> HIDE DEF p
  <2> QED
    BY <1>1, <2>1
<1>4. wire'[p] = After(wire[p], k) /\ wire'[e] = wire[e]
  BY <1>1, <1>2 DEF Shape
<1> QED
  BY <1>2, <1>3, <1>4

\* A piece of a token of the handshake is held, or completes it.
LEMMA FlightCases ==
  ASSUME IInv, NEW e \in Ends, NEW all, ReceiveFlight(e, all), call[e].left = <<>>
  PROVE  /\ call[e].op = "shake" /\ UNCHANGED <<next, got>>
         /\ \/ /\ ~all[Len(all)].last /\ held'[e] = all
               /\ UNCHANGED <<flights, call, result>>
            \/ /\ all[Len(all)].last /\ held'[e] = <<>>
               /\ flights'[e] = flights[e] + 1
               /\ \/ call'[e].op = "none" /\ call'[e].left = <<>>
                  \/ call'[e].op = "shake" /\ call'[e].left = Flight
               /\ result'[e] \in {"ok", result[e]}
<1>1. Shape /\ call[e].op = "shake" /\ UNCHANGED <<next, got>> /\ call[e] \in Call
  BY FlightType DEF IInv, ReceiveFlight
<1>2. CASE ~all[Len(all)].last
  <2>1. held' = [held EXCEPT ![e] = all] /\ UNCHANGED <<flights, call, result>>
    BY <1>2 DEF ReceiveFlight
  <2>2. held'[e] = all
    BY <1>1, <2>1 DEF Shape
  <2> QED
    BY <1>1, <1>2, <2>1, <2>2
<1>3. CASE all[Len(all)].last
  <2>1. /\ held' = [held EXCEPT ![e] = <<>>]
        /\ flights' = [flights EXCEPT ![e] = flights[e] + 1]
        /\ \/ /\ call' = [call EXCEPT ![e] = NoCall]
              /\ result' = [result EXCEPT ![e] = "ok"]
           \/ call' = [call EXCEPT ![e].left = Flight] /\ UNCHANGED result
    BY <1>3 DEF ReceiveFlight, Return
  <2>2. held'[e] = <<>> /\ flights'[e] = flights[e] + 1
    BY <1>1, <2>1 DEF Shape
  <2>3. result'[e] \in {"ok", result[e]}
    BY <1>1, <2>1, ResultSet
  <2>4. \/ call'[e].op = "none" /\ call'[e].left = <<>>
        \/ call'[e].op = "shake" /\ call'[e].left = Flight
    <3>1. CASE call' = [call EXCEPT ![e] = NoCall]
      <4>1. call'[e] = NoCall
        BY <1>1, <3>1, CallSet
      <4> QED
        BY <4>1, CallFacts
    <3>2. CASE call' = [call EXCEPT ![e].left = Flight]
      <4>1. call'[e] = [call[e] EXCEPT !.left = Flight]
        BY <1>1, <3>2 DEF Shape
      <4>2. call'[e].left = Flight /\ call'[e].op = "shake"
        BY <1>1, <4>1 DEF Call
      <4> QED
        BY <4>2
    <3> QED
      BY <2>1, <3>1, <3>2
  <2> QED
    BY <1>1, <1>3, <2>2, <2>3, <2>4
<1> QED
  BY <1>2, <1>3

\* Units of records are decoded or held, or the SSL layer finds one missing.
LEMMA DataCases ==
  ASSUME IInv, NEW e \in Ends, NEW k \in Nat, NEW all, ReceiveData(e, all, k)
  PROVE  /\ call[e].op \in {"read", "full"} /\ UNCHANGED flights
         /\ call'[e].op \in {"none", "read", "full"} /\ call'[e].left = <<>>
         /\ result'[e] # "eof"
         /\ \/ result'[e] = "gss" /\ UNCHANGED held
            \/ /\ next'[e] = next[e] + k
               /\ \E c \in 0..Len(all) :
                    /\ \A i \in (c + 1)..Len(all) : ~all[i].last
                    /\ held'[e] = After(all, c)
               /\ \A i \in 1..k : all[Len(held[e]) + i].byte = next[e] + i - 1
<1>1. /\ Shape /\ call[e].op \in {"read", "full"} /\ UNCHANGED flights
      /\ call[e] \in Call /\ Sound(e) /\ call[e].left = <<>>
  BY FlightType DEF IInv, ReceiveData, Link, Calling
<1>2. result[e] # "eof"
  BY <1>1 DEF Sound
<1>3. CASE ~\A i \in 1..k : all[Len(held[e]) + i].byte = next[e] + i - 1
  <2>1. Return(e, "gss") /\ UNCHANGED held
    BY <1>3 DEF ReceiveData
  <2>2. call'[e] = NoCall /\ result'[e] = "gss"
    BY <1>1, <2>1, CallSet, ResultSet DEF Return
  <2> QED
    BY <1>1, <2>1, <2>2, CallFacts
<1>4. CASE \A i \in 1..k : all[Len(held[e]) + i].byte = next[e] + i - 1
  <2>1. /\ next' = [next EXCEPT ![e] = @ + k]
        /\ \E c \in 0..Len(all) :
             /\ c > 0 => all[c].last
             /\ \A i \in (c + 1)..Len(all) : ~all[i].last
             /\ Unwrap(e, all, c)
    BY <1>4 DEF ReceiveData
  <2>2. next'[e] = next[e] + k
    BY <1>1, <2>1 DEF Shape
  <2>3. PICK c \in 0..Len(all) : /\ \A i \in (c + 1)..Len(all) : ~all[i].last
                                 /\ Unwrap(e, all, c)
    BY <2>1
  <2>4. held'[e] = After(all, c)
    BY <1>1, <2>3 DEF Unwrap, Shape
  <2>5. \/ Return(e, "ok") \/ Return(e, "errno")
        \/ (\E t : call' = [call EXCEPT ![e].total = t]) /\ UNCHANGED result
    BY <2>3 DEF Unwrap
  <2>6. /\ call'[e].op \in {"none", "read", "full"} /\ call'[e].left = <<>>
        /\ result'[e] # "eof"
    <3>1. ASSUME NEW r \in {"ok", "errno"}, Return(e, r)
          PROVE  /\ call'[e].op \in {"none", "read", "full"} /\ call'[e].left = <<>>
                 /\ result'[e] # "eof"
      <4>1. call'[e] = NoCall /\ result'[e] = r
        BY <1>1, <3>1, CallSet, ResultSet DEF Return
      <4> QED
        BY <4>1, CallFacts
    <3>2. ASSUME NEW t, call' = [call EXCEPT ![e].total = t], UNCHANGED result
          PROVE  /\ call'[e].op \in {"none", "read", "full"} /\ call'[e].left = <<>>
                 /\ result'[e] # "eof"
      <4>1. call'[e] = [call[e] EXCEPT !.total = t]
        BY <1>1, <3>2 DEF Shape
      <4>2. call'[e].op = call[e].op /\ call'[e].left = call[e].left
        BY <1>1, <4>1 DEF Call
      <4> QED
        BY <1>1, <1>2, <3>2, <4>2
    <3> QED
      BY <2>5, <3>1, <3>2
  <2> QED
    BY <1>1, <1>4, <2>2, <2>3, <2>4, <2>6
<1> QED
  BY <1>3, <1>4

\* What follows a cut of units of which only the last can be marked.
LEMMA AfterLast ==
  ASSUME NEW s \in Seq(Unit), NEW k \in 1..Len(s),
         \A i \in 1..Len(s) : s[i].last => i = Len(s)
  PROVE  /\ \A i \in 1..Len(After(s, k)) : After(s, k)[i].last => i = Len(After(s, k))
         /\ s[k].last => After(s, k) = <<>>
         /\ ~s[k].last => Incomplete(First(s, k))
<1>1. /\ k \in 0..Len(s) /\ Len(s) \in Nat /\ k \in Nat
      /\ Len(First(s, k)) = k /\ \A i \in 1..k : First(s, k)[i] = s[i]
      /\ Len(After(s, k)) = Len(s) - k /\ After(s, k) \in Seq(Unit)
      /\ \A i \in 1..(Len(s) - k) : After(s, k)[i] = s[k + i]
  BY CutFacts
<1>2. \A i \in 1..(Len(s) - k) : /\ k + i \in 1..Len(s)
                                 /\ k + i = Len(s) => i = Len(s) - k
  BY <1>1
<1>3. s[k].last => After(s, k) = <<>>
  <2> SUFFICES ASSUME s[k].last PROVE Len(After(s, k)) = 0
    BY <1>1
  <2> QED
    BY <1>1
<1>4. ~s[k].last => Incomplete(First(s, k))
  <2> SUFFICES ASSUME ~s[k].last, NEW i \in 1..k, s[i].last PROVE FALSE
    BY <1>1 DEF Incomplete
  <2>1. i \in 1..Len(s) /\ i = Len(s)
    BY <1>1
  <2> QED
    BY <1>1, <2>1
<1> QED
  BY <1>1, <1>2, <1>3, <1>4

LEMMA FlightHandshake ==
  ASSUME IInv, Handshake, NEW e \in Ends, NEW k \in 1..Len(wire[Peer[e]]),
         NEW all, all = held[e] \o First(wire[Peer[e]], k), ReceiveFlight(e, all),
         call[e].left = <<>>, UNCHANGED <<sock, written>>,
         wire'[Peer[e]] = After(wire[Peer[e]], k), wire'[e] = wire[e]
  PROVE  Handshake'
<1>1. /\ Peer[e] \in Ends /\ Peer[e] # e /\ Peer[Peer[e]] = e
      /\ \A x \in Ends : x = e \/ x = Peer[e]
      /\ Peer' = Peer /\ Turn' = Turn
  BY BothEnds DEF Peer, Turn, Ends
<1> DEFINE p == Peer[e]
           w == wire[p]
<1>2. /\ w \in Seq(Unit) /\ held[e] \in Seq(Unit) /\ Len(w) \in Nat /\ Flights \in Nat
      /\ flights[e] \in Nat /\ flights[p] \in 0..Flights /\ k \in 0..Len(w)
  BY <1>1, FlightType, StreamAssumption DEF IInv
<1>3. /\ First(w, k) \in Seq(Unit) /\ Len(First(w, k)) = k
      /\ \A i \in 1..k : First(w, k)[i] = w[i]
  <2>1. w \in Seq(Unit) /\ k \in 0..Len(w)
    BY <1>2
  <2> HIDE DEF w
  <2> QED
    BY <2>1, CutFacts
<1>4. /\ call[e].op = "shake" /\ flights[e] < Flights
      /\ Shaken(e) /\ Shaken(p) /\ Incomplete(held[e])
      /\ flights[e] % 2 # Turn[e]
  <2>1. call[e].op = "shake"
    BY FlightCases
  <2>2. flights[e] < Flights /\ Shaken(e) /\ Shaken(p)
    BY <1>1, <2>1 DEF IInv, Link, Calling, Handshake
  <2> QED
    BY <2>1, <2>2 DEF Shaken, InTurn, Parts
<1>5. \A i \in 1..Len(w) : w[i].last => i = Len(w) /\ flights[p] = flights[e] + 1
  BY <1>1, <1>4 DEF Shaken, OneToken
<1>6. /\ \A i \in 1..Len(After(w, k)) : After(w, k)[i].last => i = Len(After(w, k))
      /\ w[k].last => After(w, k) = <<>>
      /\ ~w[k].last => Incomplete(First(w, k))
  <2> HIDE DEF w, p
  <2>1. \A i \in 1..Len(w) : w[i].last => i = Len(w)
    BY <1>5
  <2>2. k \in 1..Len(w)
    BY DEF w, p
  <2> QED
    BY <1>2, <2>1, <2>2, AfterLast
<1>7. all[Len(all)] = w[k]
  <2> DEFINE f == First(w, k)
             h == held[e]
  <2>1. f \in Seq(Unit) /\ h \in Seq(Unit) /\ Len(f) = k /\ f[k] = w[k] /\ all = h \o f
        /\ k \in 1..Len(f)
    BY <1>2, <1>3
  <2> HIDE DEF f, h, w
  <2>2. Len(all) = Len(h) + Len(f) /\ all[Len(h) + k] = f[k]
    BY <2>1, JoinUnits
  <2> QED
    BY <2>1, <2>2
<1>8. Untouched(p)
  <2>1. all \in Seq(Unit)
    BY <1>2, <1>3, JoinUnits
  <2> QED
    BY <1>1, <2>1, FlightLink
<1>9. Begun(e)' /\ Begun(p)'
  <2>1. flights[e] # Flights
    BY <1>2, <1>4
  <2>2. ~(written[e] > 0) /\ ~(written[p] > 0)
    BY <1>1, <1>4, <2>1 DEF Shaken, Begun
  <2>3. call'[p].op # "write" /\ call'[e].op # "write"
    <3>1. call[p].op # "write"
      BY <1>4, <2>2 DEF Shaken, Begun
    <3>2. call'[e].op \in {"none", "shake"}
      BY <1>4, FlightCases
    <3> QED
      BY <1>8, <3>1, <3>2 DEF Untouched
  <2> QED
    BY <2>2, <2>3 DEF Begun
<1>10. Fresh'
  <2>1. sock[e] # "none"
    BY <1>4 DEF IInv, Link, Calling
  <2>2. e \in {"client", "server"} /\ (e = "client" => p = "server")
        /\ (e = "server" => p = "client")
    BY DEF Ends, Peer
  <2>3. call'[e].op \notin {"lookup", "dial"} /\ call'[p].op = call[p].op /\ flights'[p] = flights[p]
    BY <1>4, <1>8, FlightCases DEF Untouched
  <2> HIDE DEF p
  <2> QED
    BY <2>1, <2>2, <2>3 DEF Handshake, Fresh
<1>11. CASE ~all[Len(all)].last
  <2>1. held'[e] = all /\ UNCHANGED <<flights, call, result>>
    BY <1>11, FlightCases
  <2>2. Incomplete(all)
    BY <1>2, <1>3, <1>4, <1>6, <1>7, <1>11, JoinEnds
  <2>3. InTurn(e)' /\ InTurn(p)'
    BY <1>1, <1>4, <2>1 DEF Shaken, InTurn, ToSend
  <2>4. OneToken(e)' /\ Parts(e)' /\ Parts(p)'
    BY <1>1, <1>4, <1>8, <2>1, <2>2 DEF Shaken, OneToken, Parts, Untouched
  <2>5. OneToken(p)'
    <3>1. ASSUME NEW i \in 1..Len(After(w, k)), After(w, k)[i].last
          PROVE  flights[p] = flights[e] + 1
      <4>1. k + i \in 1..Len(w) /\ After(w, k)[i] = w[k + i]
        <5> HIDE DEF w
        <5>1. Len(After(w, k)) = Len(w) - k
              /\ \A j \in 1..(Len(w) - k) : After(w, k)[j] = w[k + j]
          BY <1>2, CutFacts
        <5> QED
          BY <1>2, <5>1
      <4> QED
        BY <1>5, <3>1, <4>1
    <3> QED
      BY <1>1, <1>6, <2>1, <3>1 DEF OneToken
  <2> QED
    BY <1>1, <1>9, <1>10, <2>3, <2>4, <2>5 DEF Handshake, Shaken
<1>12. CASE all[Len(all)].last
  <2>1. /\ held'[e] = <<>> /\ flights'[e] = flights[e] + 1
        /\ \/ call'[e].op = "none" /\ call'[e].left = <<>>
           \/ call'[e].op = "shake" /\ call'[e].left = Flight
    BY <1>12, FlightCases
  <2>2. flights[p] = flights[e] + 1 /\ wire'[p] = <<>>
    BY <1>5, <1>6, <1>7, <1>12
  <2>3. flights'[p] = flights[p] /\ call'[p] = call[p] /\ held'[p] = held[p]
    BY <1>8 DEF Untouched
  <2>4. /\ (flights[e] + 1) % 2 = Turn[e] /\ Turn[p] # Turn[e]
        /\ flights[e] # flights[e] + 1 /\ flights[e] + 1 # flights[e] + 1 + 1
        /\ flights[e] + 1 <= flights[e] + 1 + 1 /\ flights[e] # flights[e] + 1 + 1
    <3> HIDE DEF p, w
    <3>1. /\ flights[e] % 2 \in {0, 1} /\ (flights[e] + 1) % 2 \in {0, 1}
          /\ (flights[e] + 1) % 2 # flights[e] % 2 /\ Turn[e] \in {0, 1}
      <4>1. flights[e] \in Nat /\ flights[e] + 1 \in Nat
        BY <1>2
      <4> QED
        BY <4>1, TurnFacts
    <3>2. Turn[p] # Turn[e]
      BY TurnFacts DEF p
    <3>3. (flights[e] + 1) % 2 = Turn[e]
      BY <1>4, <3>1
    <3> QED
      BY <1>2, <3>2, <3>3
  <2> HIDE DEF p, w
  <2>5. Peer'[e] = p /\ Peer'[p] = e /\ Peer[e] = p /\ Peer[p] = e
    BY <1>1 DEF p
  <2>6. InTurn(e)'
    BY <1>1, <2>1, <2>2, <2>3, <2>4, <2>5, FlightFacts DEF InTurn, ToSend
  <2>7. InTurn(p)'
    <3>1. /\ ~ToSend(p)
          /\ call[p].op = "shake" /\ call[p].left = <<>> => flights[p] % 2 # Turn[p]
      BY <1>4, <2>2, <2>4, <2>5 DEF Shaken, InTurn
    <3> QED
      BY <1>1, <2>1, <2>2, <2>3, <2>4, <2>5, <3>1 DEF InTurn, ToSend
  <2>8. OneToken(e)'
    <3>1. flights[e] # flights[p] + 1
      BY <1>2, <2>2, <2>4
    <3>2. flights[p] < Flights => \A i \in 1..Len(wire[e]) : ~wire[e][i].last
      BY <1>4, <2>5, <3>1 DEF Shaken, OneToken
    <3> QED
      BY <2>3, <2>5, <3>2 DEF OneToken
  <2>9. OneToken(p)'
    BY <2>2, <2>5, EmptyFacts DEF OneToken
  <2>10. Parts(e)' /\ Parts(p)'
    BY <1>4, <2>1, <2>3, TokenEnds DEF Shaken, Parts
  <2> QED
    BY <1>1, <1>9, <1>10, <2>6, <2>7, <2>8, <2>9, <2>10 DEF Handshake, Shaken, p
<1> QED
  BY <1>11, <1>12

LEMMA DataHandshake ==
  ASSUME IInv, Handshake, NEW e \in Ends, NEW k \in 1..Len(wire[Peer[e]]),
         NEW all, all = held[e] \o First(wire[Peer[e]], k), ReceiveData(e, all, k),
         UNCHANGED <<sock, written>>,
         wire'[Peer[e]] = After(wire[Peer[e]], k), wire'[e] = wire[e]
  PROVE  Handshake'
<1>1. /\ Peer[e] \in Ends /\ Peer[e] # e /\ Peer[Peer[e]] = e
      /\ \A x \in Ends : x = e \/ x = Peer[e]
      /\ Peer' = Peer /\ Turn' = Turn
  BY BothEnds DEF Peer, Turn, Ends
<1>2. /\ wire[Peer[e]] \in Seq(Unit) /\ held[e] \in Seq(Unit) /\ Flights \in Nat
      /\ k \in Nat /\ k >= 1 /\ k <= Len(wire[Peer[e]]) /\ k \in 0..Len(wire[Peer[e]])
  BY <1>1, FlightType, StreamAssumption DEF IInv
<1>3. Untouched(Peer[e])
  BY <1>1, <1>2, DataLink
<1>4. /\ call[e].op \in {"read", "full"} /\ UNCHANGED flights
      /\ call'[e].op \in {"none", "read", "full"} /\ call'[e].left = <<>>
  BY <1>2, DataCases
<1>5. flights[e] = Flights /\ Shaken(e) /\ Shaken(Peer[e])
  BY <1>1, <1>4 DEF IInv, Link, Calling, Sound, Handshake
<1>6. Incomplete(held'[e])
  <2>1. CASE UNCHANGED held
    BY <1>5, <2>1 DEF Shaken, Parts
  <2>2. ASSUME NEW c \in 0..Len(all), \A i \in (c + 1)..Len(all) : ~all[i].last,
               held'[e] = After(all, c)
        PROVE  Incomplete(held'[e])
    <3>1. all \in Seq(Unit)
      <4>1. First(wire[Peer[e]], k) \in Seq(Unit)
        BY <1>2, CutFacts
      <4> QED
        BY <1>2, <4>1, JoinUnits
    <3>2. /\ Len(After(all, c)) = Len(all) - c
          /\ \A i \in 1..(Len(all) - c) : After(all, c)[i] = all[c + i]
      BY <3>1, CutFacts
    <3>3. \A i \in 1..(Len(all) - c) : c + i \in (c + 1)..Len(all)
      <4>1. \A n \in Nat : \A m \in 0..n : \A i \in 1..(n - m) : m + i \in (m + 1)..n
        OBVIOUS
      <4>2. Len(all) \in Nat
        <5>1. \A s \in Seq(Unit) : Len(s) \in Nat
          OBVIOUS
        <5> QED
          BY <3>1, <5>1
      <4> QED
        BY <4>1, <4>2
    <3> QED
      BY <2>2, <3>2, <3>3, ZenonT(30) DEF Incomplete
  <2> QED
    BY <1>2, <2>1, <2>2, DataCases
<1>7. InTurn(e)' /\ OneToken(e)' /\ Parts(e)' /\ Begun(e)'
  BY <1>1, <1>4, <1>5, <1>6, TokenEnds DEF Shaken, InTurn, ToSend, OneToken, Parts, Begun
<1>8. OneToken(Peer[e])' /\ Parts(Peer[e])' /\ Begun(Peer[e])'
  <2>1. ~(flights[e] < Flights)
    BY <1>2, <1>5
  <2> QED
    BY <1>1, <1>3, <1>4, <1>5, <2>1 DEF Shaken, OneToken, Parts, Begun, Untouched
<1>9. InTurn(Peer[e])'
  BY <1>1, <1>3, <1>4, <1>5 DEF Shaken, InTurn, ToSend, Untouched
<1>10. Fresh'
  <2>1. call'["server"].op \notin {"lookup", "dial"}
    BY <1>3, <1>4 DEF Handshake, Fresh, Ends, Peer, Untouched
  <2> QED
    BY <1>4, <2>1 DEF Handshake, Fresh
<1> QED
  BY <1>1, <1>7, <1>8, <1>9, <1>10 DEF Handshake, Shaken

LEMMA ReceiveHandshake ==
  ASSUME IInv, Handshake, NEW e \in Ends, Receive(e)
  PROVE  Handshake'
<1>1. call[e].left = <<>> /\ UNCHANGED <<sock, written>>
  BY DEF Receive
<1>2. PICK k \in 1..Len(wire[Peer[e]]) :
           /\ wire'[Peer[e]] = After(wire[Peer[e]], k) /\ wire'[e] = wire[e]
           /\ \/ ReceiveFlight(e, held[e] \o First(wire[Peer[e]], k))
              \/ ReceiveData(e, held[e] \o First(wire[Peer[e]], k), k)
  BY ReceiveCases
<1> QED
  BY <1>1, <1>2, FlightHandshake, DataHandshake

LEMMA HandshakeKept ==
  ASSUME IInv, Handshake, [Next]_vars
  PROVE  Handshake'
<1>1. CASE \/ UNCHANGED vars \/ Tick
           \/ \E e \in Ends : \/ \E t \in Timeouts : SetTimeout(e, t)
                              \/ \E n \in Sizes : Read(e, n) \/ ReadFull(e, n) \/ Unread(e, n)
  BY <1>1, RestingSteps, RestingHandshake
<1>2. ASSUME NEW e \in Ends,
             Failing(e) \/ Close(e) \/ Kill(e)
      PROVE  Handshake'
  <2>1. Resting \/ Leaving(e)
    BY <1>2, FailingSteps, GoingLeaves
  <2> QED
    BY <2>1, RestingHandshake, LeavingHandshake
<1>3. CASE Dials \/ Dialled \/ Accept
  BY <1>3, DialsHandshake, StartHandshake
<1>4. ASSUME NEW e \in Ends, NEW n \in Sizes, Write(e, n) PROVE Handshake'
  BY <1>4, WriteHandshake
<1>5. ASSUME NEW e \in Ends, Send(e) \/ SendInVain(e) \/ Receive(e) PROVE Handshake'
  BY <1>5, SendHandshake, ReceiveHandshake
<1> QED
  BY <1>1, <1>2, <1>3, <1>4, <1>5, NextCases DEF Caller

--------------------------------------------------------------------------------
(* Then the delivery: the last byte of the last write that succeeded is on    *)
(* the wire until it is received, and held only with its record complete.     *)

\* The bytes m and n end records.
EndMarked(units, m, n) == \A i \in 1..Len(units) :
  units[i].byte # 0 /\ units[i].byte \in {m, n} => units[i].last

\* The promised byte and the last one written end records, wherever they are.
Marked(e) ==
  /\ EndMarked(wire[e], promised[e], written[e])
  /\ EndMarked(held[Peer[e]], promised[e], written[e])
  /\ EndMarked(call[e].left, promised[e], written[e])
  /\ Sendable(held[Peer[e]], written[e])
  /\ promised[e] <= written[e]
  /\ call[e].op = "write" => /\ call[e].left # <<>>
                             /\ call[e].left[Len(call[e].left)].byte = written[e]

\* What e promised comes to the other end, unless that one fails.
Arrives(e) == Sound(Peer[e]) =>
  \/ promised[e] < next[Peer[e]]
  \/ \E i \in 1..Len(wire[e]) : wire[e][i].byte = promised[e]

\* An end that has closed makes no calls.
Quiet(e) == Gone(e) => call[e].op = "none"

\* An end of file came with all that was promised, and nothing was since.
Told(e) == result[e] = "eof" => Gone(Peer[e]) /\ promised[Peer[e]] <= Len(got[e])

Delivery == \A e \in Ends : Marked(e) /\ Arrives(e) /\ Quiet(e) /\ Told(e)

LEMMA MarkFacts ==
  /\ \A m, n : EndMarked(<<>>, m, n)
  /\ \A s \in Seq(Unit) : \A m, n : \A k \in 0..Len(s) :
       EndMarked(s, m, n) => EndMarked(First(s, k), m, n) /\ EndMarked(After(s, k), m, n)
  /\ \A s, t \in Seq(Unit) : \A m, n :
       EndMarked(s, m, n) /\ EndMarked(t, m, n) => EndMarked(s \o t, m, n)
  /\ \A s \in Seq(Unit) : \A m, n : Sendable(s, 0) => EndMarked(s, m, n)
<1>1. \A m, n : EndMarked(<<>>, m, n)
  BY DEF EndMarked
<1>2. ASSUME NEW s \in Seq(Unit), NEW m, NEW n, NEW k \in 0..Len(s), EndMarked(s, m, n)
      PROVE  EndMarked(First(s, k), m, n) /\ EndMarked(After(s, k), m, n)
  <2>1. /\ Len(First(s, k)) = k /\ \A i \in 1..k : First(s, k)[i] = s[i]
        /\ Len(After(s, k)) = Len(s) - k
        /\ \A i \in 1..(Len(s) - k) : After(s, k)[i] = s[k + i]
    BY CutFacts
  <2>2. /\ \A i \in 1..k : i \in 1..Len(s)
        /\ \A i \in 1..(Len(s) - k) : k + i \in 1..Len(s)
    OBVIOUS
  <2> QED
    BY <1>2, <2>1, <2>2 DEF EndMarked
<1>3. ASSUME NEW s \in Seq(Unit), NEW t \in Seq(Unit), NEW m, NEW n,
             EndMarked(s, m, n), EndMarked(t, m, n)
      PROVE  EndMarked(s \o t, m, n)
  <2> DEFINE u == s \o t
  <2>1. /\ Len(u) = Len(s) + Len(t) /\ Len(s) \in Nat /\ Len(t) \in Nat
        /\ \A i \in 1..Len(s) : u[i] = s[i]
        /\ \A i \in 1..Len(t) : u[Len(s) + i] = t[i]
    BY JoinUnits
  <2> HIDE DEF u
  <2>2. ASSUME NEW i \in 1..Len(u), u[i].byte # 0, u[i].byte \in {m, n}
        PROVE  u[i].last
    <3>1. CASE i <= Len(s)
      <4>1. i \in 1..Len(s) /\ u[i] = s[i]
        BY <2>1, <3>1
      <4> QED
        BY <1>3, <2>2, <4>1 DEF EndMarked
    <3>2. CASE ~(i <= Len(s))
      <4>1. i - Len(s) \in 1..Len(t) /\ Len(s) + (i - Len(s)) = i
        BY <2>1, <3>2
      <4>2. u[i] = t[i - Len(s)]
        BY <2>1, <4>1
      <4> QED
        BY <1>3, <2>2, <4>1, <4>2 DEF EndMarked
    <3> QED
      BY <3>1, <3>2
  <2> QED
    BY <2>2 DEF EndMarked, u
<1>4. ASSUME NEW s \in Seq(Unit), NEW m, NEW n, Sendable(s, 0) PROVE EndMarked(s, m, n)
  <2>1. \A i \in 1..Len(s) : s[i].byte \in Nat
    <3>1. \A i \in 1..Len(s) : s[i] \in Unit
      OBVIOUS
    <3> QED
      BY <3>1 DEF Unit
  <2> QED
    BY <1>4, <2>1 DEF Sendable, EndMarked
<1> QED
  BY <1>1, <1>2, <1>3, <1>4

LEMMA MarkedKept ==
  ASSUME IInv, NEW e \in Ends, Marked(e), UNCHANGED <<promised, written>>,
         wire'[e] \in {wire[e], <<>>}, held'[Peer[e]] \in {held[Peer[e]], <<>>},
         \/ call'[e].op = call[e].op /\ call'[e].left = call[e].left
         \/ call'[e].op # "write" /\ call'[e].left = <<>>
  PROVE  Marked(e)'
<1>1. Peer' = Peer /\ written[e] \in Nat
  BY FlightType DEF Peer, Ends, IInv
<1>2. Sendable(<<>>, written[e]) /\ EndMarked(<<>>, promised[e], written[e])
  BY <1>1, SendableFacts, MarkFacts
<1> QED
  BY <1>1, <1>2 DEF Marked

\* All promised units that an end holds are complete.
LEMMA AllGiven ==
  ASSUME IInv, Handshake, Delivery, NEW e \in Ends, call[e].op \in {"read", "full"},
         wire[Peer[e]] = <<>>
  PROVE  promised[Peer[e]] <= Len(got[e])
<1> DEFINE p == Peer[e]
<1>1. p \in Ends /\ Peer[p] = e
  BY PeerFacts
<1>2. /\ got[e] \in Seq(Nat) /\ held[e] \in Seq(Unit)
      /\ Len(got[e]) \in Nat /\ Len(held[e]) \in Nat
      /\ next[e] \in Nat /\ promised[p] \in Nat
  <2>1. /\ got[e] \in Seq(Nat) /\ held[e] \in Seq(Unit)
        /\ next[e] \in Nat /\ promised[p] \in Nat
    BY <1>1, FlightType DEF IInv
  <2> QED
    BY <2>1
<1>3. Sound(e) /\ buffer[e] = <<>>
  BY DEF IInv, Link, Calling
<1>4. /\ next[e] = Len(got[e]) + Len(held[e]) + 1
      /\ \A i \in 1..Len(held[e]) : held[e][i].byte = Len(got[e]) + i
  <2>1. /\ next[e] = Len(got[e]) + Len(buffer[e]) + Len(held[e]) + 1
        /\ Following(held[e], Len(got[e]) + Len(buffer[e]))
    BY <1>3 DEF IInv, Link, Chained
  <2>2. Len(buffer[e]) = 0
    BY <1>3, EmptyFacts
  <2>3. Len(got[e]) + 0 = Len(got[e])
    BY <1>2
  <2> QED
    BY <2>1, <2>2, <2>3 DEF Following
<1>5. promised[p] < next[e]
  <2>1. Arrives(p) /\ wire[p] = <<>>
    BY <1>1 DEF Delivery
  <2> QED
    BY <1>1, <1>3, <2>1, EmptyFacts DEF Arrives
<1>6. /\ EndMarked(held[e], promised[p], written[p]) /\ Incomplete(held[e])
  BY <1>1 DEF Delivery, Marked, Handshake, Shaken, Parts
<1>7. SUFFICES ASSUME ~(promised[p] <= Len(got[e])) PROVE FALSE
  OBVIOUS
<1> DEFINE j == promised[p] - Len(got[e])
<1>8. j \in 1..Len(held[e]) /\ Len(got[e]) + j = promised[p] /\ promised[p] # 0
  <2>1. \A g, h, m \in Nat : m < g + h + 1 /\ ~(m <= g) =>
          m - g \in 1..h /\ g + (m - g) = m /\ m # 0
    OBVIOUS
  <2>2. promised[p] < Len(got[e]) + Len(held[e]) + 1
    BY <1>4, <1>5
  <2> QED
    BY <1>2, <1>7, <2>1, <2>2
<1>9. held[e][j].byte = promised[p]
  BY <1>4, <1>8
<1> HIDE DEF j, p
<1> QED
  BY <1>6, <1>8, <1>9 DEF EndMarked, Incomplete

\* Nothing is promised before both ends have the context.
LEMMA NothingYet ==
  ASSUME IInv, Handshake, Delivery, NEW e \in Ends, flights[e] < Flights
  PROVE  /\ written[e] = 0 /\ written[Peer[e]] = 0
         /\ promised[e] = 0 /\ promised[Peer[e]] = 0 /\ next[e] = 1
<1>1. /\ Peer[e] \in Ends /\ Peer[Peer[e]] = e /\ flights[e] # Flights
      /\ written[e] \in Nat /\ written[Peer[e]] \in Nat
      /\ promised[e] \in Nat /\ promised[Peer[e]] \in Nat
  <2>1. Peer[e] \in Ends /\ Peer[Peer[e]] = e
    BY PeerFacts
  <2>2. flights[e] \in 0..Flights /\ Flights \in Nat
    BY FlightType, StreamAssumption DEF IInv
  <2> QED
    BY <2>1, <2>2, FlightType DEF IInv
<1>2. ~(written[e] > 0) /\ ~(written[Peer[e]] > 0)
  BY <1>1 DEF Handshake, Shaken, Begun
<1>3. promised[e] <= written[e] /\ promised[Peer[e]] <= written[Peer[e]]
  BY <1>1 DEF Delivery, Marked
<1>4. next[e] = 1
  BY DEF IInv, Link, Shaking
<1> QED
  BY <1>1, <1>2, <1>3, <1>4

LEMMA RestingDelivery ==
  ASSUME IInv, Handshake, Delivery, Resting
  PROVE  Delivery'
<1> SUFFICES ASSUME NEW e \in Ends PROVE (Marked(e) /\ Arrives(e) /\ Quiet(e) /\ Told(e))'
  BY DEF Delivery, Ends
<1>1. /\ Peer[e] \in Ends /\ Peer' = Peer
      /\ Marked(e) /\ Arrives(e) /\ Quiet(e) /\ Told(e)
  BY PeerFacts DEF Peer, Ends, Delivery
<1>2. Marked(e)'
  BY <1>1, MarkedKept DEF Resting
<1>3. Arrives(e)'
  BY <1>1 DEF Resting, Arrives
<1>4. Quiet(e)'
  BY <1>1 DEF Resting, Quiet, Gone
<1>5. Told(e)'
  <2> SUFFICES ASSUME result'[e] = "eof"
               PROVE  Gone(Peer[e])' /\ promised[Peer[e]] <= Len(got[e])
    BY <1>1 DEF Told, Resting
  <2>1. CASE result[e] = "eof"
    BY <1>1, <2>1 DEF Told, Resting, Gone
  <2>2. CASE result[e] # "eof"
    <3>1. /\ call[e].op \in {"read", "full"}
          /\ sock[Peer[e]] = "closed" /\ wire[Peer[e]] = <<>>
      BY <2>2 DEF Resting
    <3> QED
      BY <3>1, AllGiven DEF Resting, Gone
  <2> QED
    BY <2>1, <2>2
<1> QED
  BY <1>2, <1>3, <1>4, <1>5

LEMMA LeavingDelivery ==
  ASSUME IInv, Handshake, Delivery, NEW e \in Ends, Leaving(e)
  PROVE  Delivery'
<1>1. /\ Peer[e] \in Ends /\ Peer[Peer[e]] = e /\ Peer' = Peer
      /\ \A x \in Ends : x = e \/ x = Peer[e]
  BY BothEnds DEF Peer, Ends
<1> DEFINE p == Peer[e]
<1>2. /\ Marked(e) /\ Arrives(e) /\ Told(e) /\ Marked(p) /\ Quiet(p) /\ Told(p)
  BY <1>1 DEF Delivery
<1>3. Marked(e)'
  BY <1>1, <1>2, MarkedKept DEF Leaving
<1>4. Marked(p)'
  BY <1>1, <1>2, MarkedKept DEF Leaving
<1>5. Arrives(e)' /\ Arrives(p)'
  BY <1>1, <1>2 DEF Leaving, Arrives, Sound
<1>6. Quiet(e)' /\ Quiet(p)'
  BY <1>2 DEF Leaving, Quiet, Gone
<1>7. Told(p)'
  BY <1>1, <1>2 DEF Leaving, Told, Gone
<1>8. Told(e)'
  <2>1. CASE result[e] = "eof"
    BY <1>1, <1>2, <2>1 DEF Leaving, Told, Gone
  <2>2. CASE flights[e] < Flights /\ Gone(p)
    <3>1. promised[p] = 0 /\ Len(got[e]) \in Nat
      <4>1. got[e] \in Seq(Nat)
        BY FlightType DEF IInv
      <4> QED
        BY <2>2, <4>1, NothingYet
    <3>2. 0 <= Len(got[e])
      BY <3>1
    <3> QED
      BY <1>1, <2>2, <3>1, <3>2 DEF Leaving, Told, Gone
  <2>3. CASE result'[e] # "eof"
    BY <2>3 DEF Told
  <2> QED
    BY <2>1, <2>2, <2>3 DEF Leaving
<1> QED
  BY <1>1, <1>3, <1>4, <1>5, <1>6, <1>7, <1>8 DEF Delivery

--------------------------------------------------------------------------------
\* The context is being established.
LEMMA DialsDelivery ==
  ASSUME IInv, Handshake, Delivery, Dials
  PROVE  Delivery'
<1>1. /\ Shape /\ "client" \in Ends /\ "server" \in Ends
      /\ Peer["client"] = "server" /\ Peer["server"] = "client" /\ Peer' = Peer
  BY DEF IInv, Ends, Peer
<1>2. /\ Marked("client") /\ Arrives("client") /\ Quiet("client") /\ Told("client")
      /\ Marked("server") /\ Arrives("server") /\ Quiet("server") /\ Told("server")
  BY <1>1 DEF Delivery
<1>3. /\ flights["client"] < Flights
      /\ call["client"].op \in {"lookup", "dial"} \/ sock["client"] = "none"
      /\ UNCHANGED <<wire, flights, held, next, written, promised, got>>
  BY DialFacts
<1>4. ~Gone("client")
  BY <1>2, <1>3 DEF Quiet, Gone
<1>5. /\ call'["server"] = call["server"]
      /\ \/ call'["client"] = call["client"]
         \/ call'["client"].op \in {"none", "lookup", "dial"} /\ call'["client"].left = <<>>
  BY <1>1, DialsCall
<1>6. /\ sock'["server"] = sock["server"]
      /\ sock'["client"] = sock["client"] \/ call'["client"].op = "none"
  <2>1. \/ sock' = sock
        \/ /\ sock' = [sock EXCEPT !["client"] = "closed"]
           /\ call' = [call EXCEPT !["client"] = NoCall]
    BY DialFacts
  <2>2. ASSUME call' = [call EXCEPT !["client"] = NoCall]
        PROVE  call'["client"].op = "none"
    <3>1. call'["client"] = NoCall
      BY <1>1, <2>2 DEF Shape
    <3> QED
      BY <3>1, CallFacts
  <2> QED
    BY <1>1, <2>1, <2>2 DEF Shape
<1>7. /\ result'["server"] = result["server"]
      /\ result'["client"] = result["client"] \/ result'["client"] # "eof"
  BY <1>1, DialFacts DEF Shape
<1>8. Marked("client")' /\ Marked("server")'
  BY <1>1, <1>2, <1>3, <1>5, MarkedKept
<1>9. Arrives("client")' /\ Arrives("server")'
  <2>1. flights["client"] # Flights
    <3>1. flights["client"] \in 0..Flights /\ Flights \in Nat
      BY <1>1, FlightType, StreamAssumption
    <3> QED
      BY <1>3, <3>1
  <2> QED
    BY <1>1, <1>2, <1>3, <1>6, <1>7, <2>1 DEF Arrives, Sound
<1>10. Quiet("client")' /\ Quiet("server")'
  BY <1>2, <1>4, <1>5, <1>6 DEF Quiet, Gone
<1>11. Told("client")' /\ Told("server")'
  BY <1>1, <1>2, <1>3, <1>4, <1>6, <1>7 DEF Told, Gone
<1> QED
  BY <1>8, <1>9, <1>10, <1>11 DEF Delivery, Ends

LEMMA StartDelivery ==
  ASSUME IInv, IInv', Handshake, Delivery, Dialled \/ Accept
  PROVE  Delivery'
<1>1. PICK e \in Ends :
        /\ ~Gone(e) /\ flights[e] < Flights
        /\ \E c : /\ call' = [call EXCEPT ![e] = c]
                  /\ c.op = "shake" /\ c.left \in {<<>>, Flight}
        /\ sock' = [sock EXCEPT ![e] = sock'[e]] /\ sock'[e] \in {sock[e], "open"}
        /\ UNCHANGED <<wire, flights, held, next, result, written, promised, got>>
  <2>0. Shape /\ "client" \in Ends /\ "server" \in Ends
    BY DEF IInv, Ends
  <2>1. CASE Dialled
    <3>1. /\ call["client"].op = "dial" /\ sock' = [sock EXCEPT !["client"] = "open"]
          /\ call' = [call EXCEPT !["client"] = Sending("shake", Flight)]
          /\ UNCHANGED <<wire, flights, held, next, result, written, promised, got>>
      BY <2>1 DEF Dialled, history
    <3>2. ~Gone("client") /\ flights["client"] < Flights
      BY <2>0, <3>1 DEF IInv, Link, Calling, Delivery, Quiet
    <3>3. Sending("shake", Flight).op = "shake" /\ Sending("shake", Flight).left = Flight
      BY DEF Sending
    <3>4. sock'["client"] = "open"
      BY <2>0, <3>1 DEF Shape
    <3> QED
      BY <2>0, <3>1, <3>2, <3>3, <3>4
  <2>2. CASE Accept
    <3>1. /\ sock["server"] = "none" /\ sock' = [sock EXCEPT !["server"] = "open"]
          /\ call' = [call EXCEPT !["server"] = Sending("shake", <<>>)]
          /\ UNCHANGED <<wire, flights, held, next, result, written, promised, got>>
      BY <2>2 DEF Accept, history
    <3>2. ~Gone("server") /\ flights["server"] < Flights
      BY <2>0, <3>1 DEF Gone, IInv, Link, Calling
    <3>3. Sending("shake", <<>>).op = "shake" /\ Sending("shake", <<>>).left = <<>>
      BY DEF Sending
    <3>4. sock'["server"] = "open"
      BY <2>0, <3>1 DEF Shape
    <3> QED
      BY <2>0, <3>1, <3>2, <3>3, <3>4
  <2> QED
    BY <2>1, <2>2
<1>2. /\ Peer[e] \in Ends /\ Peer[e] # e /\ Peer[Peer[e]] = e /\ Peer' = Peer
      /\ \A x \in Ends : x = e \/ x = Peer[e]
  BY BothEnds DEF Peer, Ends
<1> DEFINE p == Peer[e]
<1>3. /\ sock'[p] = sock[p] /\ call'[p] = call[p]
      /\ call'[e].op = "shake" /\ call'[e].left \in {<<>>, Flight}
  <2>1. PICK c : /\ call' = [call EXCEPT ![e] = c]
                 /\ c.op = "shake" /\ c.left \in {<<>>, Flight}
    BY <1>1
  <2>2. call'[e] = c /\ call'[p] = call[p]
    BY <1>2, <2>1, CallSet, ZenonT(30) DEF IInv
  <2>3. sock'[p] = sock[p]
    BY <1>1, <1>2 DEF IInv, Shape
  <2> QED
    BY <2>1, <2>2, <2>3
<1>4. /\ Marked(e) /\ Told(e) /\ Arrives(e) /\ Quiet(e)
      /\ Marked(p) /\ Told(p) /\ Arrives(p) /\ Quiet(p)
  BY <1>2 DEF Delivery
<1>5. written[e] = 0 /\ written[p] = 0 /\ promised[e] = 0
  BY <1>1, NothingYet
<1>6. Marked(e)'
  <2>1. EndMarked(call'[e].left, promised[e], written[e])
    <3>1. call'[e].left \in Seq(Unit) /\ Sendable(call'[e].left, 0)
      BY <1>3, FlightFacts, EmptyFacts, SendableFacts, ZenonT(30)
    <3> QED
      BY <3>1, MarkFacts
  <2> QED
    BY <1>1, <1>2, <1>3, <1>4, <2>1 DEF Marked
<1>7. Marked(p)'
  BY <1>1, <1>2, <1>3, <1>4, MarkedKept
<1>8. Arrives(e)' /\ Arrives(p)'
  <2>1. flights[e] # Flights
    <3>1. flights[e] \in 0..Flights /\ Flights \in Nat
      BY FlightType, StreamAssumption DEF IInv
    <3> QED
      BY <1>1, <3>1
  <2> QED
    BY <1>1, <1>2, <1>3, <1>4, <2>1 DEF Arrives, Sound
<1>9. Quiet(e)' /\ Quiet(p)'
  BY <1>1, <1>3, <1>4 DEF Quiet, Gone
<1>10. Told(e)' /\ Told(p)'
  BY <1>1, <1>2, <1>3, <1>4 DEF Told, Gone
<1> QED
  BY <1>2, <1>6, <1>7, <1>8, <1>9, <1>10 DEF Delivery

LEMMA WriteDelivery ==
  ASSUME IInv, Handshake, Delivery, NEW e \in Ends, NEW n \in Sizes, Write(e, n)
  PROVE  Delivery'
<1>1. /\ Peer[e] \in Ends /\ Peer[e] # e /\ Peer[Peer[e]] = e /\ Peer' = Peer
      /\ \A x \in Ends : x = e \/ x = Peer[e]
  BY BothEnds DEF Peer, Ends
<1> DEFINE p == Peer[e]
<1>2. /\ sock[e] = "open"
      /\ call' = [call EXCEPT ![e] = Sending("write", Record(written[e], n))]
      /\ written' = [written EXCEPT ![e] = @ + n]
      /\ UNCHANGED <<sock, wire, flights, held, next, result, promised, got>>
  BY DEF Write, Usable
<1>3. /\ Shape /\ n \in Nat \ {0} /\ written[e] \in Nat /\ promised[e] \in Nat
      /\ wire[e] \in Seq(Unit) /\ held[p] \in Seq(Unit)
  BY <1>1, FlightType, StreamAssumption DEF IInv
<1>4. /\ written'[e] = written[e] + n /\ written'[p] = written[p]
  BY <1>1, <1>2, <1>3 DEF Shape
<1>5. /\ call'[e].op = "write" /\ call'[e].left = Record(written[e], n)
      /\ call'[p] = call[p]
  <2>1. /\ Sending("write", Record(written[e], n)).op = "write"
        /\ Sending("write", Record(written[e], n)).left = Record(written[e], n)
    BY DEF Sending
  <2>2. /\ call'[e] = Sending("write", Record(written[e], n)) /\ call'[p] = call[p]
    BY <1>1, <1>2, <1>3, CallSet
  <2> QED
    BY <2>1, <2>2
<1>6. /\ Marked(e) /\ Told(e) /\ Arrives(e) /\ Quiet(e)
      /\ Marked(p) /\ Told(p) /\ Arrives(p) /\ Quiet(p)
  BY <1>1 DEF Delivery
<1>7. Marked(e)'
  <2>1. ASSUME NEW s \in Seq(Unit), Sendable(s, written[e]),
               EndMarked(s, promised[e], written[e])
        PROVE  EndMarked(s, promised[e], written'[e])
    <3>1. ASSUME NEW i \in 1..Len(s) PROVE s[i].byte # written'[e]
      <4>1. s[i].byte \in Nat /\ s[i].byte <= written[e]
        <5>1. s[i] \in Unit
          OBVIOUS
        <5> QED
          BY <2>1, <5>1 DEF Sendable, Unit
      <4> QED
        BY <1>3, <1>4, <4>1
    <3> QED
      BY <2>1, <3>1 DEF EndMarked
  <2>2. /\ EndMarked(wire[e], promised[e], written'[e])
        /\ EndMarked(held[p], promised[e], written'[e])
    <3>1. Sendable(wire[e], written[e])
      BY DEF IInv, OnWire
    <3>2. /\ EndMarked(wire[e], promised[e], written[e])
          /\ EndMarked(held[p], promised[e], written[e])
          /\ Sendable(held[p], written[e])
      BY <1>6 DEF Marked
    <3> QED
      BY <1>3, <2>1, <3>1, <3>2
  <2>3. written'[e] \in Nat /\ written'[e] >= written[e] /\ promised[e] <= written'[e]
    <3>1. promised[e] <= written[e]
      BY <1>6 DEF Marked
    <3> QED
      BY <1>3, <1>4, <3>1
  <2>4. Sendable(held[p], written'[e])
    <3>1. Sendable(held[p], written[e])
      BY <1>6 DEF Marked
    <3> QED
      BY <1>3, <2>3, <3>1, SendableFacts
  <2>5. /\ EndMarked(Record(written[e], n), promised[e], written'[e])
        /\ Record(written[e], n) # <<>>
        /\ Record(written[e], n)[Len(Record(written[e], n))].byte = written'[e]
    <3> DEFINE r == Record(written[e], n)
    <3>1. /\ r \in Seq(Unit) /\ Len(r) = n /\ \A i \in 1..n : r[i].byte = written[e] + i
          /\ \A i \in 1..n : r[i].last <=> i = n
      <4>1. r \in Seq(Unit) /\ Len(r) = n /\ \A i \in 1..n : r[i].byte = written[e] + i
        BY <1>3, RecordFacts
      <4>2. \A i \in 1..n : r[i].last <=> i = n
        BY DEF Record
      <4> QED
        BY <4>1, <4>2
    <3>2. promised[e] <= written[e]
      BY <1>6 DEF Marked
    <3> HIDE DEF r
    <3>3. r # <<>> /\ r[Len(r)].byte = written'[e]
      BY <1>3, <1>4, <3>1, EmptyFacts
    <3>4. ASSUME NEW i \in 1..n, r[i].byte \in {promised[e], written'[e]} PROVE r[i].last
      <4>1. written[e] + i = promised[e] \/ written[e] + i = written[e] + n
        BY <1>4, <3>1, <3>4
      <4>2. i = n
        BY <1>3, <3>2, <4>1
      <4> QED
        BY <3>1, <4>2
    <3> QED
      BY <3>1, <3>3, <3>4 DEF EndMarked, r
  <2> QED
    BY <1>1, <1>2, <1>5, <2>2, <2>3, <2>4, <2>5 DEF Marked
<1>8. Marked(p)'
  BY <1>1, <1>2, <1>4, <1>5, <1>6 DEF Marked
<1>9. Arrives(e)' /\ Arrives(p)'
  BY <1>1, <1>2, <1>6 DEF Arrives, Sound
<1>10. Quiet(e)' /\ Quiet(p)'
  BY <1>2, <1>5, <1>6 DEF Quiet, Gone
<1>11. Told(e)' /\ Told(p)'
  BY <1>1, <1>2, <1>6 DEF Told, Gone
<1> QED
  BY <1>1, <1>7, <1>8, <1>9, <1>10, <1>11 DEF Delivery

--------------------------------------------------------------------------------
\* A token is out: all of a record is on the wire, or nobody will read it.
LEMMA SentDelivery ==
  ASSUME IInv, Handshake, Delivery, NEW e \in Ends, Sent(e), call[e].left # <<>>,
         UNCHANGED <<sock, held, next, written, got>>, wire'[Peer[e]] = wire[Peer[e]],
         \/ wire'[e] = wire[e] /\ Gone(Peer[e])
         \/ wire'[e] = wire[e] \o call[e].left
  PROVE  Delivery'
<1>1. /\ Peer[e] \in Ends /\ Peer[e] # e /\ Peer[Peer[e]] = e /\ Peer' = Peer
      /\ \A x \in Ends : x = e \/ x = Peer[e]
  BY BothEnds DEF Peer, Ends
<1> DEFINE p == Peer[e]
           left == call[e].left
<1>2. /\ call[e].op \in {"shake", "write"} /\ call'[e].left = <<>>
      /\ result'[e] \in {"ok", result[e]} /\ call'[e].op \in {"none", "shake"}
      /\ call'[p] = call[p] /\ result'[p] = result[p]
      /\ flights'[p] = flights[p] /\ promised'[p] = promised[p]
      /\ call[e].op = "write" => flights'[e] = flights[e] /\ promised'[e] = written[e]
      /\ call[e].op = "shake" => promised'[e] = promised[e]
  BY SentFacts
<1>3. /\ Marked(e) /\ Told(e) /\ Arrives(e) /\ Quiet(e)
      /\ Marked(p) /\ Told(p) /\ Arrives(p) /\ Quiet(p)
  BY <1>1 DEF Delivery
<1>4. /\ wire[e] \in Seq(Unit) /\ left \in Seq(Unit) /\ held[p] \in Seq(Unit)
      /\ written[e] \in Nat /\ promised[e] \in Nat
  BY <1>1, FlightType DEF IInv
<1>5. /\ promised'[e] \in {promised[e], written[e]} /\ promised'[e] <= written[e]
      /\ promised[e] <= promised'[e]
  <2>1. promised[e] <= written[e] /\ written[e] <= written[e] /\ promised[e] <= promised[e]
    BY <1>3, <1>4 DEF Marked
  <2> QED
    BY <1>2, <2>1
<1>6. Marked(e)'
  <2>1. /\ EndMarked(wire[e], promised[e], written[e])
        /\ EndMarked(held[p], promised[e], written[e])
        /\ EndMarked(left, promised[e], written[e])
    BY <1>3 DEF Marked
  <2>2. EndMarked(wire'[e], promised[e], written[e])
    BY <1>4, <2>1, MarkFacts
  <2>3. /\ EndMarked(wire'[e], promised'[e], written[e])
        /\ EndMarked(held[p], promised'[e], written[e])
    BY <1>5, <2>1, <2>2 DEF EndMarked
  <2>4. EndMarked(<<>>, promised'[e], written[e])
    BY MarkFacts
  <2> QED
    BY <1>1, <1>2, <1>3, <1>5, <2>3, <2>4 DEF Marked
<1>7. Marked(p)'
  BY <1>1, <1>2, <1>3 DEF Marked
<1>8. Arrives(e)'
  <2> SUFFICES ASSUME Sound(p)'
               PROVE  \/ promised'[e] < next[p]
                      \/ \E i \in 1..Len(wire'[e]) : wire'[e][i].byte = promised'[e]
    BY <1>1 DEF Arrives
  <2>1. Sound(p) /\ wire'[e] = wire[e] \o left
    BY <1>2 DEF Sound, Gone
  <2>2. /\ Len(wire'[e]) = Len(wire[e]) + Len(left)
        /\ \A i \in 1..Len(wire[e]) : wire'[e][i] = wire[e][i]
        /\ \A i \in 1..Len(left) : wire'[e][Len(wire[e]) + i] = left[i]
        /\ Len(left) \in Nat \ {0} /\ Len(wire[e]) \in Nat
    <3> DEFINE w == wire[e]
               l == left
    <3>1. w \in Seq(Unit) /\ l \in Seq(Unit) /\ l # <<>> /\ wire'[e] = w \o l
      BY <1>4, <2>1
    <3> HIDE DEF w, l, left
    <3>2. Len(l) \in Nat \ {0} /\ Len(w) \in Nat
      BY <3>1
    <3> QED
      BY <3>1, <3>2, JoinUnits DEF w, l
  <2>3. /\ Len(left) \in 1..Len(left) /\ Len(wire[e]) + Len(left) \in 1..Len(wire'[e])
        /\ \A i \in 1..Len(wire[e]) : i \in 1..Len(wire'[e])
    <3>1. \A a \in Nat, b \in Nat \ {0} : /\ b \in 1..b /\ a + b \in 1..(a + b)
                                           /\ \A i \in 1..a : i \in 1..(a + b)
      OBVIOUS
    <3> QED
      BY <2>2, <3>1
  <2>4. CASE call[e].op = "write"
    <3>1. left[Len(left)].byte = written[e]
      BY <1>3, <2>4 DEF Marked
    <3> QED
      BY <1>2, <2>2, <2>3, <2>4, <3>1
  <2>5. CASE call[e].op = "shake"
    BY <1>2, <1>3, <2>1, <2>2, <2>3, <2>5 DEF Arrives
  <2> QED
    BY <1>2, <2>4, <2>5
<1>9. Arrives(p)'
  <2>1. CASE call[e].op = "write"
    <3>1. Sound(e)
      BY <2>1 DEF IInv, Link, Calling
    <3> QED
      BY <1>1, <1>2, <1>3, <3>1 DEF Arrives
  <2>2. CASE call[e].op = "shake"
    <3>1. flights[e] < Flights
      BY <2>2 DEF IInv, Link, Calling
    <3>2. promised[p] = 0 /\ next[e] = 1
      BY <3>1, NothingYet
    <3> QED
      BY <1>1, <1>2, <3>2 DEF Arrives
  <2> QED
    BY <1>2, <2>1, <2>2
<1>10. ~Gone(e)
  BY <1>2, <1>3 DEF Quiet
<1>11. Quiet(e)' /\ Quiet(p)'
  BY <1>2, <1>3, <1>10 DEF Quiet, Gone
<1>12. Told(e)' /\ Told(p)'
  BY <1>1, <1>2, <1>3, <1>10 DEF Told, Gone
<1> QED
  BY <1>1, <1>6, <1>7, <1>8, <1>9, <1>11, <1>12 DEF Delivery

LEMMA SendDelivery ==
  ASSUME IInv, Handshake, Delivery, NEW e \in Ends, Send(e) \/ SendInVain(e)
  PROVE  Delivery'
<1>1. /\ call[e].left # <<>> /\ UNCHANGED <<sock, held, next, written, got>>
      /\ Peer[e] \in Ends /\ Peer[e] # e /\ Peer[Peer[e]] = e /\ Peer' = Peer
      /\ \A x \in Ends : x = e \/ x = Peer[e]
  BY BothEnds DEF Send, SendInVain, Peer, Ends
<1>2. CASE SendInVain(e)
  BY <1>1, <1>2, SentDelivery DEF SendInVain
<1>3. CASE Send(e)
  <2>1. PICK k \in 1..Len(call[e].left) :
           /\ wire'[e] = wire[e] \o First(call[e].left, k)
           /\ wire'[Peer[e]] = wire[Peer[e]]
           /\ \/ k = Len(call[e].left) /\ Sent(e)
              \/ /\ k < Len(call[e].left)
                 /\ call'[e].op = call[e].op /\ call'[e].left = After(call[e].left, k)
                 /\ call'[Peer[e]] = call[Peer[e]]
                 /\ UNCHANGED <<flights, result, promised>>
    BY <1>3, SendCases
  <2>2. /\ call[e].left \in Seq(Unit) /\ wire[e] \in Seq(Unit)
        /\ k \in 0..Len(call[e].left)
    BY FlightType DEF IInv
  <2>3. CASE k = Len(call[e].left) /\ Sent(e)
    <3>1. First(call[e].left, k) = call[e].left
      BY <2>2, <2>3 DEF First
    <3> QED
      BY <1>1, <2>1, <2>3, <3>1, SentDelivery
  <2>4. CASE /\ k < Len(call[e].left)
             /\ call'[e].op = call[e].op /\ call'[e].left = After(call[e].left, k)
             /\ call'[Peer[e]] = call[Peer[e]]
             /\ UNCHANGED <<flights, result, promised>>
    <3> DEFINE p == Peer[e]
               left == call[e].left
               first == First(left, k)
               rest == After(left, k)
    <3>1. /\ Marked(e) /\ Told(e) /\ Arrives(e) /\ Quiet(e)
          /\ Marked(p) /\ Told(p) /\ Arrives(p) /\ Quiet(p)
      BY <1>1 DEF Delivery
    <3>2. /\ first \in Seq(Unit) /\ rest \in Seq(Unit) /\ Len(rest) = Len(left) - k
          /\ \A i \in 1..(Len(left) - k) : rest[i] = left[k + i]
      BY <2>2, CutFacts
    <3>3. Marked(e)'
      <4>1. /\ EndMarked(wire[e], promised[e], written[e])
            /\ EndMarked(left, promised[e], written[e])
        BY <3>1 DEF Marked
      <4>2. /\ EndMarked(first, promised[e], written[e])
            /\ EndMarked(rest, promised[e], written[e])
        BY <2>2, <4>1, MarkFacts
      <4>3. EndMarked(wire'[e], promised[e], written[e])
        BY <2>1, <2>2, <3>2, <4>1, <4>2, MarkFacts
      <4>4. rest # <<>> /\ rest[Len(rest)] = left[Len(left)]
        <5> HIDE DEF left, rest
        <5>1. Len(left) \in Nat
          BY <2>2 DEF left
        <5>2. Len(left) - k \in 1..(Len(left) - k) /\ k + (Len(left) - k) = Len(left)
              /\ Len(rest) # 0
          BY <2>4, <3>2, <5>1 DEF left
        <5> QED
          BY <3>2, <5>2, EmptyFacts
      <4> QED
        BY <1>1, <2>4, <3>1, <4>2, <4>3, <4>4 DEF Marked
    <3>4. Marked(p)'
      BY <1>1, <2>1, <2>4, <3>1 DEF Marked
    <3>5. Arrives(e)'
      <4>1. \A i \in 1..Len(wire[e]) : i \in 1..Len(wire'[e]) /\ wire'[e][i] = wire[e][i]
        <5> DEFINE w == wire[e]
        <5>1. w \in Seq(Unit) /\ first \in Seq(Unit) /\ wire'[e] = w \o first
          BY <2>1, <2>2, <3>2
        <5> HIDE DEF w, first, left
        <5>2. /\ Len(w \o first) = Len(w) + Len(first) /\ Len(w) \in Nat /\ Len(first) \in Nat
              /\ \A i \in 1..Len(w) : (w \o first)[i] = w[i]
          BY <5>1, JoinUnits
        <5>3. \A i \in 1..Len(w) : i \in 1..(Len(w) + Len(first))
          BY <5>2
        <5> QED
          BY <5>1, <5>2, <5>3 DEF w
      <4> QED
        BY <1>1, <2>4, <3>1, <4>1 DEF Arrives, Sound
    <3>6. Arrives(p)'
      BY <1>1, <2>1, <2>4, <3>1 DEF Arrives, Sound
    <3>7. Quiet(e)' /\ Quiet(p)'
      BY <1>1, <2>4, <3>1 DEF Quiet, Gone
    <3>8. Told(e)' /\ Told(p)'
      BY <1>1, <2>4, <3>1 DEF Told, Gone
    <3> QED
      BY <1>1, <3>3, <3>4, <3>5, <3>6, <3>7, <3>8 DEF Delivery
  <2> QED
    BY <2>1, <2>3, <2>4
<1> QED
  BY <1>2, <1>3

--------------------------------------------------------------------------------
\* Units arrive: none of them is lost between the wire and the SSL layer.
LEMMA ReceiveDelivery ==
  ASSUME IInv, Handshake, Delivery, NEW e \in Ends, Receive(e)
  PROVE  Delivery'
<1>1. /\ Peer[e] \in Ends /\ Peer[e] # e /\ Peer[Peer[e]] = e /\ Peer' = Peer
      /\ \A x \in Ends : x = e \/ x = Peer[e]
  BY BothEnds DEF Peer, Ends
<1>2. call[e].left = <<>> /\ UNCHANGED <<sock, written, promised>>
  BY DEF Receive
<1>3. PICK k \in 1..Len(wire[Peer[e]]) :
           /\ wire'[Peer[e]] = After(wire[Peer[e]], k) /\ wire'[e] = wire[e]
           /\ \/ ReceiveFlight(e, held[e] \o First(wire[Peer[e]], k))
              \/ ReceiveData(e, held[e] \o First(wire[Peer[e]], k), k)
  BY ReceiveCases
<1> DEFINE p == Peer[e]
           w == wire[p]
           f == First(w, k)
           all == held[e] \o f
           n == written[p]
           m == promised[p]
<1>4. /\ w \in Seq(Unit) /\ held[e] \in Seq(Unit) /\ Len(w) \in Nat
      /\ k \in Nat /\ k >= 1 /\ k <= Len(w) /\ k \in 0..Len(w) /\ n \in Nat
      /\ next[e] \in Nat /\ m \in Nat
  <2>1. /\ w \in Seq(Unit) /\ held[e] \in Seq(Unit) /\ n \in Nat
        /\ next[e] \in Nat /\ m \in Nat
    BY <1>1, FlightType DEF IInv
  <2> QED
    BY <2>1
<1>5. /\ Marked(e) /\ Told(e) /\ Arrives(e) /\ Quiet(e)
      /\ Marked(p) /\ Told(p) /\ Arrives(p) /\ Quiet(p)
  BY <1>1 DEF Delivery
<1>6. /\ EndMarked(w, m, n) /\ EndMarked(held[e], m, n)
      /\ Sendable(w, n) /\ Sendable(held[e], n)
  BY <1>1, <1>5 DEF Marked, IInv, OnWire
<1>7. /\ f \in Seq(Unit) /\ After(w, k) \in Seq(Unit)
      /\ EndMarked(f, m, n) /\ EndMarked(After(w, k), m, n)
      /\ Sendable(f, n)
  <2> HIDE DEF w, n, m, p
  <2> QED
    BY <1>4, <1>6, CutFacts, MarkFacts, SendableFacts
<1>8. /\ all \in Seq(Unit) /\ EndMarked(all, m, n) /\ Sendable(all, n)
  <2> HIDE DEF w, n, m, p, f
  <2> QED
    BY <1>4, <1>6, <1>7, JoinUnits, MarkFacts, SendableFacts
<1>9. ReceiveFlight(e, all) \/ ReceiveData(e, all, k)
  BY <1>3
<1>10. Untouched(p)
  <2>1. CASE ReceiveFlight(e, all)
    BY <1>1, <1>2, <1>8, <2>1, FlightLink
  <2>2. CASE ReceiveData(e, all, k)
    BY <1>1, <1>2, <1>4, <2>2, DataLink
  <2> QED
    BY <1>9, <2>1, <2>2
<1>11. /\ call'[e].op \in {"none", "shake", "read", "full"}
       /\ call'[e].left \in {<<>>, Flight}
       /\ call'[e].left # <<>> => flights[e] < Flights
       /\ call[e].op # "none"
       /\ result'[e] = "eof" => result[e] = "eof" /\ got'[e] = got[e]
  <2>1. CASE ReceiveFlight(e, all)
    <3>1. call[e].op = "shake" /\ flights[e] < Flights
      BY <1>2, <2>1, FlightCases DEF IInv, Link, Calling
    <3> HIDE DEF all
    <3> QED
      BY <1>2, <2>1, <3>1, FlightCases
  <2>2. CASE ReceiveData(e, all, k)
    <3> HIDE DEF all
    <3> QED
      BY <1>4, <2>2, DataCases
  <2> QED
    BY <1>9, <2>1, <2>2
<1>12. \/ held'[e] \in {held[e], <<>>}
       \/ \E c \in 0..Len(all) : held'[e] = After(all, c)
  <2> HIDE DEF w, p, f, all
  <2>1. CASE ReceiveFlight(e, all)
    <3>1. held'[e] \in {all, <<>>}
      BY <1>2, <2>1, FlightCases
    <3>2. After(all, 0) = all /\ 0 \in 0..Len(all)
      BY <1>8 DEF After
    <3> QED
      BY <3>1, <3>2
  <2>2. CASE ReceiveData(e, all, k)
    BY <1>4, <2>2, DataCases
  <2> QED
    BY <1>9, <2>1, <2>2
<1>13. EndMarked(held'[e], m, n) /\ Sendable(held'[e], n)
  <2> HIDE DEF w, p, f, all, m, n
  <2>1. CASE held'[e] \in {held[e], <<>>}
    BY <1>4, <1>6, <2>1, MarkFacts, SendableFacts
  <2>2. ASSUME NEW c \in 0..Len(all), held'[e] = After(all, c)
        PROVE  EndMarked(held'[e], m, n) /\ Sendable(held'[e], n)
    <3>1. c \in Nat /\ c <= Len(all)
      <4>1. Len(all) \in Nat
        BY <1>8
      <4> QED
        BY <4>1
    <3> QED
      BY <1>4, <1>8, <2>2, <3>1, MarkFacts, SendableFacts
  <2> QED
    BY <1>12, <2>1, <2>2
<1>14. Marked(p)'
  BY <1>1, <1>2, <1>3, <1>5, <1>7, <1>10, <1>13 DEF Marked, Untouched
<1>15. Marked(e)'
  <2>1. EndMarked(call'[e].left, promised[e], written[e])
    <3>1. CASE call'[e].left = <<>>
      BY <3>1, MarkFacts
    <3>2. CASE call'[e].left # <<>>
      BY <1>4, <1>11, <3>2, FlightFacts, SendableFacts, MarkFacts
    <3> QED
      BY <3>1, <3>2
  <2> QED
    BY <1>1, <1>2, <1>3, <1>5, <1>10, <1>11, <2>1 DEF Marked, Untouched
<1>16. Arrives(e)'
  BY <1>1, <1>2, <1>3, <1>5, <1>10 DEF Arrives, Sound, Untouched
<1>17. Arrives(p)'
  <2> SUFFICES ASSUME Sound(e)'
               PROVE  \/ m < next'[e]
                      \/ \E i \in 1..Len(wire'[p]) : wire'[p][i].byte = m
    BY <1>1, <1>2 DEF Arrives
  <2>1. CASE ReceiveFlight(e, all)
    <3>1. flights[e] < Flights /\ next' = next
      BY <1>2, <2>1, FlightCases DEF IInv, Link, Calling
    <3>2. m = 0 /\ next[e] = 1
      BY <3>1, NothingYet
    <3> QED
      BY <3>1, <3>2
  <2>2. CASE ReceiveData(e, all, k)
    <3>1. /\ next'[e] = next[e] + k
          /\ \A i \in 1..k : all[Len(held[e]) + i].byte = next[e] + i - 1
          /\ call[e].op \in {"read", "full"}
      <4> HIDE DEF w, p, f, all
      <4> QED
        BY <1>4, <2>2, DataCases DEF Sound
    <3>2. \A i \in 1..k : w[i].byte = next[e] + i - 1
      <4> DEFINE h == held[e]
      <4>1. /\ f \in Seq(Unit) /\ h \in Seq(Unit) /\ Len(f) = k
            /\ \A i \in 1..k : f[i] = w[i]
            /\ all = h \o f
        <5> HIDE DEF w
        <5> QED
          BY <1>4, CutFacts
      <4>2. \A i \in 1..k : all[Len(h) + i] = f[i]
        <5> HIDE DEF f, h, all
        <5> QED
          BY <4>1, JoinUnits
      <4> QED
        BY <3>1, <4>1, <4>2
    <3>3. Sound(e)
      BY <3>1 DEF IInv, Link, Calling
    <3>4. m < next[e] \/ \E i \in 1..Len(w) : w[i].byte = m
      BY <1>1, <1>5, <3>3 DEF Arrives
    <3>5. CASE m < next[e]
      <4> HIDE DEF m
      <4> QED
        BY <1>4, <3>1, <3>5
    <3>6. ASSUME NEW i \in 1..Len(w), w[i].byte = m
          PROVE  \/ m < next'[e]
                 \/ \E j \in 1..Len(wire'[p]) : wire'[p][j].byte = m
      <4>1. CASE i <= k
        <5>1. i \in 1..k /\ m = next[e] + i - 1
          BY <1>4, <3>2, <3>6, <4>1
        <5> HIDE DEF m, w
        <5> QED
          BY <1>4, <3>1, <5>1
      <4>2. CASE ~(i <= k)
        <5> HIDE DEF w
        <5>1. i - k \in 1..(Len(w) - k) /\ k + (i - k) = i
          BY <1>4, <4>2
        <5>2. /\ Len(After(w, k)) = Len(w) - k
              /\ \A j \in 1..(Len(w) - k) : After(w, k)[j] = w[k + j]
          BY <1>4, CutFacts
        <5>3. wire'[p] = After(w, k)
          BY <1>3 DEF w
        <5> QED
          BY <3>6, <5>1, <5>2, <5>3
      <4> QED
        BY <4>1, <4>2
    <3> QED
      BY <3>4, <3>5, <3>6
  <2> QED
    BY <1>9, <2>1, <2>2
<1>18. Quiet(e)' /\ Quiet(p)'
  BY <1>2, <1>5, <1>10, <1>11 DEF Quiet, Gone, Untouched
<1>19. Told(e)' /\ Told(p)'
  BY <1>1, <1>2, <1>5, <1>10, <1>11 DEF Told, Gone, Untouched
<1> QED
  BY <1>1, <1>14, <1>15, <1>16, <1>17, <1>18, <1>19 DEF Delivery

LEMMA DeliveryKept ==
  ASSUME IInv, IInv', Handshake, Delivery, [Next]_vars
  PROVE  Delivery'
<1>1. CASE \/ UNCHANGED vars \/ Tick
           \/ \E e \in Ends : \/ \E t \in Timeouts : SetTimeout(e, t)
                              \/ \E n \in Sizes : Read(e, n) \/ ReadFull(e, n) \/ Unread(e, n)
  BY <1>1, RestingSteps, RestingDelivery
<1>2. ASSUME NEW e \in Ends,
             Failing(e) \/ Close(e) \/ Kill(e)
      PROVE  Delivery'
  <2>1. Resting \/ Leaving(e)
    BY <1>2, FailingSteps, GoingLeaves
  <2> QED
    BY <2>1, RestingDelivery, LeavingDelivery
<1>3. CASE Dials \/ Dialled \/ Accept
  BY <1>3, DialsDelivery, StartDelivery
<1>4. ASSUME NEW e \in Ends, NEW n \in Sizes, Write(e, n) PROVE Delivery'
  BY <1>4, WriteDelivery
<1>5. ASSUME NEW e \in Ends, Send(e) \/ SendInVain(e) \/ Receive(e) PROVE Delivery'
  BY <1>5, SendDelivery, ReceiveDelivery
<1> QED
  BY <1>1, <1>2, <1>3, <1>4, <1>5, NextCases DEF Caller

LEMMA InitDelivery == Init => Handshake /\ Delivery
<1> SUFFICES ASSUME Init PROVE Handshake /\ Delivery
  OBVIOUS
<1>1. \A e \in Ends : Peer[e] \in Ends
  BY PeerFacts
<1>2. \A e \in Ends :
        /\ sock[e] = "none" /\ wire[e] = <<>> /\ flights[e] = 0 /\ held[e] = <<>>
        /\ next[e] = 1 /\ call[e] = NoCall /\ result[e] = "ok"
        /\ written[e] = 0 /\ promised[e] = 0
  BY DEF Init
<1>3. Flights \in Nat \ {0}
  BY StreamAssumption
<1>4. Fresh
  BY <1>2, CallFacts DEF Fresh, Ends
<1>5. ASSUME NEW e \in Ends PROVE Shaken(e)
  <2>1. InTurn(e) /\ Begun(e)
    BY <1>1, <1>2, CallFacts DEF InTurn, ToSend, Begun
  <2>2. OneToken(e) /\ Parts(e)
    BY <1>2, CallFacts, EmptyFacts, TokenEnds DEF OneToken, Parts
  <2> QED
    BY <2>1, <2>2 DEF Shaken
<1>6. ASSUME NEW e \in Ends PROVE Marked(e) /\ Arrives(e) /\ Quiet(e) /\ Told(e)
  <2>1. Marked(e)
    BY <1>1, <1>2, CallFacts, MarkFacts, SendableFacts DEF Marked
  <2>2. Arrives(e) /\ Quiet(e) /\ Told(e)
    BY <1>1, <1>2 DEF Arrives, Quiet, Told, Gone
  <2> QED
    BY <2>1, <2>2
<1> QED
  BY <1>4, <1>5, <1>6 DEF Handshake, Delivery

(***************************************************************************)
(* For any sizes, buffers, timeouts and handshakes, and whatever fails: a  *)
(* reader that is told of the end of the file has been given every byte    *)
(* that was written successfully.  It is told only by an empty wire from   *)
(* an end that has closed, and the last unit of a record that succeeded is *)
(* never left behind in the SSL layer (glite_gss.c:426-430, 940, 953).     *)
(***************************************************************************)
THEOREM EndOfFileMeansAll == Spec => []EndMeansAll
<1>1. IInv /\ Delivery => EndMeansAll
  <2> SUFFICES ASSUME IInv, Delivery, NEW e \in Ends, result[e] = "eof"
               PROVE  Len(got[e]) >= promised[Peer[e]]
    BY DEF EndMeansAll
  <2>1. promised[Peer[e]] <= Len(got[e])
    BY DEF Delivery, Told
  <2>2. got[e] \in Seq(Nat) /\ promised[Peer[e]] \in Nat
    BY PeerFacts, FlightType DEF IInv
  <2>3. Len(got[e]) \in Nat
    BY <2>2
  <2> QED
    BY <2>1, <2>2, <2>3
<1>2. IInv /\ Handshake /\ Delivery /\ [Next]_vars => IInv' /\ Handshake' /\ Delivery'
  BY NextInv, HandshakeKept, DeliveryKept
<1> QED
  BY <1>1, <1>2, InitInv, InitDelivery, PTL DEF Spec

=============================================================================
