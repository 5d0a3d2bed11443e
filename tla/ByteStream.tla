------------------------------- MODULE ByteStream -------------------------------
(***************************************************************************)
(* What the GSS wrapper promises its callers: two ends connected by two    *)
(* streams of bytes.  An end is given the bytes of the other one in the    *)
(* order they were written, each once, never one that was not written; it  *)
(* may put back what it was given last.                                    *)
(***************************************************************************)
EXTENDS Integers, Sequences

CONSTANTS Ends,   \* of the connection
          Peer    \* Peer[e] is the other end

VARIABLES sent,    \* the bytes an end has written
          given    \* the bytes an end holds of those the other one has written

svars == <<sent, given>>

Init == /\ sent = [e \in Ends |-> <<>>]
        /\ given = [e \in Ends |-> <<>>]

\* s begins with p.
Begins(p, s) == /\ Len(p) <= Len(s)
                /\ \A i \in 1..Len(p) : p[i] = s[i]

\* An end writes; nobody is given anything.
Send(e) == /\ sent' = [sent EXCEPT ![e] = sent'[e]]
           /\ Begins(sent[e], sent'[e])
           /\ UNCHANGED given

Give(e) == /\ given' = [given EXCEPT ![e] = given'[e]]
           /\ Begins(given[e], given'[e])
           /\ Begins(given'[e], sent[Peer[e]])
           /\ UNCHANGED sent

PutBack(e) == /\ given' = [given EXCEPT ![e] = given'[e]]
              /\ Begins(given'[e], given[e])
              /\ UNCHANGED sent

Next == \E e \in Ends : Send(e) \/ Give(e) \/ PutBack(e)

Spec == Init /\ [][Next]_svars

(***************************************************************************)
(* Every byte an end holds is the one written in its place.                *)
(***************************************************************************)
Faithful == \A e \in Ends : Begins(given[e], sent[Peer[e]])
=============================================================================
