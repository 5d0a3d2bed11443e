-------------------------------- MODULE HandOver --------------------------------
(***************************************************************************)
(* What the server bones promise for connections: one that was let in      *)
(* waits with the others, in order, until a slave takes it; one slave at a *)
(* time holds it, and no slave holds two.  Who is let go, for another or   *)
(* because its slave is done with it or dead, is closed.                   *)
(***************************************************************************)
EXTENDS Integers, Sequences

CONSTANTS Clients,   \* the connections
          Slaves,    \* who serve them
          None       \* no connection

VARIABLES waiting,   \* the connections let in and not taken yet
          holder,    \* holder[s]: the connection slave s has
          fate       \* what has become of each connection

hvars == <<waiting, holder, fate>>

Init == /\ waiting = <<>>
        /\ holder = [s \in Slaves |-> None]
        /\ fate = [c \in Clients |-> "away"]

\* c has been let in and not let go.
Placed(c) == \/ \E i \in DOMAIN waiting : waiting[i] = c
             \/ \E s \in Slaves : holder[s] = c

Arrive(c) == /\ fate[c] = "away"
             /\ fate' = [fate EXCEPT ![c] = "open"]
             /\ UNCHANGED <<waiting, holder>>

Outside(c) == fate[c] = "open" /\ ~Placed(c)

Admit(c) == /\ Outside(c)
            /\ waiting' = Append(waiting, c)
            /\ UNCHANGED <<holder, fate>>

Refuse(c) == /\ Outside(c)
             /\ fate' = [fate EXCEPT ![c] = "rejected"]
             /\ UNCHANGED <<waiting, holder>>

LetGo(s) == fate' = IF holder[s] = None THEN fate
                                        ELSE [fate EXCEPT ![holder[s]] = "closed"]

Take(s) == /\ waiting # <<>>
           /\ waiting' = Tail(waiting)
           /\ holder' = [holder EXCEPT ![s] = Head(waiting)]
           /\ LetGo(s)

Leave(s) == /\ holder[s] # None
            /\ holder' = [holder EXCEPT ![s] = None]
            /\ LetGo(s)
            /\ UNCHANGED waiting

Next == \/ \E c \in Clients : Arrive(c) \/ Admit(c) \/ Refuse(c)
        \/ \E s \in Slaves : Take(s) \/ Leave(s)

Spec == Init /\ [][Next]_hvars
===============================================================================
