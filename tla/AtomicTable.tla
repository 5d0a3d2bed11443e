------------------------------- MODULE AtomicTable -------------------------------
(***************************************************************************)
(* What the callers of the database layer rely on: rows inserted in a      *)
(* transaction reach the table all at once, and only when the caller asks  *)
(* to commit; outside a transaction each statement counts for itself.      *)
(***************************************************************************)
CONSTANTS Rows, Theirs   \* rows, those other programs may insert

VARIABLES table,  \* the rows everybody sees
          open,   \* in a transaction
          rows,   \* those the caller was told are inserted in it
          asked   \* the caller has asked to commit

avars == <<table, open, rows, asked>>

Init == table = {} /\ open = FALSE /\ rows = {} /\ asked = FALSE

\* The statement that begins one commits what was inserted before it.
Begin(R) == /\ ~open /\ open' = TRUE
            /\ table' = table \union R
            /\ UNCHANGED <<rows, asked>>

Insert(R) == /\ open /\ ~asked
             /\ rows' = rows \union R
             /\ UNCHANGED <<table, open, asked>>

Ask == /\ open /\ asked' = TRUE
       /\ UNCHANGED <<table, open, rows>>

Commit == /\ open /\ asked
          /\ table' = table \union rows
          /\ UNCHANGED <<open, rows, asked>>

End == /\ open /\ open' = FALSE /\ rows' = {} /\ asked' = FALSE
       /\ UNCHANGED table

InsertAtOnce(R) == /\ ~open
                   /\ table' = table \union R
                   /\ UNCHANGED <<open, rows, asked>>

Others(r) == /\ table' = table \union {r}
             /\ UNCHANGED <<open, rows, asked>>

Next == \/ Ask \/ Commit \/ End
        \/ \E R \in SUBSET Rows : Begin(R) \/ Insert(R) \/ InsertAtOnce(R)
        \/ \E r \in Theirs : Others(r)

Spec == Init /\ [][Next]_avars
==================================================================================
