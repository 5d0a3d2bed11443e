--------------------------- MODULE MCDbTransactions ---------------------------
(* The instance of DbTransactions for TLC: names of rows.                      *)
EXTENDS DbTransactions

CONSTANTS r1, r2, r3
===============================================================================
