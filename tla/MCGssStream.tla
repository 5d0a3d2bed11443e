------------------------------ MODULE MCGssStream ------------------------------
(* The instance of GssStream: a request and a shorter answer.              *)
EXTENDS GssStream

MCMaxBytes == [e \in Ends |-> IF e = "client" THEN 3 ELSE 1]
=============================================================================
