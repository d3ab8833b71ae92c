-------------------------- MODULE MCResponseServer --------------------------
(* c1 sends two requests and a half, byte by byte, to responses longer     *)
(* than its send buffer; c2 sends one and shares batches and acceptor.     *)
EXTENDS ResponseServer

CONSTANTS c1, c2

MCBytes == [c \in Clients |-> IF c = c1 THEN 5 ELSE 2]
MCTxCap == [c \in Clients |-> IF c = c1 THEN 2 ELSE 1]
=============================================================================
