--------------------------- MODULE MCOneShotServer ---------------------------
(* The response is longer than the send buffer of c1, which must read      *)
(* before it can be sent whole, and c1 also sends; the one of c2 takes the *)
(* response in one call.                                                   *)
EXTENDS OneShotServer

CONSTANTS c1, c2

MCBytes == [c \in Clients |-> IF c = c1 THEN 1 ELSE 0]
MCTxCap == [c \in Clients |-> IF c = c1 THEN 2 ELSE 3]
=============================================================================
