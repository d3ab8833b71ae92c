--------------------------- MODULE MCEpolloutEcho ---------------------------
(* One client sends enough bytes to wrap the ring more than once, a second *)
(* one shares the batches and the acceptor.                                *)
EXTENDS EpolloutEcho

CONSTANTS c1, c2

MCBytes == [c \in Clients |-> IF c = c1 THEN 6 ELSE 1]
MCTxCap == [c \in Clients |-> 2]
=============================================================================
