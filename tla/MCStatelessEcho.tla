--------------------------- MODULE MCStatelessEcho ---------------------------
(* c1 sends twice the server's buffer over a send buffer that fills up.    *)
(* The third client of the poll server gets a descriptor that is out of    *)
(* range if the other two are open, and no slot of the table otherwise.    *)
EXTENDS StatelessEcho

CONSTANTS c1, c2, c3, c4

MCCallers == [g \in Programs |-> IF g = "poll" THEN {c2, c3, c4} ELSE {c1, c2}]
MCBytes == [c \in Clients |-> CASE c = c1 -> 4 [] c = c2 -> 1 [] c = c3 -> 2 [] c = c4 -> 0]
MCTxCap == [c \in Clients |-> IF c = c1 THEN 2 ELSE 1]
=============================================================================
