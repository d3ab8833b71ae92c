---------------------------- MODULE MCHashmapLock ----------------------------
(* Two keys share a bucket; with fewer addresses than inserts, entries are *)
(* reused.                                                                 *)
EXTENDS HashmapLock

CONSTANTS k1, k2, k3, b1, b2

MCHash == [k \in Keys |-> IF k = k3 THEN b2 ELSE b1]
=============================================================================
