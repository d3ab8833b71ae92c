---------------------------- MODULE MCHashmapRcu ----------------------------
(* Two keys share a bucket, so that lists have neighbours; with fewer      *)
(* addresses than inserts, entries are reused.                             *)
EXTENDS HashmapRcuHistory, TLC

CONSTANTS u1, u2, u3, k1, k2, k3, b1, b2, e1, e2, e3, v1, v2

MCHash == [k \in Keys |-> IF k = k3 THEN b2 ELSE b1]
MCSymmetry == Permutations(Users) \cup Permutations(Entries) \cup Permutations(Values)
=============================================================================
