-------------------------- MODULE HashmapRcuHistory --------------------------
(***************************************************************************)
(* HashmapRcu with a history variable, to say what pe_map_get promises.    *)
(***************************************************************************)
EXTENDS HashmapRcu

VARIABLE seen   \* seen[u]: what the key of u's get has mapped to during the call

\* What the map holds for key k: a value, or NULL.
Lookup(k) ==
    LET found == {e \in Entries : slab[e] = "linked" /\ ent[e].key = k}
    IN  IF found = {} THEN NULL ELSE ent[CHOOSE e \in found : TRUE].value

Observe ==
    seen' = [u \in Users |->
                IF ~InRcu(u)' THEN {}
                ELSE (IF InRcu(u) THEN seen[u] ELSE {}) \cup {Lookup(req[u].key)'}]

HistoryInit == Init /\ seen = [u \in Users |-> {}]

HistoryNext == Next /\ Observe

HistorySpec == HistoryInit /\ [][HistoryNext]_<<vars, seen>>

\* pe_map_get takes effect at one moment: the value it returns was the
\* key's value at some point between its call and its return, and it fails
\* only if the key was absent at some such point.
GetLinearizable ==
    \A u \in Users : pc[u] = "read_unlock" => ret[u] \in seen[u]
=============================================================================
