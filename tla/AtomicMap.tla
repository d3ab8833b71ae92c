----------------------------- MODULE AtomicMap -----------------------------
(***************************************************************************)
(* What a hash map of the kernel modules promises to the threads that call *)
(* it: each call takes effect at one moment between its begin and its end. *)
(***************************************************************************)
CONSTANTS Users, Keys, Values, NULL

VARIABLES
    map,        \* map[k]: the value of key k, or NULL
    call,       \* call[u]: the request of the call that u is in
    result      \* result[u]: what the call will return; NULL before its effect

NoRequest == [op |-> NULL, key |-> NULL, value |-> NULL]

Requests ==
    [op : {"insert"}, key : Keys, value : Values]
        \cup [op : {"remove", "get"}, key : Keys, value : {NULL}]

Init ==
    /\ map = [k \in Keys |-> NULL]
    /\ call = [u \in Users |-> NoRequest]
    /\ result = [u \in Users |-> NULL]

Begin(u) ==
    /\ call[u] = NoRequest
    /\ \E r \in Requests : call' = [call EXCEPT ![u] = r]
    /\ UNCHANGED <<map, result>>

Effect(u) ==
    LET r == call[u]
    IN  /\ r # NoRequest /\ result[u] = NULL
        /\ map' = IF r.op = "get" THEN map ELSE [map EXCEPT ![r.key] = r.value]
        /\ result' = [result EXCEPT ![u] =
                         CASE r.op = "insert"                           -> "ok"
                           [] r.op # "insert" /\ map[r.key] = NULL     -> "failed"
                           [] r.op = "remove" /\ map[r.key] # NULL     -> "ok"
                           [] r.op = "get" /\ map[r.key] # NULL        -> map[r.key]]
        /\ UNCHANGED call

End(u) ==
    /\ result[u] # NULL
    /\ call' = [call EXCEPT ![u] = NoRequest]
    /\ result' = [result EXCEPT ![u] = NULL]
    /\ UNCHANGED map

\* The owner of the map ends it when no call is under way.
Clear ==
    /\ \A u \in Users : call[u] = NoRequest
    /\ \E K \in SUBSET Keys : map' = [k \in Keys |-> IF k \in K THEN NULL ELSE map[k]]
    /\ UNCHANGED <<call, result>>

Next == Clear \/ \E u \in Users : Begin(u) \/ Effect(u) \/ End(u)

Spec == Init /\ [][Next]_<<map, call, result>>
=============================================================================
