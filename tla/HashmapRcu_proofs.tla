------------------------- MODULE HashmapRcu_proofs -------------------------
(***************************************************************************)
(* Proofs about HashmapRcu and HashmapRcuHistory: first that readers and   *)
(* writers stay on allocated entries, then that each bucket's list is what *)
(* it should be, at last that pe_map_get is linearizable.                  *)
(***************************************************************************)
EXTENDS HashmapRcuHistory, FunctionTheorems, FiniteSetTheorems, TLAPS

LEMMA TypeInit == Init => TypeOK
  BY HashAssumption DEF Init, TypeOK, NoRequest, Stages, Nodes

LEMMA TypeNext == TypeOK /\ CallInv /\ [Next]_vars => TypeOK'
<1> SUFFICES ASSUME TypeOK, CallInv, [Next]_vars
             PROVE  TypeOK'
  OBVIOUS
<1> USE HashAssumption DEF listVars, memVars, callVars, Stages, Nodes
<1>1. ASSUME NEW u \in Users, NEW k \in Keys, NEW v \in Values, InsertAlloc(u, k, v)
     PROVE  TypeOK'
  <2>1. CASE slab' = slab
    <3>1. pc' = [pc EXCEPT ![u] = "idle"] /\ UNCHANGED <<ent, req, mine>>
      BY <1>1, <2>1 DEF TypeOK, InsertAlloc, Goto
    <3>2. UNCHANGED <<next, pprev, num, lock, waits, cur, ret, mod, heads>> /\ calls' \in 0 .. MaxCalls
      BY <1>1 DEF TypeOK, InsertAlloc, Enter
    <3> QED
      BY <2>1, <3>1, <3>2 DEF TypeOK
  <2>2. CASE slab' # slab
    <3>1. PICK e \in Entries :
             /\ Goto(u, "idle", "lock")
             /\ slab' = [slab EXCEPT ![e] = "private"]
             /\ ent' = [ent EXCEPT ![e] = [key |-> k, value |-> v]]
             /\ req' = [req EXCEPT ![u] = [op |-> "insert", key |-> k, value |-> v]]
             /\ mine' = [mine EXCEPT ![u] = e]
      BY <1>1, <2>2 DEF InsertAlloc
    <3>2. UNCHANGED <<next, pprev, num, lock, waits, cur, ret, mod, heads>> /\ calls' \in 0 .. MaxCalls
      BY <1>1 DEF TypeOK, InsertAlloc, Enter
    <3> QED
      BY <3>1, <3>2 DEF TypeOK, Goto
  <2> QED
    BY <2>1, <2>2
<1>2. ASSUME NEW u \in Users, NEW k \in Keys, RemoveCall(u, k)
     PROVE  TypeOK'
  BY <1>2 DEF TypeOK, RemoveCall, Enter, Goto
<1>3. ASSUME NEW u \in Users, NEW k \in Keys, GetCall(u, k)
     PROVE  TypeOK'
  BY <1>3 DEF TypeOK, GetCall, Enter, Goto
<1>4. ASSUME NEW u \in Users, Lock(u)
     PROVE  TypeOK'
  <2>1. Bucket(u) \in Buckets
    BY <1>4 DEF CallInv, Lock, Goto, Bucket
  <2> QED
    BY <1>4, <2>1 DEF TypeOK, Lock, Goto
<1>5. ASSUME NEW u \in Users, Walk(u)
     PROVE  TypeOK'
  BY <1>5 DEF TypeOK, Walk
<1>6. ASSUME NEW u \in Users, InsertReplace(u)
     PROVE  TypeOK'
  <2>1. next' \in [Nodes -> Entries \cup {NULL}] /\ pprev' \in [Entries -> Nodes \cup {NULL}]
    BY <1>6 DEF TypeOK, InsertReplace, hlist_replace_rcu, Found
  <2>2. slab' \in [Entries -> Stages]
    BY <1>6 DEF TypeOK, InsertReplace 
  <2>3. mine' \in [Users -> Entries \cup {NULL}]
    BY <1>6 DEF TypeOK, InsertReplace, Found
  <2> QED
    BY <1>6, <2>1, <2>2, <2>3 DEF TypeOK, InsertReplace, Goto
<1>7. ASSUME NEW u \in Users, InsertAdd(u)
     PROVE  TypeOK'
  <2>1. Bucket(u) \in Buckets
    BY <1>7 DEF CallInv, InsertAdd, Goto, Bucket
  <2>2. next' \in [Nodes -> Entries \cup {NULL}] /\ pprev' \in [Entries -> Nodes \cup {NULL}]
    BY <1>7, <2>1 DEF TypeOK, InsertAdd, hlist_add_head_rcu
  <2>3. num' \in [Buckets -> Int]
    BY <1>7, <2>1 DEF TypeOK, InsertAdd
  <2>4. slab' \in [Entries -> Stages] /\ mine' \in [Users -> Entries \cup {NULL}]
    BY <1>7 DEF TypeOK, InsertAdd
  <2> QED
    BY <1>7, <2>2, <2>3, <2>4 DEF TypeOK, InsertAdd, Goto
<1>8. ASSUME NEW u \in Users, RemoveFound(u)
     PROVE  TypeOK'
  <2>1. Bucket(u) \in Buckets
    BY <1>8 DEF CallInv, RemoveFound, Goto, Bucket
  <2>2. next' \in [Nodes -> Entries \cup {NULL}] /\ pprev' \in [Entries -> Nodes \cup {NULL}]
    BY <1>8 DEF TypeOK, RemoveFound, hlist_del_rcu, Found
  <2>3. slab' \in [Entries -> Stages]
    BY <1>8 DEF TypeOK, RemoveFound 
  <2>4. num' \in [Buckets -> Int] /\ mine' \in [Users -> Entries \cup {NULL}]
    BY <1>8, <2>1 DEF TypeOK, RemoveFound, Found
  <2> QED
    BY <1>8, <2>2, <2>3, <2>4 DEF TypeOK, RemoveFound, Goto
<1>9. ASSUME NEW u \in Users, RemoveMissing(u)
     PROVE  TypeOK'
  BY <1>9 DEF TypeOK, RemoveMissing, Goto
<1>10. ASSUME NEW u \in Users, Unlock(u)
     PROVE  TypeOK'
  BY <1>10 DEF TypeOK, Unlock, Goto, Bucket, NoRequest
<1>11. ASSUME NEW u \in Users, Retire(u)
     PROVE  TypeOK'
  BY <1>11 DEF TypeOK, Retire, Goto, call_rcu, Readers
<1>12. ASSUME NEW u \in Users, ReadNext(u)
     PROVE  TypeOK'
  BY <1>12 DEF TypeOK, ReadNext
<1>13. ASSUME NEW u \in Users, ReadDone(u)
     PROVE  TypeOK'
  BY <1>13 DEF TypeOK, ReadDone, Goto, Found
<1>14. ASSUME NEW u \in Users, ReadUnlock(u)
     PROVE  TypeOK'
  BY <1>14 DEF TypeOK, ReadUnlock, Goto, rcu_read_unlock, NoRequest
<1>15. ASSUME NEW e \in Entries, pe_entry_free_rcu(e)
     PROVE  TypeOK'
  BY <1>15 DEF TypeOK, pe_entry_free_rcu, kmem_cache_free
<1>16. CASE ModuleInit
  BY <1>16 DEF TypeOK, ModuleInit
<1>17. CASE CreateEntry
  BY <1>17 DEF TypeOK, CreateEntry
<1>18. CASE RemoveProcEntry
  BY <1>18 DEF TypeOK, RemoveProcEntry
<1>19. CASE Rundown
  BY <1>19 DEF TypeOK, Rundown
<1>20. CASE FlushAlloc
  BY <1>20 DEF TypeOK, FlushAlloc
<1>21. CASE synchronize_rcu
  BY <1>21 DEF TypeOK, synchronize_rcu
<1>22. CASE rcu_barrier
  BY <1>22 DEF TypeOK, rcu_barrier
<1>23. CASE kmem_cache_destroy
  BY <1>23 DEF TypeOK, kmem_cache_destroy
<1>24. ASSUME NEW b \in Buckets, FlushDetach(b)
     PROVE  TypeOK'
  BY <1>24 DEF TypeOK, FlushDetach
<1>25. ASSUME NEW b \in Buckets, FlushFree(b)
     PROVE  TypeOK'
  BY <1>25 DEF TypeOK, FlushFree, kmem_cache_free, hlist_del_rcu
<1>26. CASE UNCHANGED vars
  BY <1>26 DEF TypeOK, vars
<1> QED
  BY <1>1, <1>2, <1>3, <1>4, <1>5, <1>6, <1>7, <1>8, <1>9, <1>10, <1>11, <1>12, <1>13, <1>14, <1>15, <1>16, <1>17, <1>18, <1>19, <1>20, <1>21, <1>22, <1>23, <1>24, <1>25, <1>26 DEF Next, Call, Module

LEMMA CallNext == TypeOK /\ CallInv /\ [Next]_vars => CallInv'
<1> SUFFICES ASSUME TypeOK, CallInv, [Next]_vars
             PROVE  CallInv'
  OBVIOUS
<1> USE HashAssumption DEF listVars, memVars, callVars
<1>1. ASSUME NEW u \in Users, NEW k \in Keys, NEW v \in Values, InsertAlloc(u, k, v)
     PROVE  CallInv'
  BY <1>1 DEF TypeOK, CallInv, InsertAlloc, Enter, Goto, Bucket, InRcu
<1>2. ASSUME NEW u \in Users, NEW k \in Keys, RemoveCall(u, k)
     PROVE  CallInv'
  BY <1>2 DEF TypeOK, CallInv, RemoveCall, Enter, Goto, Bucket, InRcu
<1>3. ASSUME NEW u \in Users, NEW k \in Keys, GetCall(u, k)
     PROVE  CallInv'
  BY <1>3 DEF TypeOK, CallInv, GetCall, Enter, Goto, Bucket, InRcu
<1>4. ASSUME NEW u \in Users, Lock(u)
     PROVE  CallInv'
  BY <1>4 DEF TypeOK, CallInv, Lock, Goto, Bucket, InRcu
<1>5. ASSUME NEW u \in Users, Walk(u)
     PROVE  CallInv'
  BY <1>5 DEF TypeOK, CallInv, Walk, Bucket, InRcu
<1>6. ASSUME NEW u \in Users, InsertReplace(u)
     PROVE  CallInv'
  BY <1>6 DEF TypeOK, CallInv, InsertReplace, Goto, Bucket, InRcu
<1>7. ASSUME NEW u \in Users, InsertAdd(u)
     PROVE  CallInv'
  BY <1>7 DEF TypeOK, CallInv, InsertAdd, Goto, Bucket, InRcu
<1>8. ASSUME NEW u \in Users, RemoveFound(u)
     PROVE  CallInv'
  BY <1>8 DEF TypeOK, CallInv, RemoveFound, Goto, Bucket, InRcu
<1>9. ASSUME NEW u \in Users, RemoveMissing(u)
     PROVE  CallInv'
  BY <1>9 DEF TypeOK, CallInv, RemoveMissing, Goto, Bucket, InRcu
<1>10. ASSUME NEW u \in Users, Unlock(u)
     PROVE  CallInv'
  BY <1>10 DEF TypeOK, CallInv, Unlock, Goto, Bucket, NoRequest, InRcu
<1>11. ASSUME NEW u \in Users, Retire(u)
     PROVE  CallInv'
  BY <1>11 DEF TypeOK, CallInv, Retire, Goto, Bucket, InRcu
<1>12. ASSUME NEW u \in Users, ReadNext(u)
     PROVE  CallInv'
  BY <1>12 DEF TypeOK, CallInv, ReadNext, Bucket, InRcu
<1>13. ASSUME NEW u \in Users, ReadDone(u)
     PROVE  CallInv'
  BY <1>13 DEF TypeOK, CallInv, ReadDone, Goto, Found, Bucket, InRcu
<1>14. ASSUME NEW u \in Users, ReadUnlock(u)
     PROVE  CallInv'
  BY <1>14 DEF TypeOK, CallInv, ReadUnlock, Goto, NoRequest, Bucket, InRcu
<1>15. ASSUME NEW e \in Entries, pe_entry_free_rcu(e)
     PROVE  CallInv'
  BY <1>15 DEF TypeOK, CallInv, pe_entry_free_rcu, Bucket, InRcu
<1>16. CASE ModuleInit
  BY <1>16 DEF TypeOK, CallInv, ModuleInit, Bucket, InRcu
<1>17. CASE CreateEntry
  BY <1>17 DEF TypeOK, CallInv, CreateEntry, Bucket, InRcu
<1>18. CASE RemoveProcEntry
  BY <1>18 DEF TypeOK, CallInv, RemoveProcEntry, Bucket, InRcu
<1>19. CASE Rundown
  BY <1>19 DEF TypeOK, CallInv, Rundown, Bucket, InRcu
<1>20. CASE FlushAlloc
  BY <1>20 DEF TypeOK, CallInv, FlushAlloc, Bucket, InRcu
<1>21. CASE synchronize_rcu
  BY <1>21 DEF TypeOK, CallInv, synchronize_rcu, Bucket, InRcu
<1>22. CASE rcu_barrier
  BY <1>22 DEF TypeOK, CallInv, rcu_barrier, Bucket, InRcu
<1>23. CASE kmem_cache_destroy
  BY <1>23 DEF TypeOK, CallInv, kmem_cache_destroy, Bucket, InRcu
<1>24. ASSUME NEW b \in Buckets, FlushDetach(b)
     PROVE  CallInv'
  BY <1>24 DEF TypeOK, CallInv, FlushDetach, Bucket, InRcu
<1>25. ASSUME NEW b \in Buckets, FlushFree(b)
     PROVE  CallInv'
  BY <1>25 DEF TypeOK, CallInv, FlushFree, Bucket, InRcu
<1>26. CASE UNCHANGED vars
  BY <1>26 DEF TypeOK, CallInv, vars, Bucket, InRcu
<1> QED
  BY <1>1, <1>2, <1>3, <1>4, <1>5, <1>6, <1>7, <1>8, <1>9, <1>10, <1>11, <1>12, <1>13, <1>14, <1>15, <1>16, <1>17, <1>18, <1>19, <1>20, <1>21, <1>22, <1>23, <1>24, <1>25, <1>26 DEF Next, Call, Module

LEMMA MineNext == TypeOK /\ CallInv /\ MineInv /\ WalkInv /\ Unflushed' /\ [Next]_vars => MineInv'
<1> SUFFICES ASSUME TypeOK, CallInv, MineInv, WalkInv, Unflushed', [Next]_vars
             PROVE  MineInv'
  OBVIOUS
<1> USE HashAssumption DEF listVars, memVars, callVars
<1>1. ASSUME NEW u \in Users, NEW k \in Keys, NEW v \in Values, InsertAlloc(u, k, v)
     PROVE  MineInv'
  <2>1. CASE slab' = slab
    BY <1>1, <2>1 DEF TypeOK, MineInv, InsertAlloc, Enter, Goto, CallInv
  <2>2. CASE slab' # slab
    <3>1. PICK e \in Entries :
             /\ pc[u] = "idle" /\ pc' = [pc EXCEPT ![u] = "lock"]
             /\ slab[e] = "free"
             /\ slab' = [slab EXCEPT ![e] = "private"]
             /\ ent' = [ent EXCEPT ![e] = [key |-> k, value |-> v]]
             /\ req' = [req EXCEPT ![u] = [op |-> "insert", key |-> k, value |-> v]]
             /\ mine' = [mine EXCEPT ![u] = e]
      BY <1>1, <2>2 DEF InsertAlloc, Goto
    <3>2. UNCHANGED <<next, pprev, waits, cur, mod>>
      BY <1>1 DEF InsertAlloc
    <3> QED
      BY <3>1, <3>2 DEF TypeOK, MineInv, CallInv
  <2> QED
    BY <2>1, <2>2
<1>2. ASSUME NEW u \in Users, NEW k \in Keys, RemoveCall(u, k)
     PROVE  MineInv'
  BY <1>2 DEF RemoveCall, Enter, Goto, TypeOK, CallInv, MineInv, WalkInv
<1>3. ASSUME NEW u \in Users, NEW k \in Keys, GetCall(u, k)
     PROVE  MineInv'
  BY <1>3 DEF GetCall, Enter, Goto, TypeOK, CallInv, MineInv, WalkInv
<1>4. ASSUME NEW u \in Users, Lock(u)
     PROVE  MineInv'
  BY <1>4 DEF Lock, Goto, TypeOK, CallInv, MineInv, WalkInv
<1>5. ASSUME NEW u \in Users, Walk(u)
     PROVE  MineInv'
  BY <1>5 DEF Walk, TypeOK, CallInv, MineInv, WalkInv
<1>6. ASSUME NEW u \in Users, InsertReplace(u)
     PROVE  MineInv'
  BY <1>6 DEF InsertReplace, Goto, TypeOK, CallInv, MineInv, WalkInv
<1>7. ASSUME NEW u \in Users, InsertAdd(u)
     PROVE  MineInv'
  BY <1>7 DEF InsertAdd, Goto, TypeOK, CallInv, MineInv, WalkInv
<1>8. ASSUME NEW u \in Users, RemoveFound(u)
     PROVE  MineInv'
  <2>1. PICK o \in Entries : o = cur[u] /\ slab[o] = "linked"
    BY <1>8 DEF RemoveFound, Goto, Found, WalkInv
  <2>2. /\ pc[u] = "walk" /\ pc' = [pc EXCEPT ![u] = "unlock"]
        /\ slab' = [slab EXCEPT ![o] = "unlinked"]
        /\ mine' = [mine EXCEPT ![u] = o]
        /\ mine[u] = NULL
        /\ UNCHANGED <<ent, req>>
    BY <1>8, <2>1 DEF RemoveFound, Goto, MineInv
  <2>3. \A w \in Users : mine[w] # o
    BY <2>1 DEF TypeOK, CallInv, MineInv
  <2> SUFFICES ASSUME NEW w \in Users
               PROVE  /\ pc'[w] \in {"lock", "walk"} /\ req'[w].op = "insert" =>
                            /\ mine'[w] \in Entries
                            /\ slab'[mine'[w]] = "private"
                            /\ ent'[mine'[w]].key = req'[w].key
                      /\ pc'[w] \in {"lock", "walk"} /\ req'[w].op = "remove" => mine'[w] = NULL
                      /\ pc'[w] = "unlock" /\ mine'[w] # NULL => slab'[mine'[w]] = "unlinked"
                      /\ pc'[w] = "retire" => mine'[w] \in Entries /\ slab'[mine'[w]] = "unlinked"
                      /\ pc'[w] \in {"idle", "read", "read_unlock"} => mine'[w] = NULL
                      /\ \A x \in Users : mine'[w] # NULL /\ mine'[x] = mine'[w] => x = w
    BY DEF MineInv
  <2>4. CASE w = u
    BY <2>1, <2>2, <2>3, <2>4 DEF TypeOK
  <2>5. CASE w # u
    <3>1. pc'[w] = pc[w] /\ mine'[w] = mine[w] /\ mine[w] # o
      BY <2>2, <2>3, <2>5 DEF TypeOK
    <3>2. \A x \in Users : mine[w] # NULL /\ mine'[x] = mine[w] => x = w
      BY <2>2, <2>3, <2>5 DEF TypeOK, MineInv
    <3> QED
      BY <2>2, <3>1, <3>2 DEF TypeOK, MineInv
  <2> QED
    BY <2>4, <2>5
<1>9. ASSUME NEW u \in Users, RemoveMissing(u)
     PROVE  MineInv'
  BY <1>9 DEF RemoveMissing, Goto, TypeOK, CallInv, MineInv, WalkInv
<1>10. ASSUME NEW u \in Users, Unlock(u)
     PROVE  MineInv'
  BY <1>10 DEF Unlock, Goto, TypeOK, CallInv, MineInv, WalkInv
<1>11. ASSUME NEW u \in Users, Retire(u)
     PROVE  MineInv'
  BY <1>11 DEF Retire, Goto, call_rcu, TypeOK, CallInv, MineInv, WalkInv
<1>12. ASSUME NEW u \in Users, ReadNext(u)
     PROVE  MineInv'
  BY <1>12 DEF ReadNext, TypeOK, CallInv, MineInv, WalkInv
<1>13. ASSUME NEW u \in Users, ReadDone(u)
     PROVE  MineInv'
  BY <1>13 DEF ReadDone, Goto, Found, TypeOK, CallInv, MineInv, WalkInv
<1>14. ASSUME NEW u \in Users, ReadUnlock(u)
     PROVE  MineInv'
  BY <1>14 DEF ReadUnlock, Goto, TypeOK, CallInv, MineInv, WalkInv
<1>15. ASSUME NEW e \in Entries, pe_entry_free_rcu(e)
     PROVE  MineInv'
  BY <1>15 DEF pe_entry_free_rcu, kmem_cache_free, TypeOK, CallInv, MineInv, WalkInv
<1>16. CASE ModuleInit
  BY <1>16 DEF ModuleInit, TypeOK, CallInv, MineInv, WalkInv
<1>17. CASE CreateEntry
  BY <1>17 DEF CreateEntry, TypeOK, CallInv, MineInv, WalkInv
<1>18. CASE RemoveProcEntry
  BY <1>18 DEF RemoveProcEntry, TypeOK, CallInv, MineInv, WalkInv
<1>19. CASE Rundown
  BY <1>19 DEF Rundown, Unflushed
<1>20. CASE FlushAlloc
  BY <1>20 DEF FlushAlloc, Unflushed
<1>21. CASE synchronize_rcu
  BY <1>21 DEF synchronize_rcu, Unflushed
<1>22. CASE rcu_barrier
  BY <1>22 DEF rcu_barrier, Unflushed
<1>23. CASE kmem_cache_destroy
  BY <1>23 DEF kmem_cache_destroy, Unflushed
<1>24. ASSUME NEW b \in Buckets, FlushDetach(b)
     PROVE  MineInv'
  BY <1>24 DEF FlushDetach, Unflushed
<1>25. ASSUME NEW b \in Buckets, FlushFree(b)
     PROVE  MineInv'
  BY <1>25 DEF FlushFree, Unflushed
<1>26. CASE UNCHANGED vars
  BY <1>26 DEF vars, TypeOK, CallInv, MineInv, WalkInv
<1> QED
  BY <1>1, <1>2, <1>3, <1>4, <1>5, <1>6, <1>7, <1>8, <1>9, <1>10, <1>11, <1>12, <1>13, <1>14, <1>15, <1>16, <1>17, <1>18, <1>19, <1>20, <1>21, <1>22, <1>23, <1>24, <1>25, <1>26 DEF Next, Call, Module

------------------------------------------------------------------------------
(* The lists have an end: along next a rank grows.  TLC cannot enumerate   *)
(* the ranks; BucketsIntact is what it checks of the lists' shape.         *)

Ascending(rank) ==
    \A n \in Nodes : OnList(n) /\ next[n] # NULL => rank[n] < rank[next[n]]

Ranked == \E rank \in [Nodes -> Int] : Ascending(rank)

\* A writer at the entry it looked for, and the nodes around it.
LEMMA Position ==
    ASSUME TypeOK, CallInv, NextInv, PprevInv, WalkInv, Ranked,
           NEW u \in Users, pc[u] = "walk", Found(u),
           NEW o, o = cur[u], NEW P, P = pprev[o]
    PROVE  /\ o \in Entries /\ slab[o] = "linked"
           /\ P \in Nodes /\ P # o /\ OnList(P) /\ next[P] = o
           /\ next[o] # o /\ next[o] # P
           /\ Home(P) = Home(o) /\ Home(o) = Bucket(u)
           /\ next[o] # NULL => next[o] \in Entries /\ slab[next[o]] = "linked" /\ pprev[next[o]] = o
<1>1. o \in Entries /\ slab[o] = "linked" /\ Home(o) = Bucket(u)
  BY HashAssumption DEF WalkInv, Found
<1>2. P \in Nodes /\ OnList(P) /\ next[P] = o
  BY <1>1 DEF PprevInv
<1>3. Home(P) = Home(o) /\ OnList(o) /\ o \in Nodes /\ o # NULL
  BY <1>1, <1>2, HashAssumption DEF NextInv, OnList, Nodes
<1>4. next[o] # NULL => next[o] \in Entries /\ slab[next[o]] = "linked" /\ pprev[next[o]] = o
  BY <1>3 DEF NextInv, TypeOK
<1>5. PICK rank \in [Nodes -> Int] : Ascending(rank)
  BY DEF Ranked
<1>6. rank[P] < rank[o] /\ (next[o] # NULL => rank[o] < rank[next[o]])
  BY <1>2, <1>3, <1>5 DEF Ascending
<1>7. rank[P] \in Int /\ rank[o] \in Int
  BY <1>2, <1>3, <1>5
<1>8. P # o /\ next[o] # o /\ next[o] # P
  <2>1. P # NULL
    BY <1>2, HashAssumption DEF Nodes
  <2> QED
    BY <1>3, <1>6, <1>7, <2>1
<1> QED
  BY <1>1, <1>2, <1>3, <1>4, <1>8

LEMMA ReplacePosition ==
    ASSUME TypeOK, CallInv, MineInv, NextInv, PprevInv, WalkInv, Ranked,
           NEW u \in Users, pc[u] = "walk", Found(u), req[u].op = "insert",
           NEW o, o = cur[u], NEW m, m = mine[u], NEW P, P = pprev[o]
    PROVE  /\ o \in Entries /\ m \in Entries /\ P \in Nodes
           /\ slab[o] = "linked" /\ slab[m] = "private"
           /\ m # o /\ P # o /\ P # m /\ OnList(P) /\ next[P] = o
           /\ next[o] # o /\ next[o] # P /\ next[o] # m
           /\ Home(m) = Home(o) /\ Home(P) = Home(o) /\ Home(o) = Bucket(u)
           /\ next[o] # NULL => next[o] \in Entries /\ slab[next[o]] = "linked" /\ pprev[next[o]] = o
           /\ ent[m].key \in Keys
<1>1. /\ o \in Entries /\ slab[o] = "linked"
      /\ P \in Nodes /\ P # o /\ OnList(P) /\ next[P] = o
      /\ next[o] # o /\ next[o] # P
      /\ Home(P) = Home(o) /\ Home(o) = Bucket(u)
      /\ next[o] # NULL => next[o] \in Entries /\ slab[next[o]] = "linked" /\ pprev[next[o]] = o
  BY Position
<1>2. m \in Entries /\ slab[m] = "private" /\ ent[m].key = req[u].key /\ req[u].key \in Keys
  BY DEF MineInv, CallInv
<1>3. Home(m) = Home(o)
  BY <1>1, <1>2, HashAssumption DEF Home, Found, Bucket
<1>4. P # m /\ next[o] # m
  BY <1>1, <1>2, HashAssumption DEF OnList, Nodes
<1> QED
  BY <1>1, <1>2, <1>3, <1>4

\* What InsertAdd finds: the bucket's first entry is not the new one.
LEMMA AddPosition ==
    ASSUME TypeOK, CallInv, MineInv, NextInv,
           NEW u \in Users, InsertAdd(u),
           NEW m, m = mine[u], NEW b, b = Bucket(u)
    PROVE  /\ m \in Entries /\ b \in Buckets /\ m # b
           /\ slab[m] = "private" /\ ent[m].key \in Keys /\ Hash[ent[m].key] = b
           /\ next[b] # NULL => /\ next[b] \in Entries /\ slab[next[b]] = "linked"
                                /\ pprev[next[b]] = b /\ Home(next[b]) = b
           /\ next[b] # m
           /\ next' = [next EXCEPT ![m] = next[b], ![b] = m]
           /\ pprev' = [x \in Entries |-> IF x = m THEN b
                                          ELSE IF x = next[b] THEN m ELSE pprev[x]]
           /\ slab' = [slab EXCEPT ![m] = "linked"]
           /\ UNCHANGED ent
<1>1. pc[u] = "walk" /\ req[u].op = "insert"
  BY DEF InsertAdd, Goto
<1>2. m \in Entries /\ slab[m] = "private" /\ ent[m].key = req[u].key /\ req[u].key \in Keys
  BY <1>1 DEF MineInv, CallInv
<1>3. b \in Buckets /\ Hash[ent[m].key] = b
  BY <1>2, HashAssumption DEF Bucket
<1>4. m # b
  BY <1>2, <1>3, HashAssumption
<1>5. next[b] # NULL => /\ next[b] \in Entries /\ slab[next[b]] = "linked"
                        /\ pprev[next[b]] = b /\ Home(next[b]) = b
  BY <1>3 DEF TypeOK, NextInv, OnList, Nodes, Home
<1>6. next[b] # m
  BY <1>2, <1>5, HashAssumption
<1>7. /\ next' = [next EXCEPT ![m] = next[b], ![b] = m]
      /\ pprev' = [x \in Entries |-> IF x = m THEN b
                                     ELSE IF x = next[b] THEN m ELSE pprev[x]]
      /\ slab' = [slab EXCEPT ![m] = "linked"]
      /\ UNCHANGED ent
  BY DEF InsertAdd, hlist_add_head_rcu
<1> QED
  BY <1>2, <1>3, <1>4, <1>5, <1>6, <1>7

LEMMA NextInvNext == TypeOK /\ CallInv /\ MineInv /\ NextInv /\ PprevInv /\ WalkInv /\ Ranked /\ Unflushed' /\ [Next]_vars => NextInv'
<1> SUFFICES ASSUME TypeOK, CallInv, MineInv, NextInv, PprevInv, WalkInv, Ranked, Unflushed', [Next]_vars
             PROVE  NextInv'
  OBVIOUS
<1> USE HashAssumption DEF listVars, memVars, callVars
<1> USE DEF OnList, Home, Nodes
<1>1. ASSUME NEW u \in Users, NEW k \in Keys, NEW v \in Values, InsertAlloc(u, k, v)
     PROVE  NextInv'
  BY <1>1 DEF InsertAlloc, Enter, Goto, TypeOK, CallInv, MineInv, NextInv, PprevInv, WalkInv
<1>2. ASSUME NEW u \in Users, NEW k \in Keys, RemoveCall(u, k)
     PROVE  NextInv'
  BY <1>2 DEF RemoveCall, Enter, Goto, TypeOK, CallInv, MineInv, NextInv, PprevInv, WalkInv
<1>3. ASSUME NEW u \in Users, NEW k \in Keys, GetCall(u, k)
     PROVE  NextInv'
  BY <1>3 DEF GetCall, Enter, Goto, TypeOK, CallInv, MineInv, NextInv, PprevInv, WalkInv
<1>4. ASSUME NEW u \in Users, Lock(u)
     PROVE  NextInv'
  BY <1>4 DEF Lock, Goto, Bucket, TypeOK, CallInv, MineInv, NextInv, PprevInv, WalkInv
<1>5. ASSUME NEW u \in Users, Walk(u)
     PROVE  NextInv'
  BY <1>5 DEF Walk, TypeOK, CallInv, MineInv, NextInv, PprevInv, WalkInv
<1>6. ASSUME NEW u \in Users, InsertReplace(u)
     PROVE  NextInv'
  <2>1. PICK o \in Entries, m \in Entries, P \in Nodes :
           /\ o = cur[u] /\ m = mine[u] /\ P = pprev[o]
           /\ slab[o] = "linked" /\ slab[m] = "private"
           /\ m # o /\ P # o /\ P # m /\ OnList(P) /\ next[P] = o
           /\ next[o] # o /\ next[o] # P /\ next[o] # m
           /\ Home(m) = Home(o) /\ Home(P) = Home(o) /\ Home(o) = Bucket(u)
           /\ next[o] # NULL => next[o] \in Entries /\ slab[next[o]] = "linked" /\ pprev[next[o]] = o
           /\ ent[m].key \in Keys
    BY <1>6, ReplacePosition DEF InsertReplace, Goto
  <2>2. /\ next' = [next EXCEPT ![m] = next[o], ![P] = m]
        /\ pprev' = [x \in Entries |-> IF x = m THEN P
                                   ELSE IF x = next[o] THEN m
                                   ELSE IF x = o THEN NULL ELSE pprev[x]]
        /\ slab' = [slab EXCEPT ![m] = "linked", ![o] = "unlinked"]
        /\ pc' = [pc EXCEPT ![u] = "unlock"]
        /\ UNCHANGED <<ent, waits, cur, req, lock>>
    BY <1>6, <2>1 DEF InsertReplace, hlist_replace_rcu, Goto
  <2> SUFFICES ASSUME NEW n \in Nodes, OnList(n)', next'[n] # NULL
               PROVE  slab'[next'[n]] = "linked" /\ pprev'[next'[n]] = n /\ Home(next[n])' = Home(n)'
    BY DEF NextInv
  <2>4. CASE n = P
    BY <2>1, <2>2, <2>4 DEF TypeOK
  <2>5. CASE n = m
    <3>1. next'[n] = next[o] /\ next[o] # NULL
      BY <2>1, <2>2, <2>5 DEF TypeOK
    <3>2. next[o] \in Entries /\ slab[next[o]] = "linked" /\ Home(next[o]) = Home(o)
      BY <2>1, <3>1 DEF NextInv
    <3>3. slab'[next[o]] = "linked" /\ pprev'[next[o]] = m
      BY <2>1, <2>2, <3>2 DEF TypeOK
    <3> QED
      BY <2>1, <2>2, <2>5, <3>1, <3>2, <3>3 DEF Home
  <2>6. CASE n # P /\ n # m
    <3>1. n # o /\ OnList(n) /\ next'[n] = next[n]
      BY <2>1, <2>2, <2>6 DEF TypeOK
    <3>2. slab[next[n]] = "linked" /\ pprev[next[n]] = n /\ next[n] \in Entries /\ Home(next[n]) = Home(n)
      BY <3>1 DEF NextInv, TypeOK
    <3>3. next[n] # o /\ next[n] # m /\ next[n] # next[o]
      BY <2>1, <2>6, <3>1, <3>2
    <3> QED
      BY <2>2, <3>1, <3>2, <3>3 DEF TypeOK
  <2> QED
    BY <2>4, <2>5, <2>6
<1>7. ASSUME NEW u \in Users, InsertAdd(u)
     PROVE  NextInv'
  <2>1. PICK m \in Entries, b \in Buckets :
           /\ m # b /\ slab[m] = "private" /\ Hash[ent[m].key] = b
           /\ next[b] # NULL => /\ next[b] \in Entries /\ slab[next[b]] = "linked"
                                /\ pprev[next[b]] = b /\ Home(next[b]) = b
           /\ next[b] # m
           /\ next' = [next EXCEPT ![m] = next[b], ![b] = m]
           /\ pprev' = [x \in Entries |-> IF x = m THEN b
                                          ELSE IF x = next[b] THEN m ELSE pprev[x]]
           /\ slab' = [slab EXCEPT ![m] = "linked"]
           /\ UNCHANGED ent
    BY <1>7, AddPosition
  <2> SUFFICES ASSUME NEW n \in Nodes, OnList(n)', next'[n] # NULL
               PROVE  slab'[next'[n]] = "linked" /\ pprev'[next'[n]] = n /\ Home(next[n])' = Home(n)'
    BY DEF NextInv
  <2>2. CASE n = b
    BY <2>1, <2>2 DEF TypeOK
  <2>3. CASE n = m
    BY <2>1, <2>3 DEF TypeOK
  <2>4. CASE n # b /\ n # m
    <3>1. OnList(n) /\ next'[n] = next[n]
      BY <2>1, <2>4 DEF TypeOK
    <3>2. slab[next[n]] = "linked" /\ pprev[next[n]] = n /\ next[n] \in Entries /\ Home(next[n]) = Home(n)
      BY <3>1 DEF NextInv, TypeOK
    <3>3. next[n] # m /\ next[n] # next[b]
      BY <2>1, <2>4, <3>1, <3>2
    <3> QED
      BY <2>1, <3>1, <3>2, <3>3 DEF TypeOK
  <2> QED
    BY <2>2, <2>3, <2>4
<1>8. ASSUME NEW u \in Users, RemoveFound(u)
     PROVE  NextInv'
  <2>1. PICK o \in Entries, P \in Nodes :
           /\ o = cur[u] /\ P = pprev[o]
           /\ slab[o] = "linked"
           /\ P # o /\ OnList(P) /\ next[P] = o
           /\ next[o] # o /\ next[o] # P
           /\ Home(P) = Home(o) /\ Home(o) = Bucket(u)
           /\ next[o] # NULL => next[o] \in Entries /\ slab[next[o]] = "linked" /\ pprev[next[o]] = o
    BY <1>8, Position DEF RemoveFound, Goto
  <2>2. /\ next' = [next EXCEPT ![P] = next[o]]
        /\ pprev' = [x \in Entries |-> IF x = o THEN NULL
                                   ELSE IF x = next[o] THEN P ELSE pprev[x]]
        /\ slab' = [slab EXCEPT ![o] = "unlinked"]
        /\ pc' = [pc EXCEPT ![u] = "unlock"]
        /\ UNCHANGED <<ent, waits, cur, req, lock>>
    BY <1>8, <2>1 DEF RemoveFound, hlist_del_rcu, Goto
  <2> SUFFICES ASSUME NEW n \in Nodes, OnList(n)', next'[n] # NULL
               PROVE  slab'[next'[n]] = "linked" /\ pprev'[next'[n]] = n /\ Home(next[n])' = Home(n)'
    BY DEF NextInv
  <2>4. CASE n = P
    BY <2>1, <2>2, <2>4 DEF TypeOK, NextInv
  <2>5. CASE n # P
    <3>1. n # o /\ OnList(n) /\ next'[n] = next[n]
      BY <2>1, <2>2, <2>5 DEF TypeOK
    <3>2. slab[next[n]] = "linked" /\ pprev[next[n]] = n /\ next[n] \in Entries /\ Home(next[n]) = Home(n)
      BY <3>1 DEF NextInv, TypeOK
    <3>3. next[n] # o /\ next[n] # next[o]
      BY <2>1, <2>5, <3>1, <3>2
    <3> QED
      BY <2>2, <3>1, <3>2, <3>3 DEF TypeOK
  <2> QED
    BY <2>4, <2>5
<1>9. ASSUME NEW u \in Users, RemoveMissing(u)
     PROVE  NextInv'
  BY <1>9 DEF RemoveMissing, Goto, TypeOK, CallInv, MineInv, NextInv, PprevInv, WalkInv
<1>10. ASSUME NEW u \in Users, Unlock(u)
     PROVE  NextInv'
  BY <1>10 DEF Unlock, Goto, Bucket, NoRequest, TypeOK, CallInv, MineInv, NextInv, PprevInv, WalkInv
<1>11. ASSUME NEW u \in Users, Retire(u)
     PROVE  NextInv'
  BY <1>11 DEF Retire, Goto, call_rcu, TypeOK, CallInv, MineInv, NextInv, PprevInv, WalkInv
<1>12. ASSUME NEW u \in Users, ReadNext(u)
     PROVE  NextInv'
  BY <1>12 DEF ReadNext, TypeOK, CallInv, MineInv, NextInv, PprevInv, WalkInv
<1>13. ASSUME NEW u \in Users, ReadDone(u)
     PROVE  NextInv'
  BY <1>13 DEF ReadDone, Goto, Found, TypeOK, CallInv, MineInv, NextInv, PprevInv, WalkInv
<1>14. ASSUME NEW u \in Users, ReadUnlock(u)
     PROVE  NextInv'
  BY <1>14 DEF ReadUnlock, Goto, rcu_read_unlock, NoRequest, TypeOK, CallInv, MineInv, NextInv, PprevInv, WalkInv
<1>15. ASSUME NEW e \in Entries, pe_entry_free_rcu(e)
     PROVE  NextInv'
  BY <1>15 DEF pe_entry_free_rcu, kmem_cache_free, TypeOK, CallInv, MineInv, NextInv, PprevInv, WalkInv
<1>16. CASE ModuleInit
  BY <1>16 DEF ModuleInit, TypeOK, CallInv, MineInv, NextInv, PprevInv, WalkInv
<1>17. CASE CreateEntry
  BY <1>17 DEF CreateEntry, TypeOK, CallInv, MineInv, NextInv, PprevInv, WalkInv
<1>18. CASE RemoveProcEntry
  BY <1>18 DEF RemoveProcEntry, TypeOK, CallInv, MineInv, NextInv, PprevInv, WalkInv
<1>19. CASE Rundown
  BY <1>19 DEF Rundown, Unflushed
<1>20. CASE FlushAlloc
  BY <1>20 DEF FlushAlloc, Unflushed
<1>21. CASE synchronize_rcu
  BY <1>21 DEF synchronize_rcu, Unflushed
<1>22. CASE rcu_barrier
  BY <1>22 DEF rcu_barrier, Unflushed
<1>23. CASE kmem_cache_destroy
  BY <1>23 DEF kmem_cache_destroy, Unflushed
<1>24. ASSUME NEW b \in Buckets, FlushDetach(b)
     PROVE  NextInv'
  BY <1>24 DEF FlushDetach, Unflushed
<1>25. ASSUME NEW b \in Buckets, FlushFree(b)
     PROVE  NextInv'
  BY <1>25 DEF FlushFree, Unflushed
<1>26. CASE UNCHANGED vars
  BY <1>26 DEF vars, TypeOK, CallInv, MineInv, NextInv, PprevInv, WalkInv
<1> QED
  BY <1>1, <1>2, <1>3, <1>4, <1>5, <1>6, <1>7, <1>8, <1>9, <1>10, <1>11, <1>12, <1>13, <1>14, <1>15, <1>16, <1>17, <1>18, <1>19, <1>20, <1>21, <1>22, <1>23, <1>24, <1>25, <1>26 DEF Next, Call, Module

LEMMA PprevInvNext == TypeOK /\ CallInv /\ MineInv /\ NextInv /\ PprevInv /\ WalkInv /\ Ranked /\ Unflushed' /\ [Next]_vars => PprevInv'
<1> SUFFICES ASSUME TypeOK, CallInv, MineInv, NextInv, PprevInv, WalkInv, Ranked, Unflushed', [Next]_vars
             PROVE  PprevInv'
  OBVIOUS
<1> USE HashAssumption DEF listVars, memVars, callVars
<1> USE DEF OnList, Home, Nodes
<1>1. ASSUME NEW u \in Users, NEW k \in Keys, NEW v \in Values, InsertAlloc(u, k, v)
     PROVE  PprevInv'
  BY <1>1 DEF InsertAlloc, Enter, Goto, TypeOK, CallInv, MineInv, NextInv, PprevInv, WalkInv
<1>2. ASSUME NEW u \in Users, NEW k \in Keys, RemoveCall(u, k)
     PROVE  PprevInv'
  BY <1>2 DEF RemoveCall, Enter, Goto, TypeOK, CallInv, MineInv, NextInv, PprevInv, WalkInv
<1>3. ASSUME NEW u \in Users, NEW k \in Keys, GetCall(u, k)
     PROVE  PprevInv'
  BY <1>3 DEF GetCall, Enter, Goto, TypeOK, CallInv, MineInv, NextInv, PprevInv, WalkInv
<1>4. ASSUME NEW u \in Users, Lock(u)
     PROVE  PprevInv'
  BY <1>4 DEF Lock, Goto, Bucket, TypeOK, CallInv, MineInv, NextInv, PprevInv, WalkInv
<1>5. ASSUME NEW u \in Users, Walk(u)
     PROVE  PprevInv'
  BY <1>5 DEF Walk, TypeOK, CallInv, MineInv, NextInv, PprevInv, WalkInv
<1>6. ASSUME NEW u \in Users, InsertReplace(u)
     PROVE  PprevInv'
  <2>1. PICK o \in Entries, m \in Entries, P \in Nodes :
           /\ o = cur[u] /\ m = mine[u] /\ P = pprev[o]
           /\ slab[o] = "linked" /\ slab[m] = "private"
           /\ m # o /\ P # o /\ P # m /\ OnList(P) /\ next[P] = o
           /\ next[o] # o /\ next[o] # P /\ next[o] # m
           /\ Home(m) = Home(o) /\ Home(P) = Home(o) /\ Home(o) = Bucket(u)
           /\ next[o] # NULL => next[o] \in Entries /\ slab[next[o]] = "linked" /\ pprev[next[o]] = o
           /\ ent[m].key \in Keys
    BY <1>6, ReplacePosition DEF InsertReplace, Goto
  <2>2. /\ next' = [next EXCEPT ![m] = next[o], ![P] = m]
        /\ pprev' = [x \in Entries |-> IF x = m THEN P
                                   ELSE IF x = next[o] THEN m
                                   ELSE IF x = o THEN NULL ELSE pprev[x]]
        /\ slab' = [slab EXCEPT ![m] = "linked", ![o] = "unlinked"]
        /\ pc' = [pc EXCEPT ![u] = "unlock"]
        /\ UNCHANGED <<ent, waits, cur, req, lock>>
    BY <1>6, <2>1 DEF InsertReplace, hlist_replace_rcu, Goto
  <2> SUFFICES ASSUME NEW e \in Entries, slab'[e] = "linked"
               PROVE  /\ pprev'[e] \in Nodes /\ OnList(pprev[e])'
                      /\ next'[pprev'[e]] = e /\ ent'[e].key \in Keys
    BY DEF PprevInv
  <2>3. CASE e = m
    BY <2>1, <2>2, <2>3 DEF TypeOK
  <2>4. CASE e = next[o]
    BY <2>1, <2>2, <2>4 DEF TypeOK, PprevInv
  <2>5. CASE e # m /\ e # next[o]
    <3>1. e # o /\ slab[e] = "linked" /\ pprev'[e] = pprev[e]
      BY <2>1, <2>2, <2>5 DEF TypeOK
    <3>2. pprev[e] \in Nodes /\ OnList(pprev[e]) /\ next[pprev[e]] = e /\ ent[e].key \in Keys
      BY <3>1 DEF PprevInv
    <3>3. pprev[e] # P /\ pprev[e] # m /\ pprev[e] # o
      BY <2>1, <2>5, <3>1, <3>2
    <3> QED
      BY <2>2, <3>1, <3>2, <3>3 DEF TypeOK
  <2> QED
    BY <2>3, <2>4, <2>5
<1>7. ASSUME NEW u \in Users, InsertAdd(u)
     PROVE  PprevInv'
  <2>1. PICK m \in Entries, b \in Buckets :
           /\ m # b /\ slab[m] = "private" /\ ent[m].key \in Keys
           /\ next[b] # NULL => /\ next[b] \in Entries /\ slab[next[b]] = "linked"
                                /\ pprev[next[b]] = b
           /\ next[b] # m
           /\ next' = [next EXCEPT ![m] = next[b], ![b] = m]
           /\ pprev' = [x \in Entries |-> IF x = m THEN b
                                          ELSE IF x = next[b] THEN m ELSE pprev[x]]
           /\ slab' = [slab EXCEPT ![m] = "linked"]
           /\ UNCHANGED ent
    BY <1>7, AddPosition
  <2> SUFFICES ASSUME NEW e \in Entries, slab'[e] = "linked"
               PROVE  /\ pprev'[e] \in Nodes /\ OnList(pprev[e])'
                      /\ next'[pprev'[e]] = e /\ ent'[e].key \in Keys
    BY DEF PprevInv
  <2>2. CASE e = m
    BY <2>1, <2>2 DEF TypeOK
  <2>3. CASE e # m
    <3>1. slab[e] = "linked"
      BY <2>1, <2>3 DEF TypeOK
    <3>2. pprev[e] \in Nodes /\ OnList(pprev[e]) /\ next[pprev[e]] = e /\ ent[e].key \in Keys
      BY <3>1 DEF PprevInv
    <3>3. CASE e = next[b]
      BY <2>1, <2>3, <3>2, <3>3 DEF TypeOK
    <3>4. CASE e # next[b]
      <4>1. pprev'[e] = pprev[e] /\ pprev[e] # b /\ pprev[e] # m
        BY <2>1, <2>3, <3>2, <3>4
      <4> QED
        BY <2>1, <3>2, <4>1 DEF TypeOK
    <3> QED
      BY <3>3, <3>4
  <2> QED
    BY <2>2, <2>3
<1>8. ASSUME NEW u \in Users, RemoveFound(u)
     PROVE  PprevInv'
  <2>1. PICK o \in Entries, P \in Nodes :
           /\ o = cur[u] /\ P = pprev[o]
           /\ slab[o] = "linked"
           /\ P # o /\ OnList(P) /\ next[P] = o
           /\ next[o] # o /\ next[o] # P
           /\ Home(P) = Home(o) /\ Home(o) = Bucket(u)
           /\ next[o] # NULL => next[o] \in Entries /\ slab[next[o]] = "linked" /\ pprev[next[o]] = o
    BY <1>8, Position DEF RemoveFound, Goto
  <2>2. /\ next' = [next EXCEPT ![P] = next[o]]
        /\ pprev' = [x \in Entries |-> IF x = o THEN NULL
                                   ELSE IF x = next[o] THEN P ELSE pprev[x]]
        /\ slab' = [slab EXCEPT ![o] = "unlinked"]
        /\ pc' = [pc EXCEPT ![u] = "unlock"]
        /\ UNCHANGED <<ent, waits, cur, req, lock>>
    BY <1>8, <2>1 DEF RemoveFound, hlist_del_rcu, Goto
  <2> SUFFICES ASSUME NEW e \in Entries, slab'[e] = "linked"
               PROVE  /\ pprev'[e] \in Nodes /\ OnList(pprev[e])'
                      /\ next'[pprev'[e]] = e /\ ent'[e].key \in Keys
    BY DEF PprevInv
  <2>3. e # o /\ slab[e] = "linked"
    BY <2>1, <2>2 DEF TypeOK
  <2>4. pprev[e] \in Nodes /\ OnList(pprev[e]) /\ next[pprev[e]] = e /\ ent[e].key \in Keys
    BY <2>3 DEF PprevInv
  <2>5. CASE e = next[o]
    BY <2>1, <2>2, <2>3, <2>4, <2>5 DEF TypeOK
  <2>6. CASE e # next[o]
    <3>1. pprev[e] # P /\ pprev[e] # o /\ pprev'[e] = pprev[e]
      BY <2>1, <2>2, <2>3, <2>4, <2>6
    <3> QED
      BY <2>2, <2>3, <2>4, <3>1 DEF TypeOK
  <2> QED
    BY <2>5, <2>6
<1>9. ASSUME NEW u \in Users, RemoveMissing(u)
     PROVE  PprevInv'
  BY <1>9 DEF RemoveMissing, Goto, TypeOK, CallInv, MineInv, NextInv, PprevInv, WalkInv
<1>10. ASSUME NEW u \in Users, Unlock(u)
     PROVE  PprevInv'
  BY <1>10 DEF Unlock, Goto, Bucket, NoRequest, TypeOK, CallInv, MineInv, NextInv, PprevInv, WalkInv
<1>11. ASSUME NEW u \in Users, Retire(u)
     PROVE  PprevInv'
  BY <1>11 DEF Retire, Goto, call_rcu, TypeOK, CallInv, MineInv, NextInv, PprevInv, WalkInv
<1>12. ASSUME NEW u \in Users, ReadNext(u)
     PROVE  PprevInv'
  BY <1>12 DEF ReadNext, TypeOK, CallInv, MineInv, NextInv, PprevInv, WalkInv
<1>13. ASSUME NEW u \in Users, ReadDone(u)
     PROVE  PprevInv'
  BY <1>13 DEF ReadDone, Goto, Found, TypeOK, CallInv, MineInv, NextInv, PprevInv, WalkInv
<1>14. ASSUME NEW u \in Users, ReadUnlock(u)
     PROVE  PprevInv'
  BY <1>14 DEF ReadUnlock, Goto, rcu_read_unlock, NoRequest, TypeOK, CallInv, MineInv, NextInv, PprevInv, WalkInv
<1>15. ASSUME NEW e \in Entries, pe_entry_free_rcu(e)
     PROVE  PprevInv'
  BY <1>15 DEF pe_entry_free_rcu, kmem_cache_free, TypeOK, CallInv, MineInv, NextInv, PprevInv, WalkInv
<1>16. CASE ModuleInit
  BY <1>16 DEF ModuleInit, TypeOK, CallInv, MineInv, NextInv, PprevInv, WalkInv
<1>17. CASE CreateEntry
  BY <1>17 DEF CreateEntry, TypeOK, CallInv, MineInv, NextInv, PprevInv, WalkInv
<1>18. CASE RemoveProcEntry
  BY <1>18 DEF RemoveProcEntry, TypeOK, CallInv, MineInv, NextInv, PprevInv, WalkInv
<1>19. CASE Rundown
  BY <1>19 DEF Rundown, Unflushed
<1>20. CASE FlushAlloc
  BY <1>20 DEF FlushAlloc, Unflushed
<1>21. CASE synchronize_rcu
  BY <1>21 DEF synchronize_rcu, Unflushed
<1>22. CASE rcu_barrier
  BY <1>22 DEF rcu_barrier, Unflushed
<1>23. CASE kmem_cache_destroy
  BY <1>23 DEF kmem_cache_destroy, Unflushed
<1>24. ASSUME NEW b \in Buckets, FlushDetach(b)
     PROVE  PprevInv'
  BY <1>24 DEF FlushDetach, Unflushed
<1>25. ASSUME NEW b \in Buckets, FlushFree(b)
     PROVE  PprevInv'
  BY <1>25 DEF FlushFree, Unflushed
<1>26. CASE UNCHANGED vars
  BY <1>26 DEF vars, TypeOK, CallInv, MineInv, NextInv, PprevInv, WalkInv
<1> QED
  BY <1>1, <1>2, <1>3, <1>4, <1>5, <1>6, <1>7, <1>8, <1>9, <1>10, <1>11, <1>12, <1>13, <1>14, <1>15, <1>16, <1>17, <1>18, <1>19, <1>20, <1>21, <1>22, <1>23, <1>24, <1>25, <1>26 DEF Next, Call, Module

LEMMA WalkNext == TypeOK /\ CallInv /\ MineInv /\ NextInv /\ PprevInv /\ WalkInv /\ Ranked /\ Unflushed' /\ [Next]_vars => WalkInv'
<1> SUFFICES ASSUME TypeOK, CallInv, MineInv, NextInv, PprevInv, WalkInv, Ranked, Unflushed', [Next]_vars
             PROVE  WalkInv'
  OBVIOUS
<1> USE HashAssumption DEF listVars, memVars, callVars
<1> USE DEF OnList, Home, Nodes, Bucket
<1>1. ASSUME NEW u \in Users, NEW k \in Keys, NEW v \in Values, InsertAlloc(u, k, v)
     PROVE  WalkInv'
  <2>1. CASE slab' = slab
    BY <1>1, <2>1 DEF TypeOK, WalkInv, InsertAlloc, Enter, Goto, CallInv
  <2>2. CASE slab' # slab
    <3>1. PICK e \in Entries :
             /\ pc[u] = "idle" /\ pc' = [pc EXCEPT ![u] = "lock"]
             /\ slab[e] = "free"
             /\ slab' = [slab EXCEPT ![e] = "private"]
             /\ ent' = [ent EXCEPT ![e] = [key |-> k, value |-> v]]
             /\ req' = [req EXCEPT ![u] = [op |-> "insert", key |-> k, value |-> v]]
             /\ mine' = [mine EXCEPT ![u] = e]
      BY <1>1, <2>2 DEF InsertAlloc, Goto
    <3>2. UNCHANGED <<next, pprev, waits, cur, mod>>
      BY <1>1 DEF InsertAlloc
    <3> QED
      BY <3>1, <3>2 DEF TypeOK, WalkInv, CallInv
  <2> QED
    BY <2>1, <2>2
<1>2. ASSUME NEW u \in Users, NEW k \in Keys, RemoveCall(u, k)
     PROVE  WalkInv'
  BY <1>2 DEF RemoveCall, Enter, Goto, TypeOK, CallInv, MineInv, NextInv, PprevInv, WalkInv
<1>3. ASSUME NEW u \in Users, NEW k \in Keys, GetCall(u, k)
     PROVE  WalkInv'
  BY <1>3 DEF GetCall, Enter, Goto, TypeOK, CallInv, MineInv, NextInv, PprevInv, WalkInv
<1>4. ASSUME NEW u \in Users, Lock(u)
     PROVE  WalkInv'
  <2>1. /\ pc[u] = "lock" /\ pc' = [pc EXCEPT ![u] = "walk"]
        /\ cur' = [cur EXCEPT ![u] = next[Bucket(u)]]
        /\ UNCHANGED <<slab, ent, req>>
    BY <1>4 DEF Lock, Goto
  <2>2. Bucket(u) \in Buckets
    BY <2>1 DEF CallInv, Bucket
  <2>3. next[Bucket(u)] # NULL =>
            /\ next[Bucket(u)] \in Entries /\ slab[next[Bucket(u)]] = "linked"
            /\ Home(next[Bucket(u)]) = Bucket(u)
    BY <2>2 DEF TypeOK, NextInv, OnList, Home
  <2> SUFFICES ASSUME NEW w \in Users, pc'[w] = "walk", cur'[w] # NULL
               PROVE  /\ cur'[w] \in Entries /\ slab'[cur'[w]] = "linked"
                      /\ Home(cur[w])' = Bucket(w)'
    BY DEF WalkInv
  <2>4. CASE w = u
    BY <2>1, <2>3, <2>4 DEF TypeOK, Bucket, Home
  <2>5. CASE w # u
    <3>1. pc[w] = "walk" /\ cur'[w] = cur[w] /\ cur[w] # NULL
      BY <2>1, <2>5 DEF TypeOK
    <3> QED
      BY <2>1, <3>1 DEF WalkInv, Bucket, Home
  <2> QED
    BY <2>4, <2>5
<1>5. ASSUME NEW u \in Users, Walk(u)
     PROVE  WalkInv'
  BY <1>5 DEF Walk, TypeOK, CallInv, MineInv, NextInv, PprevInv, WalkInv
<1>6. ASSUME NEW u \in Users, InsertReplace(u)
     PROVE  WalkInv'
  <2> SUFFICES ASSUME NEW w \in Users, pc'[w] = "walk", cur'[w] # NULL
               PROVE  /\ cur'[w] \in Entries /\ slab'[cur'[w]] = "linked"
                      /\ Home(cur[w])' = Bucket(w)'
    BY DEF WalkInv
  <2>1. PICK o \in Entries, m \in Entries, P \in Nodes :
           /\ o = cur[u] /\ m = mine[u] /\ P = pprev[o]
           /\ slab[o] = "linked" /\ slab[m] = "private"
           /\ m # o /\ P # o /\ P # m /\ OnList(P) /\ next[P] = o
           /\ next[o] # o /\ next[o] # P /\ next[o] # m
           /\ Home(m) = Home(o) /\ Home(P) = Home(o) /\ Home(o) = Bucket(u)
           /\ next[o] # NULL => next[o] \in Entries /\ slab[next[o]] = "linked" /\ pprev[next[o]] = o
           /\ ent[m].key \in Keys
    BY <1>6, ReplacePosition DEF InsertReplace, Goto
  <2>2. /\ next' = [next EXCEPT ![m] = next[o], ![P] = m]
        /\ pprev' = [x \in Entries |-> IF x = m THEN P
                                   ELSE IF x = next[o] THEN m
                                   ELSE IF x = o THEN NULL ELSE pprev[x]]
        /\ slab' = [slab EXCEPT ![m] = "linked", ![o] = "unlinked"]
        /\ pc' = [pc EXCEPT ![u] = "unlock"]
        /\ UNCHANGED <<ent, waits, cur, req, lock>>
    BY <1>6, <2>1 DEF InsertReplace, hlist_replace_rcu, Goto
  <2>3. w # u /\ pc[w] = "walk" /\ Bucket(w)' = Bucket(w) /\ Bucket(w) # Bucket(u)
    BY <1>6, <2>2 DEF TypeOK, CallInv, InsertReplace, Goto
  <2>4. cur[w] \in Entries /\ slab[cur[w]] = "linked" /\ Home(cur[w]) = Bucket(w)
    BY <2>2, <2>3 DEF WalkInv
  <2>5. cur[w] # o
    BY <2>1, <2>3, <2>4
  <2> QED
    BY <2>1, <2>2, <2>3, <2>4, <2>5 DEF TypeOK, Home
<1>7. ASSUME NEW u \in Users, InsertAdd(u)
     PROVE  WalkInv'
  BY <1>7 DEF InsertAdd, Goto, Bucket, TypeOK, CallInv, MineInv, NextInv, PprevInv, WalkInv
<1>8. ASSUME NEW u \in Users, RemoveFound(u)
     PROVE  WalkInv'
  <2> SUFFICES ASSUME NEW w \in Users, pc'[w] = "walk", cur'[w] # NULL
               PROVE  /\ cur'[w] \in Entries /\ slab'[cur'[w]] = "linked"
                      /\ Home(cur[w])' = Bucket(w)'
    BY DEF WalkInv
  <2>1. PICK o \in Entries, P \in Nodes :
           /\ o = cur[u] /\ P = pprev[o]
           /\ slab[o] = "linked"
           /\ P # o /\ OnList(P) /\ next[P] = o
           /\ next[o] # o /\ next[o] # P
           /\ Home(P) = Home(o) /\ Home(o) = Bucket(u)
           /\ next[o] # NULL => next[o] \in Entries /\ slab[next[o]] = "linked" /\ pprev[next[o]] = o
    BY <1>8, Position DEF RemoveFound, Goto
  <2>2. /\ next' = [next EXCEPT ![P] = next[o]]
        /\ pprev' = [x \in Entries |-> IF x = o THEN NULL
                                   ELSE IF x = next[o] THEN P ELSE pprev[x]]
        /\ slab' = [slab EXCEPT ![o] = "unlinked"]
        /\ pc' = [pc EXCEPT ![u] = "unlock"]
        /\ UNCHANGED <<ent, waits, cur, req, lock>>
    BY <1>8, <2>1 DEF RemoveFound, hlist_del_rcu, Goto
  <2>3. w # u /\ pc[w] = "walk" /\ Bucket(w)' = Bucket(w) /\ Bucket(w) # Bucket(u)
    BY <1>8, <2>2 DEF TypeOK, CallInv, RemoveFound, Goto
  <2>4. cur[w] \in Entries /\ slab[cur[w]] = "linked" /\ Home(cur[w]) = Bucket(w)
    BY <2>2, <2>3 DEF WalkInv
  <2>5. cur[w] # o
    BY <2>1, <2>3, <2>4
  <2> QED
    BY <2>1, <2>2, <2>3, <2>4, <2>5 DEF TypeOK, Home
<1>9. ASSUME NEW u \in Users, RemoveMissing(u)
     PROVE  WalkInv'
  BY <1>9 DEF RemoveMissing, Goto, TypeOK, CallInv, MineInv, NextInv, PprevInv, WalkInv
<1>10. ASSUME NEW u \in Users, Unlock(u)
     PROVE  WalkInv'
  BY <1>10 DEF Unlock, Goto, Bucket, NoRequest, TypeOK, CallInv, MineInv, NextInv, PprevInv, WalkInv
<1>11. ASSUME NEW u \in Users, Retire(u)
     PROVE  WalkInv'
  BY <1>11 DEF Retire, Goto, call_rcu, TypeOK, CallInv, MineInv, NextInv, PprevInv, WalkInv
<1>12. ASSUME NEW u \in Users, ReadNext(u)
     PROVE  WalkInv'
  BY <1>12 DEF ReadNext, TypeOK, CallInv, MineInv, NextInv, PprevInv, WalkInv
<1>13. ASSUME NEW u \in Users, ReadDone(u)
     PROVE  WalkInv'
  BY <1>13 DEF ReadDone, Goto, Found, TypeOK, CallInv, MineInv, NextInv, PprevInv, WalkInv
<1>14. ASSUME NEW u \in Users, ReadUnlock(u)
     PROVE  WalkInv'
  BY <1>14 DEF ReadUnlock, Goto, rcu_read_unlock, NoRequest, TypeOK, CallInv, MineInv, NextInv, PprevInv, WalkInv
<1>15. ASSUME NEW e \in Entries, pe_entry_free_rcu(e)
     PROVE  WalkInv'
  BY <1>15 DEF pe_entry_free_rcu, kmem_cache_free, TypeOK, CallInv, MineInv, NextInv, PprevInv, WalkInv
<1>16. CASE ModuleInit
  BY <1>16 DEF ModuleInit, TypeOK, CallInv, MineInv, NextInv, PprevInv, WalkInv
<1>17. CASE CreateEntry
  BY <1>17 DEF CreateEntry, TypeOK, CallInv, MineInv, NextInv, PprevInv, WalkInv
<1>18. CASE RemoveProcEntry
  BY <1>18 DEF RemoveProcEntry, TypeOK, CallInv, MineInv, NextInv, PprevInv, WalkInv
<1>19. CASE Rundown
  BY <1>19 DEF Rundown, Unflushed
<1>20. CASE FlushAlloc
  BY <1>20 DEF FlushAlloc, Unflushed
<1>21. CASE synchronize_rcu
  BY <1>21 DEF synchronize_rcu, Unflushed
<1>22. CASE rcu_barrier
  BY <1>22 DEF rcu_barrier, Unflushed
<1>23. CASE kmem_cache_destroy
  BY <1>23 DEF kmem_cache_destroy, Unflushed
<1>24. ASSUME NEW b \in Buckets, FlushDetach(b)
     PROVE  WalkInv'
  BY <1>24 DEF FlushDetach, Unflushed
<1>25. ASSUME NEW b \in Buckets, FlushFree(b)
     PROVE  WalkInv'
  BY <1>25 DEF FlushFree, Unflushed
<1>26. CASE UNCHANGED vars
  BY <1>26 DEF vars, TypeOK, CallInv, MineInv, NextInv, PprevInv, WalkInv
<1> QED
  BY <1>1, <1>2, <1>3, <1>4, <1>5, <1>6, <1>7, <1>8, <1>9, <1>10, <1>11, <1>12, <1>13, <1>14, <1>15, <1>16, <1>17, <1>18, <1>19, <1>20, <1>21, <1>22, <1>23, <1>24, <1>25, <1>26 DEF Next, Call, Module

\* A step that publishes nothing, frees nothing a reader can reach and moves
\* no reader.
LEMMA ReachKept ==
    ASSUME ReadInv,
           \A r \in Users : InRcu(r)' => InRcu(r) /\ cur'[r] = cur[r],
           \A e \in Entries : slab'[e] = "linked" => slab[e] = "linked",
           \A r \in Users, e \in Entries :
              InRcu(r)' /\ Safe(r, e) => Safe(r, e)' /\ next'[e] = next[e]
    PROVE  ReadInv'
<1> SUFFICES ASSUME NEW r \in Users, InRcu(r)'
             PROVE  \E R \in SUBSET Entries : Reach(r, R)'
  BY DEF ReadInv
<1>1. PICK R \in SUBSET Entries : Reach(r, R)
  BY DEF ReadInv
<1>2. \A e \in R : Safe(r, e)' /\ (next'[e] # NULL => next'[e] \in R)
  BY <1>1 DEF Reach
<1>3. Reach(r, R)'
  BY <1>1, <1>2 DEF Reach
<1> QED
  BY <1>3

LEMMA ReadInvNext == TypeOK /\ CallInv /\ MineInv /\ NextInv /\ PprevInv /\ WalkInv /\ Ranked /\ ReadInv /\ Unflushed' /\ [Next]_vars => ReadInv'
<1> SUFFICES ASSUME TypeOK, CallInv, MineInv, NextInv, PprevInv, WalkInv, Ranked, ReadInv, Unflushed', [Next]_vars
             PROVE  ReadInv'
  OBVIOUS
<1> USE HashAssumption DEF listVars, memVars, callVars
<1> USE DEF OnList, Nodes
<1>1. ASSUME NEW u \in Users, NEW k \in Keys, NEW v \in Values, InsertAlloc(u, k, v)
     PROVE  ReadInv'
  <2>1. \A r \in Users : InRcu(r)' => InRcu(r) /\ cur'[r] = cur[r]
    BY <1>1 DEF TypeOK, InRcu, InsertAlloc, Goto
  <2>2. UNCHANGED <<next, waits>>
    BY <1>1 DEF InsertAlloc
  <2>3. slab' = slab \/ \E e \in Entries : slab[e] = "free" /\ slab' = [slab EXCEPT ![e] = "private"]
    BY <1>1 DEF InsertAlloc
  <2>4. \A e \in Entries : slab[e] # "free" \/ slab'[e] = "linked" => slab'[e] = slab[e]
    BY <2>3 DEF TypeOK
  <2> QED
    BY <2>1, <2>2, <2>4, ReachKept DEF Safe
<1>2. ASSUME NEW u \in Users, NEW k \in Keys, RemoveCall(u, k)
     PROVE  ReadInv'
  <2>1. \A r \in Users : InRcu(r)' => InRcu(r) /\ cur'[r] = cur[r]
    BY <1>2 DEF TypeOK, InRcu, RemoveCall, Enter, Goto
  <2>2. UNCHANGED <<next, slab, waits>>
    BY <1>2 DEF RemoveCall
  <2> QED
    BY <2>1, <2>2, ReachKept DEF Safe
<1>3. ASSUME NEW u \in Users, NEW k \in Keys, GetCall(u, k)
     PROVE  ReadInv'
  <2> SUFFICES ASSUME NEW r \in Users, InRcu(r)'
               PROVE  \E R \in SUBSET Entries : Reach(r, R)'
    BY DEF ReadInv
  <2>1. UNCHANGED <<next, slab, waits>> /\ cur' = [cur EXCEPT ![u] = Hash[k]]
    BY <1>3 DEF GetCall
  <2>2. CASE r = u
    <3>1. cur'[r] \notin Entries
      BY <2>1, <2>2 DEF TypeOK
    <3>2. \A e \in Entries : slab[e] = "linked" /\ next[e] # NULL =>
             next[e] \in Entries /\ slab[next[e]] = "linked"
      BY DEF NextInv, TypeOK
    <3>3. Reach(r, {e \in Entries : slab[e] = "linked"})'
      BY <2>1, <3>1, <3>2 DEF Reach, Safe
    <3> QED
      BY <2>1, <3>3
  <2>3. CASE r # u
    <3>1. InRcu(r) /\ cur'[r] = cur[r]
      BY <1>3, <2>1, <2>3 DEF TypeOK, GetCall, Goto, InRcu
    <3>2. PICK R \in SUBSET Entries : Reach(r, R)
      BY <3>1 DEF ReadInv
    <3>3. Reach(r, R)'
      BY <2>1, <3>1, <3>2 DEF Reach, Safe
    <3> QED
      BY <3>3
  <2> QED
    BY <2>2, <2>3
<1>4. ASSUME NEW u \in Users, Lock(u)
     PROVE  ReadInv'
  <2>1. \A r \in Users : InRcu(r)' => InRcu(r) /\ cur'[r] = cur[r]
    BY <1>4 DEF TypeOK, InRcu, Lock, Goto
  <2>2. UNCHANGED <<next, slab, waits>>
    BY <1>4 DEF Lock
  <2> QED
    BY <2>1, <2>2, ReachKept DEF Safe
<1>5. ASSUME NEW u \in Users, Walk(u)
     PROVE  ReadInv'
  <2>1. \A r \in Users : InRcu(r)' => InRcu(r) /\ cur'[r] = cur[r]
    BY <1>5 DEF TypeOK, InRcu, Walk
  <2>2. UNCHANGED <<next, slab, waits>>
    BY <1>5 DEF Walk
  <2> QED
    BY <2>1, <2>2, ReachKept DEF Safe
<1>6. ASSUME NEW u \in Users, InsertReplace(u)
     PROVE  ReadInv'
  <2>1. PICK o \in Entries, m \in Entries, P \in Nodes :
           /\ o = cur[u] /\ m = mine[u] /\ P = pprev[o]
           /\ slab[o] = "linked" /\ slab[m] = "private"
           /\ m # o /\ P # o /\ P # m /\ OnList(P) /\ next[P] = o
           /\ next[o] # o /\ next[o] # P /\ next[o] # m
           /\ Home(m) = Home(o) /\ Home(P) = Home(o) /\ Home(o) = Bucket(u)
           /\ next[o] # NULL => next[o] \in Entries /\ slab[next[o]] = "linked" /\ pprev[next[o]] = o
           /\ ent[m].key \in Keys
    BY <1>6, ReplacePosition DEF InsertReplace, Goto
  <2>2. /\ next' = [next EXCEPT ![m] = next[o], ![P] = m]
        /\ pprev' = [x \in Entries |-> IF x = m THEN P
                                   ELSE IF x = next[o] THEN m
                                   ELSE IF x = o THEN NULL ELSE pprev[x]]
        /\ slab' = [slab EXCEPT ![m] = "linked", ![o] = "unlinked"]
        /\ pc' = [pc EXCEPT ![u] = "unlock"]
        /\ UNCHANGED <<ent, waits, cur, req, lock>>
    BY <1>6, <2>1 DEF InsertReplace, hlist_replace_rcu, Goto
  <2> SUFFICES ASSUME NEW r \in Users, InRcu(r)'
               PROVE  \E R \in SUBSET Entries : Reach(r, R)'
    BY DEF ReadInv
  <2>3. InRcu(r)
    BY <1>6, <2>2 DEF TypeOK, InRcu, InsertReplace
  <2>4. PICK R \in SUBSET Entries : Reach(r, R)
    BY <2>3 DEF ReadInv
  <2>5. cur'[r] \in Entries => cur'[r] \in (R \cup {m})
    BY <2>2, <2>4 DEF Reach
  <2>6. ASSUME NEW e \in Entries, slab'[e] = "linked"
        PROVE  e \in (R \cup {m})
    BY <2>1, <2>2, <2>4, <2>6 DEF TypeOK, Reach
  <2>7. ASSUME NEW e \in (R \cup {m})
        PROVE  Safe(r, e)' /\ (next'[e] # NULL => next'[e] \in (R \cup {m}))
    <3>1. Safe(r, e)'
      BY <2>1, <2>2, <2>4, <2>7 DEF TypeOK, Reach, Safe
    <3>2. next'[e] # NULL => next'[e] \in (R \cup {m})
      BY <2>1, <2>2, <2>4, <2>7 DEF TypeOK, Reach
    <3> QED
      BY <3>1, <3>2
  <2> WITNESS (R \cup {m}) \in SUBSET Entries
  <2> QED
    BY <2>5, <2>6, <2>7 DEF Reach
<1>7. ASSUME NEW u \in Users, InsertAdd(u)
     PROVE  ReadInv'
  <2>1. PICK m \in Entries, b \in Buckets :
           /\ m = mine[u] /\ b = Bucket(u) /\ slab[m] = "private"
           /\ next[b] # NULL => next[b] \in Entries /\ slab[next[b]] = "linked"
    <3>1. Bucket(u) \in Buckets
      BY <1>7 DEF CallInv, InsertAdd, Goto, Bucket
    <3>2. mine[u] \in Entries /\ slab[mine[u]] = "private"
      BY <1>7 DEF MineInv, InsertAdd, Goto
    <3> QED
      BY <3>1, <3>2 DEF NextInv, TypeOK, OnList, Nodes
  <2>2. /\ next' = [next EXCEPT ![m] = next[b], ![b] = m]
        /\ slab' = [slab EXCEPT ![m] = "linked"]
        /\ pc' = [pc EXCEPT ![u] = "unlock"]
        /\ UNCHANGED <<waits, cur>>
    BY <1>7, <2>1 DEF InsertAdd, hlist_add_head_rcu, Goto
  <2> SUFFICES ASSUME NEW r \in Users, InRcu(r)'
               PROVE  \E R \in SUBSET Entries : Reach(r, R)'
    BY DEF ReadInv
  <2>3. InRcu(r)
    BY <1>7, <2>2 DEF TypeOK, InRcu, InsertAdd
  <2>4. PICK R \in SUBSET Entries : Reach(r, R)
    BY <2>3 DEF ReadInv
  <2>5. cur'[r] \in Entries => cur'[r] \in (R \cup {m})
    BY <2>2, <2>4 DEF Reach
  <2>6. ASSUME NEW e \in Entries, slab'[e] = "linked"
        PROVE  e \in (R \cup {m})
    BY <2>1, <2>2, <2>4, <2>6 DEF TypeOK, Reach
  <2>7. ASSUME NEW e \in (R \cup {m})
        PROVE  Safe(r, e)' /\ (next'[e] # NULL => next'[e] \in (R \cup {m}))
    <3>1. Safe(r, e)'
      BY <2>1, <2>2, <2>4, <2>7 DEF TypeOK, Reach, Safe
    <3>2. next'[e] # NULL => next'[e] \in (R \cup {m})
      BY <2>1, <2>2, <2>4, <2>7 DEF TypeOK, Reach
    <3> QED
      BY <3>1, <3>2
  <2> WITNESS (R \cup {m}) \in SUBSET Entries
  <2> QED
    BY <2>5, <2>6, <2>7 DEF Reach
<1>8. ASSUME NEW u \in Users, RemoveFound(u)
     PROVE  ReadInv'
  <2>1. PICK o \in Entries, P \in Nodes :
           /\ o = cur[u] /\ P = pprev[o]
           /\ slab[o] = "linked"
           /\ P # o /\ OnList(P) /\ next[P] = o
           /\ next[o] # o /\ next[o] # P
           /\ Home(P) = Home(o) /\ Home(o) = Bucket(u)
           /\ next[o] # NULL => next[o] \in Entries /\ slab[next[o]] = "linked" /\ pprev[next[o]] = o
    BY <1>8, Position DEF RemoveFound, Goto
  <2>2. /\ next' = [next EXCEPT ![P] = next[o]]
        /\ pprev' = [x \in Entries |-> IF x = o THEN NULL
                                   ELSE IF x = next[o] THEN P ELSE pprev[x]]
        /\ slab' = [slab EXCEPT ![o] = "unlinked"]
        /\ pc' = [pc EXCEPT ![u] = "unlock"]
        /\ UNCHANGED <<ent, waits, cur, req, lock>>
    BY <1>8, <2>1 DEF RemoveFound, hlist_del_rcu, Goto
  <2> SUFFICES ASSUME NEW r \in Users, InRcu(r)'
               PROVE  \E R \in SUBSET Entries : Reach(r, R)'
    BY DEF ReadInv
  <2>3. InRcu(r)
    BY <1>8, <2>2 DEF TypeOK, InRcu, RemoveFound
  <2>4. PICK R \in SUBSET Entries : Reach(r, R)
    BY <2>3 DEF ReadInv
  <2>5. cur'[r] \in Entries => cur'[r] \in R
    BY <2>2, <2>4 DEF Reach
  <2>6. ASSUME NEW e \in Entries, slab'[e] = "linked"
        PROVE  e \in R
    BY <2>1, <2>2, <2>4, <2>6 DEF TypeOK, Reach
  <2>7. ASSUME NEW e \in R
        PROVE  Safe(r, e)' /\ (next'[e] # NULL => next'[e] \in R)
    <3>1. Safe(r, e)'
      BY <2>1, <2>2, <2>4, <2>7 DEF TypeOK, Reach, Safe
    <3>2. next'[e] # NULL => next'[e] \in R
      BY <2>1, <2>2, <2>4, <2>7 DEF TypeOK, Reach
    <3> QED
      BY <3>1, <3>2
  <2> WITNESS R \in SUBSET Entries
  <2> QED
    BY <2>5, <2>6, <2>7 DEF Reach
<1>9. ASSUME NEW u \in Users, RemoveMissing(u)
     PROVE  ReadInv'
  <2>1. \A r \in Users : InRcu(r)' => InRcu(r) /\ cur'[r] = cur[r]
    BY <1>9 DEF TypeOK, InRcu, RemoveMissing, Goto
  <2>2. UNCHANGED <<next, slab, waits>>
    BY <1>9 DEF RemoveMissing
  <2> QED
    BY <2>1, <2>2, ReachKept DEF Safe
<1>10. ASSUME NEW u \in Users, Unlock(u)
     PROVE  ReadInv'
  <2>1. \A r \in Users : InRcu(r)' => InRcu(r) /\ cur'[r] = cur[r]
    BY <1>10 DEF TypeOK, InRcu, Unlock, Goto
  <2>2. UNCHANGED <<next, slab, waits>>
    BY <1>10 DEF Unlock
  <2> QED
    BY <2>1, <2>2, ReachKept DEF Safe
<1>11. ASSUME NEW u \in Users, Retire(u)
     PROVE  ReadInv'
  <2>1. PICK o \in Entries :
           /\ slab[o] = "unlinked"
           /\ slab' = [slab EXCEPT ![o] = "retired"]
           /\ waits' = [waits EXCEPT ![o] = Readers]
           /\ UNCHANGED <<next, cur>>
    BY <1>11 DEF MineInv, Retire, Goto, call_rcu
  <2> SUFFICES ASSUME NEW r \in Users, InRcu(r)'
               PROVE  \E R \in SUBSET Entries : Reach(r, R)'
    BY DEF ReadInv
  <2>2. InRcu(r)
    BY <1>11 DEF TypeOK, InRcu, Retire, Goto
  <2>3. PICK R \in SUBSET Entries : Reach(r, R)
    BY <2>2 DEF ReadInv
  <2>4. Reach(r, R)'
    BY <2>1, <2>2, <2>3 DEF TypeOK, Reach, Safe, Readers
  <2> QED
    BY <2>4
<1>12. ASSUME NEW u \in Users, ReadNext(u)
     PROVE  ReadInv'
  <2> SUFFICES ASSUME NEW r \in Users, InRcu(r)'
               PROVE  \E R \in SUBSET Entries : Reach(r, R)'
    BY DEF ReadInv
  <2>1. UNCHANGED <<next, slab, waits, pc>> /\ cur' = [cur EXCEPT ![u] = next[cur[u]]] /\ cur[u] # NULL
    BY <1>12 DEF ReadNext
  <2>2. PICK R \in SUBSET Entries : Reach(r, R)
    BY <2>1 DEF ReadInv, InRcu
  <2>3. cur'[r] \in Entries => cur'[r] \in R
    <3>1. CASE r # u
      BY <2>1, <2>2, <3>1 DEF TypeOK, Reach
    <3>2. CASE r = u /\ cur[u] \in Entries
      BY <2>1, <2>2, <3>2 DEF TypeOK, Reach
    <3>3. CASE r = u /\ cur[u] \in Buckets
      BY <2>1, <2>2, <3>3 DEF TypeOK, Reach, NextInv
    <3> QED
      BY <2>1, <3>1, <3>2, <3>3 DEF TypeOK
  <2>4. Reach(r, R)'
    BY <2>1, <2>2, <2>3 DEF Reach, Safe
  <2> QED
    BY <2>4
<1>13. ASSUME NEW u \in Users, ReadDone(u)
     PROVE  ReadInv'
  <2>1. \A r \in Users : InRcu(r)' => InRcu(r) /\ cur'[r] = cur[r]
    BY <1>13 DEF TypeOK, InRcu, ReadDone, Goto
  <2>2. UNCHANGED <<next, slab, waits>>
    BY <1>13 DEF ReadDone
  <2> QED
    BY <2>1, <2>2, ReachKept DEF Safe
<1>14. ASSUME NEW u \in Users, ReadUnlock(u)
     PROVE  ReadInv'
  <2>1. \A r \in Users : InRcu(r)' => r # u /\ InRcu(r) /\ cur'[r] = cur[r]
    BY <1>14 DEF TypeOK, InRcu, ReadUnlock, Goto
  <2>2. UNCHANGED <<next, slab>> /\ \A e \in Entries : waits'[e] = waits[e] \ {u}
    BY <1>14 DEF ReadUnlock, rcu_read_unlock
  <2>3. \A r \in Users, e \in Entries : InRcu(r)' /\ Safe(r, e) => Safe(r, e)'
    BY <2>1, <2>2 DEF Safe
  <2> QED
    BY <2>1, <2>2, <2>3, ReachKept
<1>15. ASSUME NEW e \in Entries, pe_entry_free_rcu(e)
     PROVE  ReadInv'
  <2>1. \A r \in Users : InRcu(r)' => InRcu(r) /\ cur'[r] = cur[r]
    BY <1>15 DEF InRcu, pe_entry_free_rcu
  <2>2. \A x \in Entries \ {e} : slab'[x] = slab[x] /\ next'[x] = next[x] /\ waits'[x] = waits[x]
    BY <1>15 DEF TypeOK, pe_entry_free_rcu, kmem_cache_free
  <2>3. slab'[e] = "free" /\ \A r \in Users : ~Safe(r, e)
    BY <1>15 DEF TypeOK, Safe, pe_entry_free_rcu, kmem_cache_free
  <2> QED
    BY <2>1, <2>2, <2>3, ReachKept DEF Safe
<1>16. CASE ModuleInit
  <2>1. \A r \in Users : InRcu(r)' => InRcu(r) /\ cur'[r] = cur[r]
    BY <1>16 DEF TypeOK, InRcu, ModuleInit
  <2>2. UNCHANGED <<next, slab, waits>>
    BY <1>16 DEF ModuleInit
  <2> QED
    BY <2>1, <2>2, ReachKept DEF Safe
<1>17. CASE CreateEntry
  <2>1. \A r \in Users : InRcu(r)' => InRcu(r) /\ cur'[r] = cur[r]
    BY <1>17 DEF TypeOK, InRcu, CreateEntry
  <2>2. UNCHANGED <<next, slab, waits>>
    BY <1>17 DEF CreateEntry
  <2> QED
    BY <2>1, <2>2, ReachKept DEF Safe
<1>18. CASE RemoveProcEntry
  <2>1. \A r \in Users : InRcu(r)' => InRcu(r) /\ cur'[r] = cur[r]
    BY <1>18 DEF TypeOK, InRcu, RemoveProcEntry
  <2>2. UNCHANGED <<next, slab, waits>>
    BY <1>18 DEF RemoveProcEntry
  <2> QED
    BY <2>1, <2>2, ReachKept DEF Safe
<1>19. CASE Rundown
  BY <1>19 DEF Rundown, Unflushed
<1>20. CASE FlushAlloc
  BY <1>20 DEF FlushAlloc, Unflushed
<1>21. CASE synchronize_rcu
  BY <1>21 DEF synchronize_rcu, Unflushed
<1>22. CASE rcu_barrier
  BY <1>22 DEF rcu_barrier, Unflushed
<1>23. CASE kmem_cache_destroy
  BY <1>23 DEF kmem_cache_destroy, Unflushed
<1>24. ASSUME NEW b \in Buckets, FlushDetach(b)
     PROVE  ReadInv'
  BY <1>24 DEF FlushDetach, Unflushed
<1>25. ASSUME NEW b \in Buckets, FlushFree(b)
     PROVE  ReadInv'
  BY <1>25 DEF FlushFree, Unflushed
<1>26. CASE UNCHANGED vars
  <2>1. \A r \in Users : InRcu(r)' => InRcu(r) /\ cur'[r] = cur[r]
    BY <1>26 DEF TypeOK, InRcu, vars
  <2>2. UNCHANGED <<next, slab, waits>>
    BY <1>26 DEF vars
  <2> QED
    BY <2>1, <2>2, ReachKept DEF Safe
<1> QED
  BY <1>1, <1>2, <1>3, <1>4, <1>5, <1>6, <1>7, <1>8, <1>9, <1>10, <1>11, <1>12, <1>13, <1>14, <1>15, <1>16, <1>17, <1>18, <1>19, <1>20, <1>21, <1>22, <1>23, <1>24, <1>25, <1>26 DEF Next, Call, Module

LEMMA RankedKept ==
    ASSUME Ranked,
           \A n \in Nodes : OnList(n)' /\ next'[n] # NULL => OnList(n) /\ next'[n] = next[n]
    PROVE  Ranked'
  BY DEF Ranked, Ascending

LEMMA RankedNext == TypeOK /\ CallInv /\ MineInv /\ NextInv /\ PprevInv /\ WalkInv /\ Ranked /\ Unflushed' /\ [Next]_vars => Ranked'
<1> SUFFICES ASSUME TypeOK, CallInv, MineInv, NextInv, PprevInv, WalkInv, Ranked, Unflushed', [Next]_vars
             PROVE  Ranked'
  OBVIOUS
<1> USE HashAssumption DEF listVars, memVars, callVars
<1>1. ASSUME NEW u \in Users, NEW k \in Keys, NEW v \in Values, InsertAlloc(u, k, v)
     PROVE  Ranked'
  <2>1. UNCHANGED next
    BY <1>1 DEF InsertAlloc
  <2>2. slab' = slab \/ \E e \in Entries : slab' = [slab EXCEPT ![e] = "private"]
    BY <1>1 DEF InsertAlloc
  <2> QED
    BY <2>1, <2>2, RankedKept DEF TypeOK, OnList
<1>2. ASSUME NEW u \in Users, NEW k \in Keys, RemoveCall(u, k)
     PROVE  Ranked'
  <2>1. UNCHANGED <<next, slab>>
    BY <1>2 DEF RemoveCall
  <2> QED
    BY <2>1, RankedKept DEF OnList
<1>3. ASSUME NEW u \in Users, NEW k \in Keys, GetCall(u, k)
     PROVE  Ranked'
  <2>1. UNCHANGED <<next, slab>>
    BY <1>3 DEF GetCall
  <2> QED
    BY <2>1, RankedKept DEF OnList
<1>4. ASSUME NEW u \in Users, Lock(u)
     PROVE  Ranked'
  <2>1. UNCHANGED <<next, slab>>
    BY <1>4 DEF Lock
  <2> QED
    BY <2>1, RankedKept DEF OnList
<1>5. ASSUME NEW u \in Users, Walk(u)
     PROVE  Ranked'
  <2>1. UNCHANGED <<next, slab>>
    BY <1>5 DEF Walk
  <2> QED
    BY <2>1, RankedKept DEF OnList
<1>6. ASSUME NEW u \in Users, InsertReplace(u)
     PROVE  Ranked'
  <2>1. PICK o \in Entries, m \in Entries, P \in Nodes :
           /\ o = cur[u] /\ m = mine[u] /\ P = pprev[o]
           /\ slab[o] = "linked" /\ slab[m] = "private"
           /\ m # o /\ P # o /\ P # m /\ OnList(P) /\ next[P] = o
           /\ next[o] # o /\ next[o] # P /\ next[o] # m
           /\ Home(m) = Home(o) /\ Home(P) = Home(o) /\ Home(o) = Bucket(u)
           /\ next[o] # NULL => next[o] \in Entries /\ slab[next[o]] = "linked" /\ pprev[next[o]] = o
           /\ ent[m].key \in Keys
    BY <1>6, ReplacePosition DEF InsertReplace, Goto
  <2>2. /\ next' = [next EXCEPT ![m] = next[o], ![P] = m]
        /\ pprev' = [x \in Entries |-> IF x = m THEN P
                                   ELSE IF x = next[o] THEN m
                                   ELSE IF x = o THEN NULL ELSE pprev[x]]
        /\ slab' = [slab EXCEPT ![m] = "linked", ![o] = "unlinked"]
        /\ pc' = [pc EXCEPT ![u] = "unlock"]
        /\ UNCHANGED <<ent, waits, cur, req, lock>>
    BY <1>6, <2>1 DEF InsertReplace, hlist_replace_rcu, Goto
  <2>3. PICK rank \in [Nodes -> Int] : Ascending(rank)
    BY DEF Ranked
  <2>4. /\ [rank EXCEPT ![m] = rank[o]] \in [Nodes -> Int]
        /\ o \in Nodes /\ m \in Nodes
    BY <2>1, <2>3 DEF Nodes
  <2>5. ASSUME NEW n \in Nodes, OnList(n)', next'[n] # NULL
        PROVE  [rank EXCEPT ![m] = rank[o]][n] < [rank EXCEPT ![m] = rank[o]][next'[n]]
    <3>1. CASE n = P
      BY <2>1, <2>2, <2>3, <2>4, <3>1 DEF TypeOK, Ascending, OnList
    <3>2. CASE n = m
      BY <2>1, <2>2, <2>3, <2>4, <2>5, <3>2 DEF TypeOK, Ascending, OnList
    <3>3. CASE n # P /\ n # m
      <4>1. OnList(n) /\ next'[n] = next[n]
        BY <2>1, <2>2, <2>5, <3>3 DEF TypeOK, OnList, Nodes
      <4>2. next[n] # m
        BY <2>1, <2>5, <4>1 DEF NextInv
      <4> QED
        BY <2>3, <2>4, <2>5, <3>3, <4>1, <4>2 DEF Ascending, TypeOK, Nodes
    <3> QED
      BY <3>1, <3>2, <3>3
  <2> QED
    BY <2>4, <2>5 DEF Ranked, Ascending
<1>7. ASSUME NEW u \in Users, InsertAdd(u)
     PROVE  Ranked'
  <2>1. PICK m \in Entries, b \in Buckets :
           /\ m = mine[u] /\ b = Bucket(u) /\ slab[m] = "private"
           /\ next[b] # NULL => next[b] \in Entries /\ slab[next[b]] = "linked"
    <3>1. Bucket(u) \in Buckets
      BY <1>7 DEF CallInv, InsertAdd, Goto, Bucket
    <3>2. mine[u] \in Entries /\ slab[mine[u]] = "private"
      BY <1>7 DEF MineInv, InsertAdd, Goto
    <3> QED
      BY <3>1, <3>2 DEF NextInv, TypeOK, OnList, Nodes
  <2>2. /\ next' = [next EXCEPT ![m] = next[b], ![b] = m]
        /\ slab' = [slab EXCEPT ![m] = "linked"]
        /\ pc' = [pc EXCEPT ![u] = "unlock"]
        /\ UNCHANGED <<waits, cur>>
    BY <1>7, <2>1 DEF InsertAdd, hlist_add_head_rcu, Goto
  <2>3. PICK rank \in [Nodes -> Int] : Ascending(rank)
    BY DEF Ranked
  <2> DEFINE new == [rank EXCEPT ![m] = rank[b], ![b] = rank[b] - 1]
  <2>4. new \in [Nodes -> Int] /\ m \in Nodes /\ b \in Nodes /\ m # b
    BY <2>1, <2>3, HashAssumption DEF Nodes
  <2>5. ASSUME NEW n \in Nodes, OnList(n)', next'[n] # NULL
        PROVE  new[n] < new[next'[n]]
    <3>1. CASE n = b
      BY <2>1, <2>2, <2>3, <2>4, <3>1 DEF TypeOK
    <3>2. CASE n = m
      <4>1. next'[n] = next[b] /\ next[b] \in Entries /\ next[b] # m /\ next[b] # b
        BY <2>1, <2>2, <2>4, <2>5, <3>2, HashAssumption DEF TypeOK
      <4>2. rank[b] < rank[next[b]]
        BY <2>1, <2>3, <2>4, <2>5, <4>1 DEF Ascending, OnList
      <4> QED
        BY <2>3, <2>4, <3>2, <4>1, <4>2 DEF Nodes
    <3>3. CASE n # b /\ n # m
      <4>1. OnList(n) /\ next'[n] = next[n]
        BY <2>1, <2>2, <2>5, <3>3 DEF TypeOK, OnList, Nodes
      <4>2. next[n] # m /\ next[n] # b /\ next[n] \in Nodes
        BY <2>1, <2>5, <4>1, HashAssumption DEF NextInv, TypeOK, Nodes
      <4> QED
        BY <2>3, <2>4, <2>5, <3>3, <4>1, <4>2 DEF Ascending
    <3> QED
      BY <3>1, <3>2, <3>3
  <2> HIDE DEF new
  <2> QED
    BY <2>4, <2>5 DEF Ranked, Ascending
<1>8. ASSUME NEW u \in Users, RemoveFound(u)
     PROVE  Ranked'
  <2>1. PICK o \in Entries, P \in Nodes :
           /\ o = cur[u] /\ P = pprev[o]
           /\ slab[o] = "linked"
           /\ P # o /\ OnList(P) /\ next[P] = o
           /\ next[o] # o /\ next[o] # P
           /\ Home(P) = Home(o) /\ Home(o) = Bucket(u)
           /\ next[o] # NULL => next[o] \in Entries /\ slab[next[o]] = "linked" /\ pprev[next[o]] = o
    BY <1>8, Position DEF RemoveFound, Goto
  <2>2. /\ next' = [next EXCEPT ![P] = next[o]]
        /\ pprev' = [x \in Entries |-> IF x = o THEN NULL
                                   ELSE IF x = next[o] THEN P ELSE pprev[x]]
        /\ slab' = [slab EXCEPT ![o] = "unlinked"]
        /\ pc' = [pc EXCEPT ![u] = "unlock"]
        /\ UNCHANGED <<ent, waits, cur, req, lock>>
    BY <1>8, <2>1 DEF RemoveFound, hlist_del_rcu, Goto
  <2>3. PICK rank \in [Nodes -> Int] : Ascending(rank)
    BY DEF Ranked
  <2>4. ASSUME NEW n \in Nodes, OnList(n)', next'[n] # NULL
        PROVE  rank[n] < rank[next'[n]]
    <3>1. o \in Nodes /\ (next[o] # NULL => next[o] \in Nodes)
      BY <2>1 DEF Nodes
    <3>2. CASE n = P
      <4>1. next'[n] = next[o] /\ rank[P] < rank[o] /\ rank[o] < rank[next[o]]
        BY <2>1, <2>2, <2>3, <2>4, <3>1, <3>2, HashAssumption DEF TypeOK, Ascending, OnList
      <4> QED
        BY <2>3, <2>4, <3>1, <3>2, <4>1
    <3>3. CASE n # P
      BY <2>1, <2>2, <2>3, <2>4, <3>3 DEF TypeOK, Ascending, OnList, Nodes
    <3> QED
      BY <3>2, <3>3
  <2> QED
    BY <2>3, <2>4 DEF Ranked, Ascending
<1>9. ASSUME NEW u \in Users, RemoveMissing(u)
     PROVE  Ranked'
  <2>1. UNCHANGED <<next, slab>>
    BY <1>9 DEF RemoveMissing
  <2> QED
    BY <2>1, RankedKept DEF OnList
<1>10. ASSUME NEW u \in Users, Unlock(u)
     PROVE  Ranked'
  <2>1. UNCHANGED <<next, slab>>
    BY <1>10 DEF Unlock
  <2> QED
    BY <2>1, RankedKept DEF OnList
<1>11. ASSUME NEW u \in Users, Retire(u)
     PROVE  Ranked'
  <2>1. UNCHANGED next
    BY <1>11 DEF Retire
  <2>2. slab' = [slab EXCEPT ![mine[u]] = "retired"]
    BY <1>11 DEF Retire, call_rcu
  <2> QED
    BY <2>1, <2>2, RankedKept DEF TypeOK, OnList
<1>12. ASSUME NEW u \in Users, ReadNext(u)
     PROVE  Ranked'
  <2>1. UNCHANGED <<next, slab>>
    BY <1>12 DEF ReadNext
  <2> QED
    BY <2>1, RankedKept DEF OnList
<1>13. ASSUME NEW u \in Users, ReadDone(u)
     PROVE  Ranked'
  <2>1. UNCHANGED <<next, slab>>
    BY <1>13 DEF ReadDone
  <2> QED
    BY <2>1, RankedKept DEF OnList
<1>14. ASSUME NEW u \in Users, ReadUnlock(u)
     PROVE  Ranked'
  <2>1. UNCHANGED <<next, slab>>
    BY <1>14 DEF ReadUnlock
  <2> QED
    BY <2>1, RankedKept DEF OnList
<1>15. ASSUME NEW e \in Entries, pe_entry_free_rcu(e)
     PROVE  Ranked'
  <2>1. /\ slab' = [slab EXCEPT ![e] = "free"]
        /\ next' = [next EXCEPT ![e] = NULL]
    BY <1>15 DEF pe_entry_free_rcu, kmem_cache_free
  <2> QED
    BY <2>1, RankedKept DEF TypeOK, OnList, Nodes
<1>16. CASE ModuleInit
  <2>1. UNCHANGED <<next, slab>>
    BY <1>16 DEF ModuleInit
  <2> QED
    BY <2>1, RankedKept DEF OnList
<1>17. CASE CreateEntry
  <2>1. UNCHANGED <<next, slab>>
    BY <1>17 DEF CreateEntry
  <2> QED
    BY <2>1, RankedKept DEF OnList
<1>18. CASE RemoveProcEntry
  <2>1. UNCHANGED <<next, slab>>
    BY <1>18 DEF RemoveProcEntry
  <2> QED
    BY <2>1, RankedKept DEF OnList
<1>19. CASE Rundown
  BY <1>19 DEF Rundown, Unflushed
<1>20. CASE FlushAlloc
  BY <1>20 DEF FlushAlloc, Unflushed
<1>21. CASE synchronize_rcu
  BY <1>21 DEF synchronize_rcu, Unflushed
<1>22. CASE rcu_barrier
  BY <1>22 DEF rcu_barrier, Unflushed
<1>23. CASE kmem_cache_destroy
  BY <1>23 DEF kmem_cache_destroy, Unflushed
<1>24. ASSUME NEW b \in Buckets, FlushDetach(b)
     PROVE  Ranked'
  BY <1>24 DEF FlushDetach, Unflushed
<1>25. ASSUME NEW b \in Buckets, FlushFree(b)
     PROVE  Ranked'
  BY <1>25 DEF FlushFree, Unflushed
<1>26. CASE UNCHANGED vars
  <2>1. UNCHANGED <<next, slab>>
    BY <1>26 DEF vars
  <2> QED
    BY <2>1, RankedKept DEF OnList
<1> QED
  BY <1>1, <1>2, <1>3, <1>4, <1>5, <1>6, <1>7, <1>8, <1>9, <1>10, <1>11, <1>12, <1>13, <1>14, <1>15, <1>16, <1>17, <1>18, <1>19, <1>20, <1>21, <1>22, <1>23, <1>24, <1>25, <1>26 DEF Next, Call, Module

------------------------------------------------------------------------------
Inv == IInv /\ (Unflushed => Ranked)

LEMMA InvInit == Init => Inv
<1> SUFFICES ASSUME Init
             PROVE  Inv
  OBVIOUS
<1> USE HashAssumption DEF Init
<1>1. TypeOK
  BY TypeInit
<1>2. CallInv /\ MineInv /\ WalkInv
  BY DEF CallInv, MineInv, WalkInv
<1>3. NextInv /\ PprevInv
  BY DEF NextInv, PprevInv, Nodes
<1>4. ReadInv
  BY DEF ReadInv, InRcu
<1>5. Ranked
  <2>1. [n \in Nodes |-> 0] \in [Nodes -> Int]
    OBVIOUS
  <2>2. Ascending([n \in Nodes |-> 0])
    BY DEF Ascending
  <2> QED
    BY <2>1, <2>2 DEF Ranked
<1> QED
  BY <1>1, <1>2, <1>3, <1>4, <1>5 DEF Inv, IInv

\* A map that is flushed stays so.
LEMMA UnflushedNext == [Next]_vars /\ Unflushed' => Unflushed
  BY DEF Next, Call, Module, vars, Unflushed, callVars, InsertAlloc, RemoveCall, GetCall, Enter, Lock,
     Walk, InsertReplace, InsertAdd, RemoveFound, RemoveMissing, Unlock, Retire, ReadNext,
     ReadDone, ReadUnlock, pe_entry_free_rcu, ModuleInit, CreateEntry, RemoveProcEntry,
     Rundown, FlushAlloc, FlushDetach, synchronize_rcu, rcu_barrier, FlushFree,
     kmem_cache_destroy

\* Every step of the module keeps the invariant.
THEOREM Inductive == Inv /\ [Next]_vars => Inv'
<1> SUFFICES ASSUME Inv, [Next]_vars
             PROVE  Inv'
  OBVIOUS
<1>1. TypeOK' /\ CallInv'
  BY TypeNext, CallNext DEF Inv, IInv
<1>2. ASSUME Unflushed'
      PROVE  (MineInv /\ NextInv /\ PprevInv /\ WalkInv /\ ReadInv /\ Ranked)'
  <2>1. TypeOK /\ CallInv /\ MineInv /\ NextInv /\ PprevInv /\ WalkInv /\ ReadInv /\ Ranked
    BY <1>2, UnflushedNext DEF Inv, IInv
  <2> QED
    BY <1>2, <2>1, MineNext, NextInvNext, PprevInvNext, WalkNext, ReadInvNext, RankedNext
<1> QED
  BY <1>1, <1>2 DEF Inv, IInv

\* Every variable of the map keeps its type.
THEOREM TypeCorrect == Spec => []TypeOK
<1>1. Inv => TypeOK
  BY DEF Inv, IInv
<1> QED
  BY <1>1, InvInit, Inductive, PTL DEF Spec

LEMMA InvSafe == Inv => NoUseAfterFree
<1> SUFFICES ASSUME Inv, NEW u \in Users, cur[u] \in Entries
             PROVE  /\ InRcu(u) => Safe(u, cur[u])
                    /\ pc[u] = "walk" => slab[cur[u]] = "linked"
  BY DEF NoUseAfterFree
<1>1. CASE pc[u] = "idle"
  BY <1>1 DEF InRcu
<1>2. CASE pc[u] # "idle"
  <2>1. Unflushed
    BY <1>2 DEF Inv, IInv, CallInv, Unflushed
  <2>2. WalkInv /\ ReadInv
    BY <2>1 DEF Inv, IInv
  <2>3. pc[u] = "walk" => slab[cur[u]] = "linked"
    BY <2>2, HashAssumption DEF WalkInv
  <2>4. InRcu(u) => Safe(u, cur[u])
    BY <2>2 DEF ReadInv, Reach
  <2> QED
    BY <2>3, <2>4
<1> QED
  BY <1>1, <1>2

\* For any number of threads, keys, buckets and addresses: no pe_map_get
\* looks at an entry that was freed or is being filled, and no writer walks
\* over one that left the list.
THEOREM Reclamation == Spec => []NoUseAfterFree
  BY InvInit, Inductive, InvSafe, PTL DEF Spec

------------------------------------------------------------------------------
(* The lists of the buckets, as sequences.                                 *)

\* Bucket b's list is s[0], ..., s[n - 1], with one entry for a key.
Lists(b, s, n) ==
    /\ \A i \in Nat : i >= n => s[i] = NULL
    /\ \A i \in 0 .. n - 1 :
          /\ s[i] \in Linked(b)
          /\ next[s[i]] = s[i + 1]
          /\ pprev[s[i]] = IF i = 0 THEN b ELSE s[i - 1]
    /\ \A e \in Linked(b) : \E i \in 0 .. n - 1 : s[i] = e
    /\ \A i, j \in 0 .. n - 1 : ent[s[i]].key = ent[s[j]].key => i = j

Orders == [Nat -> Entries \cup {NULL}]

\* A step that changes nothing of the entries of a list.
LEMMA ListKept ==
    ASSUME NEW b, NEW s \in Orders, NEW n \in Nat, Lists(b, s, n),
           Linked(b)' = Linked(b),
           \A e \in Linked(b) :
              ent'[e].key = ent[e].key /\ next'[e] = next[e] /\ pprev'[e] = pprev[e]
    PROVE  Lists(b, s, n)'
  BY DEF Lists

\* A step that puts m in front of list s, which becomes t.
Adds(b, s, n, m, t) ==
    /\ m \in Entries /\ slab[m] # "linked" /\ Hash[ent[m].key] = b
    /\ next[b] = s[0]
    /\ \A i \in 0 .. n - 1 : ent[s[i]].key # ent[m].key
    /\ next' = [next EXCEPT ![m] = next[b], ![b] = m]
    /\ \A x \in Entries : pprev'[x] = IF x = m THEN b
                                      ELSE IF x = next[b] THEN m ELSE pprev[x]
    /\ slab' = [slab EXCEPT ![m] = "linked"] /\ UNCHANGED ent
    /\ t \in Orders /\ \A i \in Nat : t[i] = IF i = 0 THEN m ELSE s[i - 1]

LEMMA ListAdd ==
    ASSUME TypeOK, NEW b \in Buckets, NEW s \in Orders, NEW n \in Nat, Lists(b, s, n),
           NEW m, NEW t, Adds(b, s, n, m, t)
    PROVE  t[0] = next'[b] /\ Lists(b, t, n + 1)'
<1> USE HashAssumption DEF Adds
<1>1. t[0] = m /\ \A i \in Nat : t[i + 1] = s[i]
  OBVIOUS
<1>2. next'[b] = m /\ next'[m] = s[0]
  BY DEF TypeOK, Nodes
<1>3. Linked(b)' = Linked(b) \cup {m} /\ m \notin Linked(b)
  BY DEF TypeOK, Linked
<1>4. \A e \in Linked(b) : next'[e] = next[e] /\ pprev'[e] = IF e = s[0] THEN m ELSE pprev[e]
  BY DEF TypeOK, Linked, Nodes
<1>5. \A i \in Nat : i >= n + 1 => t[i] = NULL
  BY DEF Lists
<1>6. ASSUME NEW i \in 0 .. n
      PROVE  /\ t[i] \in Linked(b)'
             /\ next'[t[i]] = t[i + 1]
             /\ pprev'[t[i]] = IF i = 0 THEN b ELSE t[i - 1]
  <2>1. CASE i = 0
    BY <1>1, <1>2, <1>3, <2>1
  <2>2. CASE i # 0
    <3>1. PICK j \in 0 .. n - 1 : i = j + 1
      <4>1. i - 1 \in 0 .. n - 1 /\ i = (i - 1) + 1
        BY <2>2
      <4> QED
        BY <4>1
    <3>2. t[i] = s[j] /\ t[i + 1] = s[j + 1]
      BY <1>1, <3>1
    <3>3. s[j] \in Linked(b) /\ next[s[j]] = s[j + 1] /\ pprev[s[j]] = IF j = 0 THEN b ELSE s[j - 1]
      BY DEF Lists
    <3>4. s[j] = s[0] <=> j = 0
      BY DEF Lists
    <3>5. pprev'[s[j]] = IF j = 0 THEN m ELSE s[j - 1]
      BY <1>4, <3>3, <3>4
    <3>6. t[i - 1] = IF j = 0 THEN m ELSE s[j - 1]
      BY <3>1
    <3> QED
      BY <1>3, <1>4, <2>2, <3>2, <3>3, <3>5, <3>6
  <2> QED
    BY <2>1, <2>2
<1>7. ASSUME NEW e \in Linked(b)'
      PROVE  \E i \in 0 .. n : t[i] = e
  <2>1. CASE e = m
    BY <1>1, <2>1
  <2>2. CASE e \in Linked(b)
    <3>1. PICK j \in 0 .. n - 1 : s[j] = e
      BY <2>2 DEF Lists
    <3>2. j + 1 \in 0 .. n /\ t[j + 1] = e
      BY <1>1, <3>1
    <3> QED
      BY <3>2
  <2> QED
    BY <1>3, <2>1, <2>2
<1>8. ASSUME NEW i \in 0 .. n, NEW j \in 0 .. n, ent'[t[i]].key = ent'[t[j]].key
      PROVE  i = j
  <2>1. CASE i = 0 \/ j = 0
    BY <1>8, <2>1
  <2>2. CASE i # 0 /\ j # 0
    <3>1. i - 1 \in 0 .. n - 1 /\ j - 1 \in 0 .. n - 1 /\ t[i] = s[i - 1] /\ t[j] = s[j - 1]
      BY <2>2
    <3> QED
      BY <1>8, <3>1 DEF Lists
  <2> QED
    BY <2>1, <2>2
<1>9. Lists(b, t, n + 1)'
  <2>1. 0 .. (n + 1) - 1 = 0 .. n
    OBVIOUS
  <2> QED
    <3>1. \A i \in 0 .. (n + 1) - 1 :
             /\ t[i] \in Linked(b)'
             /\ next'[t[i]] = t[i + 1]
             /\ pprev'[t[i]] = IF i = 0 THEN b ELSE t[i - 1]
      BY <1>6, <2>1
    <3>2. \A e \in Linked(b)' : \E i \in 0 .. (n + 1) - 1 : t[i] = e
      BY <1>7, <2>1
    <3>3. \A i, j \in 0 .. (n + 1) - 1 : ent'[t[i]].key = ent'[t[j]].key => i = j
      BY <1>8, <2>1
    <3> QED
      BY <1>5, <3>1, <3>2, <3>3, Zenon DEF Lists
<1> QED
  BY <1>1, <1>2, <1>9

\* A step that puts m in the place of the entry at j, which has the same key.
Replaces(b, s, n, j, m, t) ==
    /\ j \in 0 .. n - 1
    /\ next[b] = s[0]
    /\ m \in Entries /\ slab[m] # "linked" /\ ent[m].key = ent[s[j]].key
    /\ next' = [next EXCEPT ![m] = next[s[j]], ![pprev[s[j]]] = m]
    /\ \A x \in Entries : pprev'[x] = IF x = m THEN pprev[s[j]]
                                      ELSE IF x = next[s[j]] THEN m
                                      ELSE IF x = s[j] THEN NULL ELSE pprev[x]
    /\ slab' = [slab EXCEPT ![m] = "linked", ![s[j]] = "unlinked"] /\ UNCHANGED ent
    /\ t \in Orders /\ \A i \in Nat : t[i] = IF i = j THEN m ELSE s[i]

LEMMA ListReplace ==
    ASSUME TypeOK, NEW b \in Buckets, NEW s \in Orders, NEW n \in Nat, Lists(b, s, n),
           NEW j, NEW m, NEW t, Replaces(b, s, n, j, m, t)
    PROVE  t[0] = next'[b] /\ Lists(b, t, n)'
<1> USE HashAssumption DEF Replaces
<1>0. PICK o : o = s[j]
  OBVIOUS
<1> USE <1>0
<1>1. \A i \in Nat : t[i] = IF i = j THEN m ELSE s[i]
  OBVIOUS
<1>2. o \in Linked(b) /\ o \in Entries /\ next[o] = s[j + 1] /\ pprev[o] = IF j = 0 THEN b ELSE s[j - 1]
  BY DEF Lists, Linked
<1>3. \A i \in 0 .. n - 1 : (s[i] = o <=> i = j) /\ (s[i] = s[j + 1] <=> i = j + 1) /\ s[i] # m /\ s[i] \in Entries
  <2>1. \A i \in 0 .. n - 1 : s[i] \in Linked(b) /\ s[i] \in Entries /\ s[i] # m
    BY DEF Lists, Linked
  <2>2. \A i \in 0 .. n - 1 : s[i] = o <=> i = j
    BY DEF Lists
  <2>3. \A i \in 0 .. n - 1 : s[i] = s[j + 1] <=> i = j + 1
    <3>1. CASE j + 1 \in 0 .. n - 1
      BY <3>1 DEF Lists
    <3>2. CASE j + 1 = n
      BY <2>1, <3>2 DEF Lists
    <3> QED
      BY <3>1, <3>2
  <2> QED
    BY <2>1, <2>2, <2>3
<1>4. Linked(b)' = (Linked(b) \ {o}) \cup {m} /\ m # o
  BY <1>2 DEF TypeOK, Linked
<1>5. next'[m] = s[j + 1] /\ pprev'[m] = pprev[o]
  BY <1>2, <1>3 DEF TypeOK, Nodes
<1>6. next'[b] = t[0]
  <2>1. CASE j = 0
    BY <1>1, <1>2, <2>1 DEF TypeOK, Nodes
  <2>2. CASE j # 0
    <3>1. pprev[o] # b
      BY <1>2, <1>3, <2>2
    <3> QED
      BY <1>1, <1>2, <2>2, <3>1 DEF TypeOK, Nodes
  <2> QED
    BY <2>1, <2>2
<1>7. \A i \in Nat : i >= n => t[i] = NULL
  BY <1>1 DEF Lists
<1>8. ASSUME NEW i \in 0 .. n - 1
      PROVE  /\ t[i] \in Linked(b)'
             /\ next'[t[i]] = t[i + 1]
             /\ pprev'[t[i]] = IF i = 0 THEN b ELSE t[i - 1]
  <2>1. CASE i = j
    BY <1>1, <1>2, <1>4, <1>5, <2>1
  <2>2. CASE i # j
    <3>1. t[i] = s[i] /\ s[i] \in Linked(b) /\ s[i] # o /\ s[i] # m /\ s[i] \in Entries
      BY <1>1, <1>3, <2>2 DEF Lists
    <3>2. t[i] \in Linked(b)'
      BY <1>4, <3>1
    <3>3. next'[s[i]] = IF i = j - 1 THEN m ELSE s[i + 1]
      <4>1. next[s[i]] = s[i + 1]
        BY DEF Lists
      <4>2. s[i] = pprev[o] <=> i = j - 1
        <5>1. CASE j = 0
          BY <1>2, <3>1, <5>1
        <5>2. CASE j # 0
          <6>1. j - 1 \in 0 .. n - 1 /\ pprev[o] = s[j - 1]
            BY <1>2, <5>2
          <6> QED
            BY <6>1 DEF Lists
        <5> QED
          BY <5>1, <5>2
      <4> QED
        BY <3>1, <4>1, <4>2 DEF TypeOK, Nodes
    <3>4. next'[t[i]] = t[i + 1]
      BY <1>1, <3>1, <3>3
    <3>5. pprev[s[i]] = IF i = 0 THEN b ELSE s[i - 1]
      BY DEF Lists
    <3>6. pprev'[s[i]] = IF i = j + 1 THEN m ELSE pprev[s[i]]
      BY <1>2, <1>3, <3>1
    <3>7. pprev'[t[i]] = IF i = 0 THEN b ELSE t[i - 1]
      BY <1>1, <3>1, <3>5, <3>6
    <3> QED
      BY <3>2, <3>4, <3>7
  <2> QED
    BY <2>1, <2>2
<1>9. ASSUME NEW e \in Linked(b)'
      PROVE  \E i \in 0 .. n - 1 : t[i] = e
  <2>1. CASE e = m
    BY <1>1, <2>1
  <2>2. CASE e \in Linked(b) /\ e # o
    <3>1. PICK i \in 0 .. n - 1 : s[i] = e
      BY <2>2 DEF Lists
    <3> QED
      BY <1>1, <2>2, <3>1
  <2> QED
    BY <1>4, <2>1, <2>2
<1>10. ASSUME NEW i \in 0 .. n - 1, NEW k \in 0 .. n - 1, ent'[t[i]].key = ent'[t[k]].key
       PROVE  i = k
  BY <1>1, <1>10 DEF Lists
<1> QED
  BY <1>1, <1>6, <1>7, <1>8, <1>9, <1>10 DEF Lists

\* A step that takes out the entry at j.
Removes(b, s, n, j, t) ==
    /\ j \in 0 .. n - 1
    /\ next' = [next EXCEPT ![pprev[s[j]]] = next[s[j]]]
    /\ \A x \in Entries : pprev'[x] = IF x = s[j] THEN NULL
                                      ELSE IF x = next[s[j]] THEN pprev[s[j]] ELSE pprev[x]
    /\ slab' = [slab EXCEPT ![s[j]] = "unlinked"] \/ slab' = [slab EXCEPT ![s[j]] = "free"]
    /\ \A x \in Entries \ {s[j]} : ent'[x] = ent[x]
    /\ t \in Orders /\ \A i \in Nat : t[i] = IF i < j THEN s[i] ELSE s[i + 1]

LEMMA ListRemove ==
    ASSUME TypeOK, NEW b \in Buckets, NEW s \in Orders, NEW n \in Nat, Lists(b, s, n),
           NEW j, NEW t, Removes(b, s, n, j, t)
    PROVE  (next[b] = s[0] => next'[b] = t[0]) /\ Lists(b, t, n - 1)'
<1> USE HashAssumption DEF Removes
<1>0. PICK o : o = s[j]
  OBVIOUS
<1> USE <1>0
<1>1. \A i \in Nat : t[i] = IF i < j THEN s[i] ELSE s[i + 1]
  OBVIOUS
<1>2. o \in Linked(b) /\ o \in Entries /\ next[o] = s[j + 1] /\ pprev[o] = IF j = 0 THEN b ELSE s[j - 1]
  BY DEF Lists, Linked
<1>3. \A i \in 0 .. n - 1 : (s[i] = o <=> i = j) /\ (s[i] = s[j + 1] <=> i = j + 1) /\ s[i] \in Entries
  <2>1. \A i \in 0 .. n - 1 : s[i] \in Linked(b) /\ s[i] \in Entries
    BY DEF Lists, Linked
  <2>2. \A i \in 0 .. n - 1 : s[i] = o <=> i = j
    BY DEF Lists
  <2>3. \A i \in 0 .. n - 1 : s[i] = s[j + 1] <=> i = j + 1
    <3>1. CASE j + 1 \in 0 .. n - 1
      BY <3>1 DEF Lists
    <3>2. CASE j + 1 = n
      BY <2>1, <3>2 DEF Lists
    <3> QED
      BY <3>1, <3>2
  <2> QED
    BY <2>1, <2>2, <2>3
<1>4. Linked(b)' = Linked(b) \ {o}
  BY <1>2 DEF TypeOK, Linked
<1>6. next[b] = s[0] => next'[b] = t[0]
  <2>1. CASE j = 0
    BY <1>1, <1>2, <2>1 DEF TypeOK, Nodes
  <2>2. CASE j # 0
    <3>1. pprev[o] # b
      BY <1>2, <1>3, <2>2
    <3> QED
      BY <1>1, <1>2, <2>2, <3>1 DEF TypeOK, Nodes
  <2> QED
    BY <2>1, <2>2
<1>7. \A i \in Nat : i >= n - 1 => t[i] = NULL
  BY <1>1 DEF Lists
<1>8. ASSUME NEW i \in 0 .. n - 2
      PROVE  /\ t[i] \in Linked(b)'
             /\ next'[t[i]] = t[i + 1]
             /\ pprev'[t[i]] = IF i = 0 THEN b ELSE t[i - 1]
  <2> DEFINE k == IF i < j THEN i ELSE i + 1
  <2>1. k \in 0 .. n - 1 /\ k # j /\ t[i] = s[k]
    BY <1>1
  <2>2. s[k] \in Linked(b) /\ next[s[k]] = s[k + 1] /\ pprev[s[k]] = (IF k = 0 THEN b ELSE s[k - 1])
    BY <2>1 DEF Lists
  <2>3. s[k] # o /\ s[k] \in Entries
    BY <1>3, <2>1
  <2>4. next'[s[k]] = IF k = j - 1 THEN s[j + 1] ELSE s[k + 1]
    <3>1. s[k] = pprev[o] <=> k = j - 1
      <4>1. CASE j = 0
        BY <1>2, <2>1, <2>3, <4>1
      <4>2. CASE j # 0
        <5>1. j - 1 \in 0 .. n - 1 /\ pprev[o] = s[j - 1]
          BY <1>2, <4>2
        <5> QED
          BY <2>1, <5>1 DEF Lists
      <4> QED
        BY <4>1, <4>2
    <3> QED
      BY <1>2, <2>2, <2>3, <3>1 DEF TypeOK, Nodes
  <2>5. next'[t[i]] = t[i + 1]
    BY <1>1, <2>1, <2>4
  <2>6. pprev'[s[k]] = IF k = j + 1 THEN pprev[o] ELSE pprev[s[k]]
    BY <1>2, <1>3, <2>1, <2>3
  <2>7. pprev'[t[i]] = IF i = 0 THEN b ELSE t[i - 1]
    BY <1>1, <1>2, <2>1, <2>2, <2>6
  <2> QED
    BY <1>4, <2>1, <2>2, <2>3, <2>5, <2>7
<1>9. ASSUME NEW e \in Linked(b)'
      PROVE  \E i \in 0 .. n - 2 : t[i] = e
  <2>1. PICK i \in 0 .. n - 1 : s[i] = e
    BY <1>4 DEF Lists
  <2>2. i # j
    BY <1>4, <2>1
  <2>3. CASE i < j
    BY <1>1, <2>1, <2>3
  <2>4. CASE i > j
    <3>1. i - 1 \in 0 .. n - 2 /\ t[i - 1] = s[i]
      BY <1>1, <2>1, <2>4
    <3> QED
      BY <2>1, <3>1
  <2> QED
    BY <2>2, <2>3, <2>4
<1>10. ASSUME NEW i \in 0 .. n - 2, NEW k \in 0 .. n - 2, ent'[t[i]].key = ent'[t[k]].key
       PROVE  i = k
  <2> DEFINE x == IF i < j THEN i ELSE i + 1
             y == IF k < j THEN k ELSE k + 1
  <2>1. x \in 0 .. n - 1 /\ y \in 0 .. n - 1 /\ x # j /\ y # j /\ t[i] = s[x] /\ t[k] = s[y]
    BY <1>1
  <2>2. ent'[s[x]] = ent[s[x]] /\ ent'[s[y]] = ent[s[y]]
    BY <1>3, <2>1
  <2>3. x = y
    BY <1>10, <2>1, <2>2 DEF Lists
  <2> QED
    BY <2>3
<1>11. Lists(b, t, n - 1)'
  <2>1. 0 .. (n - 1) - 1 = 0 .. n - 2
    OBVIOUS
  <2> QED
    BY <1>7, <1>8, <1>9, <1>10, <2>1 DEF Lists
<1> QED
  BY <1>1, <1>6, <1>11


------------------------------------------------------------------------------
\* Where the head of a list is: in its bucket, or, once pe_map_flush has
\* taken it, in heads.
Held(b, s, n) ==
    /\ Unflushed => next[b] = s[0] /\ heads[b] = NULL /\ num[b] = n
    /\ mod = "destroy" => next[b] = s[0] /\ heads[b] = NULL
    /\ mod = "detach" => \/ next[b] = s[0] /\ heads[b] = NULL
                         \/ next[b] = NULL /\ heads[b] = s[0]
    /\ mod \in {"barrier", "free", "gone"} => heads[b] = s[0]
    /\ mod = "gone" => heads[b] = NULL

\* A writer that walks the list has not met its key.
Searched(b, s, n) ==
    \A u \in Users :
        pc[u] = "walk" /\ Bucket(u) = b =>
            \E j \in 0 .. n : /\ cur[u] = s[j]
                              /\ \A i \in 0 .. j - 1 : ent[s[i]].key # req[u].key

Listed(b) == \E s \in Orders, n \in Nat : Lists(b, s, n) /\ Held(b, s, n) /\ Searched(b, s, n)

ListInv == mod # "oops" => \A b \in Buckets : Listed(b)

\* An entry that is neither on a list nor free nor retired is in a caller's
\* hands, and none is retired when the callbacks have run.
OwnInv ==
    /\ \A e \in Entries : slab[e] = "linked" => ent[e].key \in Keys
    /\ \A e \in Entries : slab[e] \in {"private", "unlinked"} =>
          \E u \in Users : mine[u] = e /\ pc[u] \in {"lock", "walk", "unlock", "retire"}
    /\ mod \in {"free", "gone"} => \A e \in Entries : slab[e] # "retired"

LEMMA ListedKept ==
    ASSUME NEW b, Listed(b), Linked(b)' = Linked(b),
           \A e \in Linked(b) : ent'[e] = ent[e] /\ next'[e] = next[e] /\ pprev'[e] = pprev[e],
           next'[b] = next[b], heads'[b] = heads[b], num'[b] = num[b], mod' = mod,
           \A u \in Users : pc'[u] = "walk" /\ Bucket(u)' = b =>
              pc[u] = "walk" /\ Bucket(u) = b /\ cur'[u] = cur[u] /\ req'[u] = req[u]
    PROVE  Listed(b)'
<1>1. PICK s \in Orders, n \in Nat : Lists(b, s, n) /\ Held(b, s, n) /\ Searched(b, s, n)
  BY DEF Listed
<1>2. Lists(b, s, n)'
  BY <1>1, ListKept
<1>3. Held(b, s, n)'
  BY <1>1 DEF Held, Unflushed
<1>4. Searched(b, s, n)'
  <2> SUFFICES ASSUME NEW u \in Users, pc'[u] = "walk", Bucket(u)' = b
               PROVE  \E j \in 0 .. n : /\ cur'[u] = s[j]
                                        /\ \A i \in 0 .. j - 1 : ent'[s[i]].key # req'[u].key
    BY DEF Searched
  <2>1. PICK j \in 0 .. n : cur[u] = s[j] /\ \A i \in 0 .. j - 1 : ent[s[i]].key # req[u].key
    BY <1>1 DEF Searched
  <2>2. \A i \in 0 .. j - 1 : ent'[s[i]] = ent[s[i]]
    BY <1>1 DEF Lists
  <2> QED
    BY <2>1, <2>2
<1> QED
  BY <1>2, <1>3, <1>4 DEF Listed

LEMMA InitLists == Init => ListInv /\ OwnInv
<1> SUFFICES ASSUME Init
             PROVE  ListInv /\ OwnInv
  OBVIOUS
<1> USE HashAssumption
<1>1. OwnInv
  BY DEF Init, OwnInv
<1>2. ASSUME NEW b \in Buckets
      PROVE  Listed(b)
  <2> DEFINE s == [i \in Nat |-> NULL]
  <2>1. s \in Orders /\ \A i \in Nat : s[i] = NULL
    BY DEF Orders
  <2>2. Linked(b) = {}
    BY DEF Init, Linked
  <2> HIDE DEF s
  <2>3. Lists(b, s, 0)
    BY <2>1, <2>2 DEF Lists
  <2>4. Held(b, s, 0)
    BY <2>1 DEF Init, Held, Unflushed, Nodes
  <2>5. Searched(b, s, 0)
    BY DEF Init, Searched
  <2> QED
    BY <2>1, <2>3, <2>4, <2>5 DEF Listed
<1> QED
  BY <1>1, <1>2 DEF ListInv

LEMMA OwnInvNext == Inv /\ ListInv /\ OwnInv /\ [Next]_vars => OwnInv'
<1> SUFFICES ASSUME Inv, ListInv, OwnInv, [Next]_vars
             PROVE  OwnInv'
  OBVIOUS
<1> USE HashAssumption DEF listVars, memVars, callVars
<1>a. TypeOK /\ CallInv /\ (Unflushed => MineInv /\ WalkInv)
  BY DEF Inv, IInv
<1>b. \A u \in Users : pc[u] # "idle" => Unflushed
  BY <1>a DEF CallInv, Unflushed
<1>1. ASSUME NEW u \in Users, NEW k \in Keys, NEW v \in Values, InsertAlloc(u, k, v)
      PROVE  OwnInv'
  <2>1. CASE slab' = slab
    BY <1>a, <1>1, <2>1 DEF TypeOK, OwnInv, InsertAlloc, Enter, Goto
  <2>2. CASE slab' # slab
    <3>1. PICK e \in Entries :
             /\ pc[u] = "idle" /\ pc' = [pc EXCEPT ![u] = "lock"]
             /\ slab[e] = "free"
             /\ slab' = [slab EXCEPT ![e] = "private"]
             /\ ent' = [ent EXCEPT ![e] = [key |-> k, value |-> v]]
             /\ mine' = [mine EXCEPT ![u] = e]
      BY <1>1, <2>2 DEF InsertAlloc, Goto
    <3>2. mod' = mod
      BY <1>1 DEF InsertAlloc
    <3>3. /\ pc'[u] = "lock" /\ \A w \in Users : w # u => pc'[w] = pc[w] /\ mine'[w] = mine[w]
          /\ slab'[e] = "private" /\ mine'[u] = e
          /\ \A x \in Entries : x # e => slab'[x] = slab[x] /\ ent'[x] = ent[x]
      BY <1>a, <3>1 DEF TypeOK
    <3>4. \A x \in Entries : slab'[x] = "linked" => ent'[x].key \in Keys
      BY <3>3 DEF OwnInv
    <3>5. \A x \in Entries : slab'[x] \in {"private", "unlinked"} =>
             \E w \in Users : mine'[w] = x /\ pc'[w] \in {"lock", "walk", "unlock", "retire"}
      <4> SUFFICES ASSUME NEW x \in Entries, x # e, slab'[x] \in {"private", "unlinked"}
                   PROVE  \E w \in Users : mine'[w] = x /\ pc'[w] \in {"lock", "walk", "unlock", "retire"}
        BY <3>3
      <4>1. PICK w \in Users : mine[w] = x /\ pc[w] \in {"lock", "walk", "unlock", "retire"}
        BY <3>3 DEF OwnInv
      <4> QED
        BY <3>1, <3>3, <4>1
    <3> QED
      BY <3>2, <3>3, <3>4, <3>5 DEF OwnInv
  <2> QED
    BY <2>1, <2>2
<1>2. ASSUME NEW u \in Users, NEW k \in Keys, RemoveCall(u, k) \/ GetCall(u, k)
      PROVE  OwnInv'
  BY <1>a, <1>2 DEF TypeOK, OwnInv, RemoveCall, GetCall, Enter, Goto
<1>3. ASSUME NEW u \in Users, Lock(u) \/ Walk(u) \/ ReadNext(u) \/ ReadDone(u) \/ RemoveMissing(u)
      PROVE  OwnInv'
  <2>1. UNCHANGED <<slab, ent, mine, mod>>
    BY <1>3 DEF Lock, Walk, ReadNext, ReadDone, RemoveMissing
  <2>2. \/ pc[u] = "lock" /\ pc' = [pc EXCEPT ![u] = "walk"]
        \/ pc[u] = "walk" /\ pc' = [pc EXCEPT ![u] = "unlock"]
        \/ pc[u] = "read" /\ pc' = [pc EXCEPT ![u] = "read_unlock"]
        \/ pc' = pc
    BY <1>3 DEF Lock, Walk, ReadNext, ReadDone, RemoveMissing, Goto
  <2>3. \A w \in Users : pc[w] \in {"lock", "walk", "unlock", "retire"} =>
            pc'[w] \in {"lock", "walk", "unlock", "retire"}
    BY <1>a, <2>2 DEF TypeOK
  <2> QED
    BY <2>1, <2>3 DEF OwnInv
<1>4. ASSUME NEW u \in Users, InsertReplace(u)
      PROVE  OwnInv'
  <2>1. pc[u] = "walk" /\ Unflushed
    BY <1>b, <1>4 DEF InsertReplace, Goto
  <2>2. /\ mine[u] \in Entries /\ ent[mine[u]].key \in Keys /\ slab[mine[u]] = "private"
        /\ cur[u] \in Entries /\ slab[cur[u]] = "linked"
    BY <1>a, <1>4, <2>1 DEF InsertReplace, MineInv, CallInv, Found, WalkInv
  <2>3. /\ slab' = [slab EXCEPT ![mine[u]] = "linked", ![cur[u]] = "unlinked"]
        /\ mine' = [mine EXCEPT ![u] = cur[u]]
        /\ pc' = [pc EXCEPT ![u] = "unlock"]
        /\ UNCHANGED <<ent, mod>>
    BY <1>4 DEF InsertReplace, Goto
  <2> QED
    BY <1>a, <2>1, <2>2, <2>3 DEF TypeOK, OwnInv
<1>5. ASSUME NEW u \in Users, InsertAdd(u)
      PROVE  OwnInv'
  <2>1. pc[u] = "walk" /\ Unflushed
    BY <1>b, <1>5 DEF InsertAdd, Goto
  <2>2. mine[u] \in Entries /\ ent[mine[u]].key \in Keys /\ slab[mine[u]] = "private"
    BY <1>a, <1>5, <2>1 DEF InsertAdd, MineInv, CallInv
  <2>3. /\ slab' = [slab EXCEPT ![mine[u]] = "linked"]
        /\ mine' = [mine EXCEPT ![u] = NULL]
        /\ pc' = [pc EXCEPT ![u] = "unlock"]
        /\ UNCHANGED <<ent, mod>>
    BY <1>5 DEF InsertAdd, Goto
  <2> QED
    BY <1>a, <2>1, <2>2, <2>3 DEF TypeOK, OwnInv
<1>6. ASSUME NEW u \in Users, RemoveFound(u)
      PROVE  OwnInv'
  <2>1. pc[u] = "walk" /\ Unflushed
    BY <1>b, <1>6 DEF RemoveFound, Goto
  <2>2. mine[u] = NULL /\ cur[u] \in Entries
    BY <1>a, <1>6, <2>1 DEF RemoveFound, MineInv, Found
  <2>3. /\ slab' = [slab EXCEPT ![cur[u]] = "unlinked"]
        /\ mine' = [mine EXCEPT ![u] = cur[u]]
        /\ pc' = [pc EXCEPT ![u] = "unlock"]
        /\ UNCHANGED <<ent, mod>>
    BY <1>6 DEF RemoveFound, Goto
  <2> QED
    BY <1>a, <2>1, <2>2, <2>3 DEF TypeOK, OwnInv
<1>7. ASSUME NEW u \in Users, Unlock(u)
      PROVE  OwnInv'
  <2>1. /\ pc[u] = "unlock"
        /\ pc' = [pc EXCEPT ![u] = IF mine[u] = NULL THEN "idle" ELSE "retire"]
        /\ UNCHANGED <<slab, mine, ent, mod>>
    BY <1>7 DEF Unlock, Goto
  <2> QED
    BY <1>a, <2>1 DEF TypeOK, OwnInv
<1>8. ASSUME NEW u \in Users, Retire(u)
      PROVE  OwnInv'
  <2>1. /\ pc[u] = "retire" /\ pc' = [pc EXCEPT ![u] = "idle"]
        /\ slab' = [slab EXCEPT ![mine[u]] = "retired"]
        /\ mine' = [mine EXCEPT ![u] = NULL]
        /\ UNCHANGED <<ent, mod>>
    BY <1>8 DEF Retire, call_rcu, Goto
  <2>2. Unflushed
    BY <1>b, <2>1
  <2>3. \A e \in Entries : slab'[e] # "retired" => slab'[e] = slab[e] /\ e # mine[u]
    BY <1>a, <2>1 DEF TypeOK
  <2> QED
    BY <1>a, <2>1, <2>2, <2>3 DEF TypeOK, OwnInv, Unflushed
<1>9. ASSUME NEW u \in Users, ReadUnlock(u)
      PROVE  OwnInv'
  BY <1>a, <1>9 DEF TypeOK, OwnInv, ReadUnlock, Goto
<1>10. ASSUME NEW e \in Entries, pe_entry_free_rcu(e)
       PROVE  OwnInv'
  BY <1>a, <1>10 DEF TypeOK, OwnInv, pe_entry_free_rcu, kmem_cache_free
<1>11. CASE ModuleInit \/ CreateEntry \/ RemoveProcEntry \/ Rundown \/ FlushAlloc \/ synchronize_rcu
  BY <1>11 DEF OwnInv, ModuleInit, CreateEntry, RemoveProcEntry, Rundown, FlushAlloc, synchronize_rcu
<1>12. CASE rcu_barrier \/ kmem_cache_destroy
  BY <1>12 DEF OwnInv, rcu_barrier, kmem_cache_destroy
<1>13. ASSUME NEW b \in Buckets, FlushDetach(b)
       PROVE  OwnInv'
  BY <1>13 DEF OwnInv, FlushDetach
<1>14. ASSUME NEW b \in Buckets, FlushFree(b)
       PROVE  OwnInv'
  <2>1. heads[b] \in Entries
    BY <1>a, <1>14 DEF TypeOK, FlushFree
  <2>2. slab' = [slab EXCEPT ![heads[b]] = "free"]
    BY <1>14 DEF FlushFree, kmem_cache_free
  <2>3. \A e \in Entries : e # heads[b] => ent'[e] = ent[e]
    BY <1>a, <1>14, <2>1 DEF TypeOK, FlushFree, kmem_cache_free
  <2>4. UNCHANGED <<mine, pc, mod>>
    BY <1>14 DEF FlushFree
  <2> QED
    BY <1>a, <2>1, <2>2, <2>3, <2>4 DEF TypeOK, OwnInv
<1>15. CASE UNCHANGED vars
  BY <1>15 DEF OwnInv, vars
<1> QED
  BY <1>1, <1>2, <1>3, <1>4, <1>5, <1>6, <1>7, <1>8, <1>9, <1>10, <1>11, <1>12, <1>13, <1>14, <1>15
     DEF Next, Call, Module

LEMMA ListInvNext == Inv /\ ListInv /\ OwnInv /\ [Next]_vars => ListInv'
<1> SUFFICES ASSUME Inv, ListInv, OwnInv, [Next]_vars, mod' # "oops", NEW b \in Buckets
             PROVE  Listed(b)'
  BY DEF ListInv
<1> USE HashAssumption DEF listVars, memVars, callVars
<1>a. TypeOK /\ CallInv
  BY DEF Inv, IInv
<1>b. \A u \in Users : pc[u] # "idle" => Unflushed
  BY <1>a DEF CallInv, Unflushed
<1>c. Unflushed => MineInv /\ NextInv /\ PprevInv /\ WalkInv /\ Ranked
  BY DEF Inv, IInv
<1>d. mod # "oops"
  BY DEF Next, Call, Module, vars, InsertAlloc, RemoveCall, GetCall, Enter, Lock,
     Walk, InsertReplace, InsertAdd, RemoveFound, RemoveMissing, Unlock, Retire, ReadNext,
     ReadDone, ReadUnlock, pe_entry_free_rcu, ModuleInit, CreateEntry, RemoveProcEntry,
     Rundown, FlushAlloc, FlushDetach, synchronize_rcu, rcu_barrier, FlushFree,
     kmem_cache_destroy
<1>e. Listed(b)
  BY <1>d DEF ListInv
<1>1. ASSUME NEW u \in Users, NEW k \in Keys, NEW v \in Values, InsertAlloc(u, k, v)
      PROVE  Listed(b)'
  <2>1. UNCHANGED <<next, pprev, num, heads, mod, cur>>
    BY <1>1 DEF InsertAlloc, Enter
  <2>2. \A w \in Users : pc'[w] = "walk" => pc[w] = "walk" /\ req'[w] = req[w]
    BY <1>a, <1>1 DEF TypeOK, InsertAlloc, Goto
  <2>3. \A e \in Entries : slab'[e] = "linked" \/ slab[e] = "linked" =>
           slab'[e] = slab[e] /\ ent'[e] = ent[e]
    BY <1>a, <1>1 DEF TypeOK, InsertAlloc
  <2>4. Linked(b)' = Linked(b)
    BY <2>3 DEF Linked
  <2> QED
    BY <1>e, <2>1, <2>2, <2>3, <2>4, ListedKept DEF Linked, Bucket
<1>2. ASSUME NEW u \in Users, NEW k \in Keys, RemoveCall(u, k) \/ GetCall(u, k)
      PROVE  Listed(b)'
  <2>1. UNCHANGED <<next, pprev, num, heads, mod, slab, ent>>
    BY <1>2 DEF RemoveCall, GetCall
  <2>2. \A w \in Users : pc'[w] = "walk" => pc[w] = "walk" /\ req'[w] = req[w] /\ cur'[w] = cur[w]
    BY <1>a, <1>2 DEF TypeOK, RemoveCall, GetCall, Goto
  <2> QED
    BY <1>e, <2>1, <2>2, ListedKept DEF Linked, Bucket
<1>3. ASSUME NEW u \in Users, Lock(u)
      PROVE  Listed(b)'
  <2>1. /\ pc[u] = "lock" /\ pc' = [pc EXCEPT ![u] = "walk"]
        /\ cur' = [cur EXCEPT ![u] = next[Bucket(u)]]
        /\ UNCHANGED <<next, pprev, num, heads, mod, slab, ent, req>>
    BY <1>3 DEF Lock, Goto
  <2>2. CASE Bucket(u) # b
    BY <1>a, <1>e, <2>1, <2>2, ListedKept DEF TypeOK, Linked, Bucket
  <2>3. CASE Bucket(u) = b
    <3>1. PICK s \in Orders, n \in Nat : Lists(b, s, n) /\ Held(b, s, n) /\ Searched(b, s, n)
      BY <1>e DEF Listed
    <3>2. Lists(b, s, n)'
      BY <2>1, <3>1, ListKept DEF Linked
    <3>3. Held(b, s, n)'
      BY <2>1, <3>1 DEF Held, Unflushed
    <3>4. next[b] = s[0]
      BY <1>b, <2>1, <3>1 DEF Held
    <3>5. Searched(b, s, n)'
      <4> SUFFICES ASSUME NEW w \in Users, pc'[w] = "walk", Bucket(w)' = b
                   PROVE  \E j \in 0 .. n : /\ cur'[w] = s[j]
                                            /\ \A i \in 0 .. j - 1 : ent'[s[i]].key # req'[w].key
        BY DEF Searched
      <4>1. CASE w = u
        <5>1. cur'[w] = s[0] /\ 0 \in 0 .. n /\ \A i \in 0 .. 0 - 1 : FALSE
          BY <1>a, <2>1, <2>3, <3>4, <4>1 DEF TypeOK
        <5> QED
          BY <5>1
      <4>2. CASE w # u
        <5>1. pc[w] = "walk" /\ Bucket(w) = b /\ cur'[w] = cur[w]
          BY <1>a, <2>1, <4>2 DEF TypeOK, Bucket
        <5> QED
          BY <2>1, <3>1, <5>1 DEF Searched
      <4> QED
        BY <4>1, <4>2
    <3> QED
      BY <3>2, <3>3, <3>5 DEF Listed
  <2> QED
    BY <2>2, <2>3
<1>4. ASSUME NEW u \in Users, Walk(u)
      PROVE  Listed(b)'
  <2>1. /\ pc[u] = "walk" /\ pc' = pc /\ cur[u] # NULL /\ ~Found(u)
        /\ cur' = [cur EXCEPT ![u] = next[cur[u]]]
        /\ UNCHANGED <<next, pprev, num, heads, mod, slab, ent, req>>
    BY <1>4 DEF Walk
  <2>2. CASE Bucket(u) # b
    BY <1>a, <1>e, <2>1, <2>2, ListedKept DEF TypeOK, Linked, Bucket
  <2>3. CASE Bucket(u) = b
    <3>1. PICK s \in Orders, n \in Nat : Lists(b, s, n) /\ Held(b, s, n) /\ Searched(b, s, n)
      BY <1>e DEF Listed
    <3>2. Lists(b, s, n)'
      BY <2>1, <3>1, ListKept DEF Linked
    <3>3. Held(b, s, n)'
      BY <2>1, <3>1 DEF Held, Unflushed
    <3>5. Searched(b, s, n)'
      <4> SUFFICES ASSUME NEW w \in Users, pc'[w] = "walk", Bucket(w)' = b
                   PROVE  \E j \in 0 .. n : /\ cur'[w] = s[j]
                                            /\ \A i \in 0 .. j - 1 : ent'[s[i]].key # req'[w].key
        BY DEF Searched
      <4>1. CASE w = u
        <5>1. PICK j \in 0 .. n : cur[u] = s[j] /\ \A i \in 0 .. j - 1 : ent[s[i]].key # req[u].key
          BY <2>1, <2>3, <3>1 DEF Searched
        <5>2. j < n /\ s[j] \in Entries /\ next[s[j]] = s[j + 1]
          BY <2>1, <3>1, <5>1 DEF Lists, Linked
        <5>3. ent[s[j]].key # req[u].key
          BY <2>1, <5>1, <5>2 DEF Found
        <5>4. cur'[u] = s[j + 1]
          BY <1>a, <2>1, <5>1, <5>2 DEF TypeOK
        <5>5. \A i \in 0 .. (j + 1) - 1 : ent[s[i]].key # req[u].key
          BY <5>1, <5>3
        <5> QED
          BY <2>1, <4>1, <5>2, <5>4, <5>5
      <4>2. CASE w # u
        <5>1. pc[w] = "walk" /\ Bucket(w) = b /\ cur'[w] = cur[w]
          BY <1>a, <2>1, <4>2 DEF TypeOK, Bucket
        <5> QED
          BY <2>1, <3>1, <5>1 DEF Searched
      <4> QED
        BY <4>1, <4>2
    <3> QED
      BY <3>2, <3>3, <3>5 DEF Listed
  <2> QED
    BY <2>2, <2>3
<1>5. ASSUME NEW u \in Users, InsertReplace(u)
      PROVE  Listed(b)'
  <2>1. pc[u] = "walk" /\ Found(u) /\ req[u].op = "insert" /\ Unflushed
    BY <1>b, <1>5 DEF InsertReplace, Goto
  <2>2. PICK o \in Entries, m \in Entries, P \in Nodes :
           /\ o = cur[u] /\ m = mine[u] /\ P = pprev[o]
           /\ slab[o] = "linked" /\ slab[m] = "private"
           /\ m # o /\ P # o /\ P # m /\ OnList(P) /\ next[P] = o
           /\ next[o] # o /\ next[o] # P /\ next[o] # m
           /\ Home(m) = Home(o) /\ Home(P) = Home(o) /\ Home(o) = Bucket(u)
           /\ next[o] # NULL => next[o] \in Entries /\ slab[next[o]] = "linked" /\ pprev[next[o]] = o
           /\ ent[m].key \in Keys
    BY <1>a, <1>c, <2>1, ReplacePosition
  <2>3. /\ next' = [next EXCEPT ![m] = next[o], ![P] = m]
        /\ pprev' = [x \in Entries |-> IF x = m THEN P
                                   ELSE IF x = next[o] THEN m
                                   ELSE IF x = o THEN NULL ELSE pprev[x]]
        /\ slab' = [slab EXCEPT ![m] = "linked", ![o] = "unlinked"]
        /\ pc' = [pc EXCEPT ![u] = "unlock"]
        /\ UNCHANGED <<num, heads, mod, ent, cur, req>>
    BY <1>5, <2>2 DEF InsertReplace, hlist_replace_rcu, Goto
  <2>4. Home(o) = Hash[ent[o].key] /\ Home(m) = Hash[ent[m].key]
    BY <2>2 DEF Home
  <2>5. CASE Bucket(u) # b
    <3>1. Linked(b)' = Linked(b) /\ o \notin Linked(b) /\ m \notin Linked(b)
      BY <1>a, <2>2, <2>3, <2>4, <2>5 DEF TypeOK, Linked
    <3>2. P # b /\ P \notin Linked(b)
      BY <2>2, <2>5 DEF Home, Linked
    <3>3. next[o] \notin Linked(b)
      <4>1. next[o] # NULL => Home(next[o]) = Home(o)
        BY <1>c, <2>1, <2>2 DEF NextInv, OnList, Nodes
      <4> QED
        BY <2>2, <2>4, <2>5, <4>1 DEF Linked, Home
    <3>4. next'[b] = next[b]
      BY <1>a, <2>2, <2>3, <3>2 DEF TypeOK, Nodes
    <3>5. \A e \in Linked(b) : ent'[e] = ent[e] /\ next'[e] = next[e] /\ pprev'[e] = pprev[e]
      BY <1>a, <2>2, <2>3, <3>1, <3>2, <3>3 DEF TypeOK, Nodes, Linked
    <3>6. \A w \in Users : pc'[w] = "walk" /\ Bucket(w)' = b =>
             pc[w] = "walk" /\ Bucket(w) = b /\ cur'[w] = cur[w] /\ req'[w] = req[w]
      BY <1>a, <2>3 DEF TypeOK, Bucket
    <3> QED
      BY <1>e, <2>3, <3>1, <3>4, <3>5, <3>6, ListedKept
  <2>6. CASE Bucket(u) = b
    <3>1. PICK s \in Orders, n \in Nat : Lists(b, s, n) /\ Held(b, s, n) /\ Searched(b, s, n)
      BY <1>e DEF Listed
    <3>2. o \in Linked(b)
      BY <2>2, <2>4, <2>6 DEF Linked
    <3>3. PICK j \in 0 .. n - 1 : o = s[j]
      BY <3>1, <3>2 DEF Lists
    <3>4. next[b] = s[0]
      BY <2>1, <3>1 DEF Held
    <3>5. ent[m].key = ent[o].key
      BY <1>c, <2>1, <2>2 DEF MineInv, Found
    <3>a. PICK t \in Orders : \A i \in Nat : t[i] = IF i = j THEN m ELSE s[i]
      <4>1. [s EXCEPT ![j] = m] \in Orders /\ \A i \in Nat : [s EXCEPT ![j] = m][i] = IF i = j THEN m ELSE s[i]
        BY <2>2 DEF Orders
      <4> QED
        BY <4>1
    <3>b. Replaces(b, s, n, j, m, t)
      BY <2>2, <2>3, <3>3, <3>4, <3>5, <3>a DEF Replaces
    <3>6. t[0] = next'[b] /\ Lists(b, t, n)'
      BY <1>a, <3>1, <3>b, ListReplace
    <3>7. Held(b, t, n)'
      BY <2>1, <2>3, <3>1, <3>6 DEF Held, Unflushed
    <3>8. Searched(b, t, n)'
      <4>1. \A w \in Users : pc'[w] = "walk" => w # u /\ pc[w] = "walk"
        BY <1>a, <2>3 DEF TypeOK
      <4>2. \A w \in Users : pc'[w] = "walk" => Bucket(w)' # b
        BY <1>a, <2>1, <2>3, <2>6, <4>1 DEF CallInv, Bucket
      <4> QED
        BY <4>2 DEF Searched
    <3> QED
      BY <3>a, <3>6, <3>7, <3>8 DEF Listed
  <2> QED
    BY <2>5, <2>6
<1>6. ASSUME NEW u \in Users, InsertAdd(u)
      PROVE  Listed(b)'
  <2>1. pc[u] = "walk" /\ cur[u] = NULL /\ req[u].op = "insert" /\ Unflushed
    BY <1>b, <1>6 DEF InsertAdd, Goto
  <2>2. PICK m \in Entries, d \in Buckets :
           /\ m = mine[u] /\ d = Bucket(u)
           /\ m # d /\ slab[m] = "private" /\ Hash[ent[m].key] = d
           /\ next[d] # NULL => /\ next[d] \in Entries /\ slab[next[d]] = "linked"
                                /\ pprev[next[d]] = d /\ Home(next[d]) = d
           /\ next[d] # m
           /\ next' = [next EXCEPT ![m] = next[d], ![d] = m]
           /\ pprev' = [x \in Entries |-> IF x = m THEN d
                                          ELSE IF x = next[d] THEN m ELSE pprev[x]]
           /\ slab' = [slab EXCEPT ![m] = "linked"]
           /\ UNCHANGED ent
    BY <1>a, <1>c, <1>6, <2>1, AddPosition
  <2>3. /\ num' = [num EXCEPT ![d] = @ + 1]
        /\ pc' = [pc EXCEPT ![u] = "unlock"]
        /\ UNCHANGED <<heads, mod, cur, req>>
    BY <1>6, <2>2 DEF InsertAdd, Goto
  <2>5. CASE d # b
    <3>1. Linked(b)' = Linked(b) /\ m \notin Linked(b)
      BY <1>a, <2>2, <2>5 DEF TypeOK, Linked
    <3>2. next[d] \notin Linked(b)
      BY <2>2, <2>5 DEF Home, Linked
    <3>4. next'[b] = next[b] /\ num'[b] = num[b]
      BY <1>a, <2>2, <2>3, <2>5 DEF TypeOK, Nodes
    <3>5. \A e \in Linked(b) : ent'[e] = ent[e] /\ next'[e] = next[e] /\ pprev'[e] = pprev[e]
      BY <1>a, <2>2, <3>1, <3>2 DEF TypeOK, Nodes, Linked
    <3>6. \A w \in Users : pc'[w] = "walk" /\ Bucket(w)' = b =>
             pc[w] = "walk" /\ Bucket(w) = b /\ cur'[w] = cur[w] /\ req'[w] = req[w]
      BY <1>a, <2>3 DEF TypeOK, Bucket
    <3> QED
      BY <1>e, <2>3, <3>1, <3>4, <3>5, <3>6, ListedKept
  <2>6. CASE d = b
    <3>1. PICK s \in Orders, n \in Nat : Lists(b, s, n) /\ Held(b, s, n) /\ Searched(b, s, n)
      BY <1>e DEF Listed
    <3>2. PICK j \in 0 .. n : NULL = s[j] /\ \A i \in 0 .. j - 1 : ent[s[i]].key # req[u].key
      BY <2>1, <2>2, <2>6, <3>1 DEF Searched
    <3>3. j = n
      BY <3>1, <3>2 DEF Lists, Linked
    <3>4. next[b] = s[0] /\ num[b] = n /\ heads[b] = NULL
      BY <2>1, <3>1 DEF Held
    <3>5. \A i \in 0 .. n - 1 : ent[s[i]].key # ent[m].key
      BY <1>c, <2>1, <2>2, <3>2, <3>3 DEF MineInv
    <3>a. PICK t \in Orders : \A i \in Nat : t[i] = IF i = 0 THEN m ELSE s[i - 1]
      <4> DEFINE f == [i \in Nat |-> IF i = 0 THEN m ELSE s[i - 1]]
      <4>1. f \in Orders /\ \A i \in Nat : f[i] = IF i = 0 THEN m ELSE s[i - 1]
        BY DEF Orders
      <4> QED
        BY <4>1
    <3>b. Adds(b, s, n, m, t)
      BY <2>2, <2>6, <3>4, <3>5, <3>a DEF Adds
    <3>6. t[0] = next'[b] /\ Lists(b, t, n + 1)'
      BY <1>a, <3>1, <3>b, ListAdd
    <3>7. Held(b, t, n + 1)'
      BY <1>a, <2>1, <2>3, <2>6, <3>4, <3>6 DEF Held, Unflushed, TypeOK
    <3>8. Searched(b, t, n + 1)'
      <4>1. \A w \in Users : pc'[w] = "walk" => w # u /\ pc[w] = "walk"
        BY <1>a, <2>3 DEF TypeOK
      <4>2. \A w \in Users : pc'[w] = "walk" => Bucket(w)' # b
        <5>1. lock[b] = u
          <6>1. lock[Bucket(u)] = u
            BY <1>a, <2>1 DEF CallInv
          <6> QED
            BY <2>2, <2>6, <6>1
        <5>2. \A w \in Users : pc[w] = "walk" => lock[Bucket(w)] = w
          BY <1>a DEF CallInv
        <5> QED
          BY <2>3, <4>1, <5>1, <5>2 DEF Bucket
      <4> QED
        BY <4>2 DEF Searched
    <3>9. n + 1 \in Nat
      OBVIOUS
    <3> QED
      BY <3>a, <3>6, <3>7, <3>8, <3>9 DEF Listed
  <2> QED
    BY <2>5, <2>6
<1>7. ASSUME NEW u \in Users, RemoveFound(u)
      PROVE  Listed(b)'
  <2>1. pc[u] = "walk" /\ Found(u) /\ Unflushed
    BY <1>b, <1>7 DEF RemoveFound, Goto
  <2>2. PICK o \in Entries, P \in Nodes :
           /\ o = cur[u] /\ P = pprev[o]
           /\ slab[o] = "linked"
           /\ P # o /\ OnList(P) /\ next[P] = o
           /\ next[o] # o /\ next[o] # P
           /\ Home(P) = Home(o) /\ Home(o) = Bucket(u)
           /\ next[o] # NULL => next[o] \in Entries /\ slab[next[o]] = "linked" /\ pprev[next[o]] = o
    BY <1>a, <1>c, <2>1, Position
  <2>3. /\ next' = [next EXCEPT ![P] = next[o]]
        /\ pprev' = [x \in Entries |-> IF x = o THEN NULL
                                   ELSE IF x = next[o] THEN P ELSE pprev[x]]
        /\ slab' = [slab EXCEPT ![o] = "unlinked"]
        /\ num' = [num EXCEPT ![Bucket(u)] = @ - 1]
        /\ pc' = [pc EXCEPT ![u] = "unlock"]
        /\ UNCHANGED <<heads, mod, ent, cur, req>>
    BY <1>7, <2>2 DEF RemoveFound, hlist_del_rcu, Goto
  <2>4. Home(o) = Hash[ent[o].key]
    BY <2>2 DEF Home
  <2>5. CASE Bucket(u) # b
    <3>1. Linked(b)' = Linked(b) /\ o \notin Linked(b)
      BY <1>a, <2>2, <2>3, <2>4, <2>5 DEF TypeOK, Linked
    <3>2. P # b /\ P \notin Linked(b)
      BY <2>2, <2>5 DEF Home, Linked
    <3>3. next[o] \notin Linked(b)
      <4>1. next[o] # NULL => Home(next[o]) = Home(o)
        BY <1>c, <2>1, <2>2 DEF NextInv, OnList, Nodes
      <4> QED
        BY <2>2, <2>4, <2>5, <4>1 DEF Linked, Home
    <3>4. next'[b] = next[b] /\ num'[b] = num[b]
      BY <1>a, <2>2, <2>3, <2>5, <3>2 DEF TypeOK, Nodes
    <3>5. \A e \in Linked(b) : ent'[e] = ent[e] /\ next'[e] = next[e] /\ pprev'[e] = pprev[e]
      BY <1>a, <2>2, <2>3, <3>1, <3>2, <3>3 DEF TypeOK, Nodes, Linked
    <3>6. \A w \in Users : pc'[w] = "walk" /\ Bucket(w)' = b =>
             pc[w] = "walk" /\ Bucket(w) = b /\ cur'[w] = cur[w] /\ req'[w] = req[w]
      BY <1>a, <2>3 DEF TypeOK, Bucket
    <3> QED
      BY <1>e, <2>3, <3>1, <3>4, <3>5, <3>6, ListedKept
  <2>6. CASE Bucket(u) = b
    <3>1. PICK s \in Orders, n \in Nat : Lists(b, s, n) /\ Held(b, s, n) /\ Searched(b, s, n)
      BY <1>e DEF Listed
    <3>2. o \in Linked(b)
      BY <2>2, <2>4, <2>6 DEF Linked
    <3>3. PICK j \in 0 .. n - 1 : o = s[j]
      BY <3>1, <3>2 DEF Lists
    <3>4. next[b] = s[0] /\ num[b] = n /\ heads[b] = NULL
      BY <2>1, <3>1 DEF Held
    <3>a. PICK t \in Orders : \A i \in Nat : t[i] = IF i < j THEN s[i] ELSE s[i + 1]
      <4> DEFINE f == [i \in Nat |-> IF i < j THEN s[i] ELSE s[i + 1]]
      <4>1. f \in Orders /\ \A i \in Nat : f[i] = IF i < j THEN s[i] ELSE s[i + 1]
        BY DEF Orders
      <4> QED
        BY <4>1
    <3>b. Removes(b, s, n, j, t)
      BY <2>2, <2>3, <3>3, <3>a DEF Removes
    <3>6. (next[b] = s[0] => next'[b] = t[0]) /\ Lists(b, t, n - 1)'
      BY <1>a, <3>1, <3>b, ListRemove
    <3>7. Held(b, t, n - 1)'
      BY <1>a, <2>1, <2>3, <2>6, <3>4, <3>6 DEF Held, Unflushed, TypeOK
    <3>8. Searched(b, t, n - 1)'
      <4>1. \A w \in Users : pc'[w] = "walk" => w # u /\ pc[w] = "walk"
        BY <1>a, <2>3 DEF TypeOK
      <4>2. \A w \in Users : pc'[w] = "walk" => Bucket(w)' # b
        BY <1>a, <2>1, <2>3, <2>6, <4>1 DEF CallInv, Bucket
      <4> QED
        BY <4>2 DEF Searched
    <3>9. n - 1 \in Nat
      BY <3>3
    <3> QED
      BY <3>a, <3>6, <3>7, <3>8, <3>9 DEF Listed
  <2> QED
    BY <2>5, <2>6
<1>8. ASSUME NEW u \in Users, RemoveMissing(u) \/ Unlock(u)
      PROVE  Listed(b)'
  <2>1. UNCHANGED <<next, pprev, num, heads, mod, slab, ent>>
    BY <1>8 DEF RemoveMissing, Unlock
  <2>2. \A w \in Users : pc'[w] = "walk" => pc[w] = "walk" /\ req'[w] = req[w] /\ cur'[w] = cur[w]
    BY <1>a, <1>8 DEF TypeOK, RemoveMissing, Unlock, Goto
  <2> QED
    BY <1>e, <2>1, <2>2, ListedKept DEF Linked, Bucket
<1>9. ASSUME NEW u \in Users, Retire(u)
      PROVE  Listed(b)'
  <2>1. /\ pc[u] = "retire" /\ pc' = [pc EXCEPT ![u] = "idle"]
        /\ slab' = [slab EXCEPT ![mine[u]] = "retired"]
        /\ UNCHANGED <<next, pprev, num, heads, mod, ent, req, cur>>
    BY <1>9 DEF Retire, call_rcu, Goto
  <2>2. slab[mine[u]] = "unlinked"
    BY <1>b, <1>c, <2>1 DEF MineInv
  <2>3. Linked(b)' = Linked(b)
    BY <1>a, <2>1, <2>2 DEF TypeOK, Linked
  <2>4. \A w \in Users : pc'[w] = "walk" => pc[w] = "walk"
    BY <1>a, <2>1 DEF TypeOK
  <2> QED
    BY <1>e, <2>1, <2>3, <2>4, ListedKept DEF Bucket
<1>10. ASSUME NEW u \in Users, ReadNext(u) \/ ReadDone(u) \/ ReadUnlock(u)
       PROVE  Listed(b)'
  <2>1. UNCHANGED <<next, pprev, num, heads, mod, slab, ent>>
    BY <1>10 DEF ReadNext, ReadDone, ReadUnlock
  <2>2. \A w \in Users : pc'[w] = "walk" => pc[w] = "walk" /\ req'[w] = req[w] /\ cur'[w] = cur[w]
    BY <1>a, <1>10 DEF TypeOK, ReadNext, ReadDone, ReadUnlock, Goto
  <2> QED
    BY <1>e, <2>1, <2>2, ListedKept DEF Linked, Bucket
<1>11. ASSUME NEW e \in Entries, pe_entry_free_rcu(e)
       PROVE  Listed(b)'
  <2>1. /\ slab[e] = "retired" /\ slab' = [slab EXCEPT ![e] = "free"]
        /\ next' = [next EXCEPT ![e] = NULL]
        /\ \A x \in Entries \ {e} : ent'[x] = ent[x]
        /\ UNCHANGED <<pprev, num, heads, mod, req, cur, pc>>
    BY <1>a, <1>11 DEF TypeOK, pe_entry_free_rcu, kmem_cache_free
  <2>2. Linked(b)' = Linked(b) /\ e \notin Linked(b)
    BY <1>a, <2>1 DEF TypeOK, Linked
  <2>3. next'[b] = next[b] /\ \A x \in Linked(b) : ent'[x] = ent[x] /\ next'[x] = next[x]
    BY <1>a, <2>1, <2>2 DEF TypeOK, Linked, Nodes
  <2> QED
    BY <1>e, <2>1, <2>2, <2>3, ListedKept DEF Bucket
<1>12. ASSUME UNCHANGED <<listVars, lock, memVars, callVars, heads>>,
              mod' # mod => \/ mod \in {"none", "mapped", "live"} /\ mod' \in {"failed", "mapped", "live", "rundown"}
                            \/ mod \in {"mapped", "rundown"} /\ mod' = "destroy"
                            \/ mod = "destroy" /\ mod' = "detach"
                            \/ mod = "detach" /\ mod' = "barrier" /\ next[b] = NULL
                            \/ mod = "barrier" /\ mod' = "free"
                            \/ mod = "free" /\ mod' = "gone" /\ heads[b] = NULL
       PROVE  Listed(b)'
  <2>1. PICK s \in Orders, n \in Nat : Lists(b, s, n) /\ Held(b, s, n) /\ Searched(b, s, n)
    BY <1>e DEF Listed
  <2>2. Lists(b, s, n)'
    BY <1>12, <2>1, ListKept DEF Linked
  <2>3. Held(b, s, n)'
    BY <1>12, <2>1 DEF Held, Unflushed
  <2>4. Searched(b, s, n)'
    BY <1>12, <2>1 DEF Searched, Bucket
  <2> QED
    BY <2>2, <2>3, <2>4 DEF Listed
<1>13. CASE ModuleInit \/ CreateEntry \/ RemoveProcEntry \/ Rundown \/ FlushAlloc
  BY <1>12, <1>13 DEF ModuleInit, CreateEntry, RemoveProcEntry, Rundown, FlushAlloc
<1>14. CASE synchronize_rcu \/ rcu_barrier \/ kmem_cache_destroy
  BY <1>12, <1>14 DEF synchronize_rcu, rcu_barrier, kmem_cache_destroy
<1>15. ASSUME NEW d \in Buckets, FlushDetach(d)
       PROVE  Listed(b)'
  <2>1. /\ mod = "detach" /\ next[d] # NULL
        /\ heads' = [heads EXCEPT ![d] = next[d]]
        /\ next' = [next EXCEPT ![d] = NULL]
        /\ num' = [num EXCEPT ![d] = 0]
        /\ UNCHANGED <<pprev, mod, slab, ent, pc, cur, req>>
    BY <1>15 DEF FlushDetach
  <2>2. Linked(b)' = Linked(b) /\ \A e \in Linked(b) : next'[e] = next[e]
    BY <1>a, <2>1 DEF TypeOK, Linked, Nodes
  <2>3. CASE d # b
    <3>1. next'[b] = next[b] /\ heads'[b] = heads[b] /\ num'[b] = num[b]
      BY <1>a, <2>1, <2>3 DEF TypeOK, Nodes
    <3> QED
      BY <1>e, <2>1, <2>2, <3>1, ListedKept DEF Bucket
  <2>4. CASE d = b
    <3>1. PICK s \in Orders, n \in Nat : Lists(b, s, n) /\ Held(b, s, n) /\ Searched(b, s, n)
      BY <1>e DEF Listed
    <3>2. Lists(b, s, n)'
      BY <2>1, <2>2, <3>1, ListKept
    <3>3. Held(b, s, n)'
      BY <1>a, <2>1, <2>4, <3>1 DEF Held, Unflushed, TypeOK, Nodes
    <3>4. Searched(b, s, n)'
      BY <2>1, <3>1 DEF Searched, Bucket
    <3> QED
      BY <3>2, <3>3, <3>4 DEF Listed
  <2> QED
    BY <2>3, <2>4
<1>16. ASSUME NEW d \in Buckets, FlushFree(d)
       PROVE  Listed(b)'
  <2>1. Listed(d)
    BY <1>d DEF ListInv
  <2>2. PICK s \in Orders, n \in Nat : Lists(d, s, n) /\ Held(d, s, n) /\ Searched(d, s, n)
    BY <2>1 DEF Listed
  <2>3. mod = "free" /\ heads[d] = s[0] /\ heads[d] # NULL
    BY <1>16, <2>2 DEF FlushFree, Held
  <2>4. 0 \in 0 .. n - 1
    BY <2>2, <2>3 DEF Lists
  <2> DEFINE o == s[0]
  <2>5. o \in Linked(d) /\ o \in Entries /\ pprev[o] = d /\ next[o] = s[1] /\ slab[o] = "linked" /\ Hash[ent[o].key] = d
    BY <2>2, <2>4 DEF Lists, Linked
  <2> HIDE DEF o
  <2>6. /\ next' = [next EXCEPT ![pprev[o]] = next[o]]
        /\ pprev' = [x \in Entries |-> IF x = o THEN NULL
                                       ELSE IF x = next[o] THEN pprev[o] ELSE pprev[x]]
        /\ slab' = [slab EXCEPT ![o] = "free"]
        /\ \A x \in Entries \ {o} : ent'[x] = ent[x]
        /\ heads' = [heads EXCEPT ![d] = next[o]]
        /\ UNCHANGED <<num, mod, pc, cur, req>>
    BY <1>a, <1>16, <2>3 DEF TypeOK, FlushFree, hlist_del_rcu, kmem_cache_free, o
  <2>a. \A x \in Entries : pprev'[x] = IF x = o THEN NULL
                                       ELSE IF x = next[o] THEN pprev[o] ELSE pprev[x]
    BY <2>6
  <2>7. \A w \in Users : pc[w] = "idle"
    BY <1>a, <2>3 DEF CallInv
  <2>8. CASE d # b
    <3>1. Linked(b)' = Linked(b) /\ o \notin Linked(b)
      BY <1>a, <2>5, <2>6, <2>8 DEF TypeOK, Linked
    <3>2. next[o] \notin Linked(b)
      <4>1. CASE n = 1
        BY <2>2, <2>5, <4>1 DEF Lists, Linked
      <4>2. CASE n # 1
        <5>1. 1 \in 0 .. n - 1
          BY <2>4, <4>2
        <5>2. s[1] \in Linked(d)
          BY <2>2, <5>1 DEF Lists
        <5> QED
          BY <2>5, <2>8, <5>2 DEF Linked
      <4> QED
        BY <4>1, <4>2
    <3>3. next'[b] = next[b] /\ heads'[b] = heads[b]
      BY <1>a, <2>5, <2>6, <2>8 DEF TypeOK, Nodes
    <3>4. \A e \in Linked(b) : ent'[e] = ent[e] /\ next'[e] = next[e] /\ pprev'[e] = pprev[e]
      BY <1>a, <2>5, <2>6, <3>1, <3>2 DEF TypeOK, Nodes, Linked
    <3> QED
      BY <1>e, <2>6, <2>7, <3>1, <3>3, <3>4, ListedKept DEF Bucket
  <2>9. CASE d = b
    <3>a. PICK t \in Orders : \A i \in Nat : t[i] = IF i < 0 THEN s[i] ELSE s[i + 1]
      <4> DEFINE f == [i \in Nat |-> IF i < 0 THEN s[i] ELSE s[i + 1]]
      <4>1. f \in Orders /\ \A i \in Nat : f[i] = IF i < 0 THEN s[i] ELSE s[i + 1]
        BY DEF Orders
      <4> QED
        BY <4>1
    <3>b. Removes(b, s, n, 0, t)
      BY <2>4, <2>6, <2>a, <3>a DEF Removes, o
    <3>1. Lists(b, t, n - 1)'
      BY <1>a, <2>2, <2>9, <3>b, ListRemove
    <3>2. t[0] = s[1]
      BY <3>a
    <3>3. Held(b, t, n - 1)'
      BY <1>a, <2>3, <2>5, <2>6, <2>9, <3>2 DEF Held, Unflushed, TypeOK
    <3>4. Searched(b, t, n - 1)'
      BY <2>6, <2>7 DEF Searched
    <3>5. n - 1 \in Nat
      BY <2>4
    <3> QED
      BY <3>a, <3>1, <3>3, <3>4, <3>5 DEF Listed
  <2> QED
    BY <2>8, <2>9
<1>17. CASE UNCHANGED vars
  BY <1>12, <1>17 DEF vars
<1> QED
  BY <1>1, <1>2, <1>3, <1>4, <1>5, <1>6, <1>7, <1>8, <1>9, <1>10, <1>11, <1>13, <1>14, <1>15, <1>16, <1>17
     DEF Next, Call, Module

------------------------------------------------------------------------------
(* What the lists imply: the walk of a reader alone, and the end of the    *)
(* module.                                                                 *)

\* Among natural numbers there is a least.
LEMMA LeastNat ==
    ASSUME NEW T \in SUBSET Nat, T # {}
    PROVE  \E m \in T : \A k \in T : m <= k
<1>1. PICK m \in T : \A k \in T : <<k, m>> \notin OpToRel(<, Nat)
  BY WFMin, NatLessThanWellFounded, Zenon
<1>2. \A k \in T : ~ (k < m)
  BY <1>1, Zenon DEF OpToRel
<1> QED
  BY <1>2

\* The length of a list is the number of its entries.
LEMMA ListLength ==
    ASSUME NEW b, NEW s \in Orders, NEW n \in Nat, Lists(b, s, n)
    PROVE  /\ Cardinality(Linked(b)) = n
           /\ Cardinality(Entries) \in Nat /\ n <= Cardinality(Entries)
<1> DEFINE f == [i \in 0 .. n - 1 |-> s[i]]
<1>1. f \in Bijection(0 .. n - 1, Linked(b))
  <2>1. f \in [0 .. n - 1 -> Linked(b)]
    BY DEF Lists
  <2>2. \A i, j \in 0 .. n - 1 : f[i] = f[j] => i = j
    BY DEF Lists
  <2>3. \A e \in Linked(b) : \E i \in 0 .. n - 1 : f[i] = e
    BY DEF Lists
  <2> HIDE DEF f
  <2> QED
    BY <2>1, <2>2, <2>3, Fun_IsBij
<1>2. IsFiniteSet(0 .. n - 1) /\ Cardinality(0 .. n - 1) = n
  BY FS_Interval
<1>3. Cardinality(Linked(b)) = Cardinality(0 .. n - 1)
  BY <1>1, <1>2, FS_Bijection DEF ExistsBijection
<1>4. Linked(b) \in SUBSET Entries
  BY DEF Linked
<1>5. Cardinality(Linked(b)) <= Cardinality(Entries)
  BY <1>4, FiniteAssumption, FS_Subset
<1>6. Cardinality(Entries) \in Nat
  BY FiniteAssumption, FS_CardinalityType
<1> QED
  BY <1>2, <1>3, <1>5, <1>6

\* Following next from the head visits the list.
LEMMA ListWalk ==
    ASSUME NEW b, NEW s \in Orders, NEW n \in Nat, Lists(b, s, n), next[b] = s[0]
    PROVE  Chain(b) = Linked(b)
<1> DEFINE K == Cardinality(Entries)
           D == 0 .. K
           Step(g, i) == IF i = 0 THEN next[b]
                         ELSE IF g[i - 1] = NULL THEN NULL ELSE next[g[i - 1]]
           node == CHOOSE g : g = [i \in D |-> Step(g, i)]
<1>1. Chain(b) = {node[i] : i \in DOMAIN node} \ {NULL}
  BY DEF Chain
<1>2. K \in Nat /\ n <= K
  BY ListLength
<1> HIDE DEF K
<1>3. \A i \in D : Step(s, i) = s[i]
  <2>1. \A i \in 0 .. n - 1 : s[i] # NULL /\ next[s[i]] = s[i + 1]
    BY HashAssumption DEF Lists, Linked
  <2>2. \A i \in Nat : i >= n => s[i] = NULL
    BY DEF Lists
  <2> SUFFICES ASSUME NEW i \in D, i # 0
               PROVE  (IF s[i - 1] = NULL THEN NULL ELSE next[s[i - 1]]) = s[i]
    OBVIOUS
  <2>3. CASE i - 1 < n
    BY <2>1, <2>3
  <2>4. CASE i - 1 >= n
    BY <2>2, <2>4
  <2> QED
    BY <2>3, <2>4
<1>4. \E g : g = [i \in D |-> Step(g, i)]
  <2> DEFINE g == [i \in D |-> s[i]]
  <2>1. \A i \in D : i # 0 => g[i - 1] = s[i - 1]
    BY <1>2
  <2>2. \A i \in D : Step(g, i) = s[i]
    BY <1>3, <2>1
  <2>3. g = [i \in D |-> Step(g, i)]
    BY <2>2
  <2> QED
    BY <2>3
<1>5. node = [i \in D |-> Step(node, i)]
  BY <1>4
<1> HIDE DEF node
<1>6. \A i \in D : node[i] = s[i]
  <2> SUFFICES ASSUME {i \in D : node[i] # s[i]} # {}
               PROVE  FALSE
    OBVIOUS
  <2>1. PICK m \in D : node[m] # s[m] /\ \A k \in D : node[k] # s[k] => m <= k
    <3> DEFINE T == {i \in D : node[i] # s[i]}
    <3>1. T \in SUBSET Nat /\ T # {}
      OBVIOUS
    <3> HIDE DEF T
    <3>2. \E m \in T : \A k \in T : m <= k
      BY <3>1, LeastNat
    <3> QED
      BY <3>2 DEF T
  <2>2. node[m] = Step(node, m) /\ s[m] = Step(s, m)
    BY <1>3, <1>5
  <2>3. m # 0 => node[m - 1] = s[m - 1]
    BY <1>2, <2>1
  <2> QED
    BY <2>1, <2>2, <2>3
<1>7. DOMAIN node = D
  BY <1>5
<1>8. ASSUME NEW e \in Linked(b)
      PROVE  \E i \in D : node[i] = e
  <2>1. PICK i \in 0 .. n - 1 : s[i] = e
    BY DEF Lists
  <2> QED
    BY <1>2, <1>6, <2>1
<1>9. ASSUME NEW i \in D, node[i] # NULL
      PROVE  node[i] \in Linked(b)
  BY <1>6, <1>9 DEF Lists
<1>10. NULL \notin Linked(b)
  BY HashAssumption DEF Linked
<1> QED
  BY <1>1, <1>7, <1>8, <1>9, <1>10

LEMMA IntactLists == ListInv => BucketsIntact
<1> SUFFICES ASSUME ListInv, mod \in {"live", "rundown"}, NEW b \in Buckets
             PROVE  /\ Chain(b) = Linked(b)
                    /\ num[b] = Cardinality(Linked(b))
                    /\ \A d, e \in Linked(b) : ent[d].key = ent[e].key => d = e
  BY DEF BucketsIntact
<1>1. PICK s \in Orders, n \in Nat : Lists(b, s, n) /\ Held(b, s, n)
  BY DEF ListInv, Listed
<1>2. next[b] = s[0] /\ num[b] = n
  BY <1>1 DEF Held, Unflushed
<1>3. Chain(b) = Linked(b) /\ num[b] = Cardinality(Linked(b))
  BY <1>1, <1>2, ListWalk, ListLength
<1>4. \A d, e \in Linked(b) : ent[d].key = ent[e].key => d = e
  BY <1>1 DEF Lists
<1> QED
  BY <1>3, <1>4

LEMMA EmptyCache == TypeOK /\ CallInv /\ ListInv /\ OwnInv => CacheEmptyAtDestroy
<1> SUFFICES ASSUME TypeOK, CallInv, ListInv, OwnInv, mod = "gone", NEW e \in Entries
             PROVE  slab[e] = "free"
  BY DEF CacheEmptyAtDestroy
<1>1. slab[e] \notin {"private", "unlinked", "retired"}
  BY DEF CallInv, OwnInv
<1>2. slab[e] # "linked"
  <2> SUFFICES ASSUME slab[e] = "linked"
               PROVE  FALSE
    OBVIOUS
  <2>1. PICK b \in Buckets : e \in Linked(b)
    BY HashAssumption DEF OwnInv, Linked
  <2>2. PICK s \in Orders, n \in Nat : Lists(b, s, n) /\ Held(b, s, n)
    BY DEF ListInv, Listed
  <2>3. PICK i \in 0 .. n - 1 : s[i] = e
    BY <2>1, <2>2 DEF Lists
  <2>4. s[0] \in Entries
    BY <2>2, <2>3 DEF Lists, Linked
  <2> QED
    BY <2>2, <2>4, HashAssumption DEF Held
<1> QED
  BY <1>1, <1>2 DEF TypeOK, Stages

\* For any number of threads, keys, buckets and addresses: as long as the
\* file exists, a walk from a bucket's head meets exactly the entries
\* inserted and not removed, each of a different key, and num counts them.
THEOREM Intact == Spec => []BucketsIntact
  BY InvInit, InitLists, Inductive, OwnInvNext, ListInvNext, IntactLists, PTL DEF Spec

\* Likewise: pe_map_destroy leaves no object in the cache it destroys, since
\* pe_map_flush frees every entry of every list and rcu_barrier waits for
\* the callbacks of all others.
THEOREM Emptied == Spec => []CacheEmptyAtDestroy
<1>1. Inv => TypeOK /\ CallInv
  BY DEF Inv, IInv
<1> QED
  BY <1>1, InvInit, InitLists, Inductive, OwnInvNext, ListInvNext, EmptyCache, PTL DEF Spec

------------------------------------------------------------------------------
(* What a get has seen.                                                    *)

\* What the key of u's get maps to.
Now(u) == Lookup(req[u].key)

\* Whatever u can reach with its key has been the key's value.
Finds(u, R) ==
    /\ Reach(u, R)
    /\ \A e \in R : ent[e].key = req[u].key => ent[e].value \in seen[u]

\* u cannot miss its key: every node of P has it or leads on within P.
Leads(u, P) ==
    /\ cur[u] \in P
    /\ \A n \in P : n \in Entries => Safe(u, n)
    /\ \A n \in P : \/ n \in Entries /\ ent[n].key = req[u].key
                    \/ next[n] # NULL /\ next[n] \in P

Sees(u) ==
    /\ \E R \in SUBSET Entries : Finds(u, R)
    /\ NULL \in seen[u] \/ \E P \in SUBSET Nodes : Leads(u, P)

Answers(u) ==
    /\ pc[u] = "read" => Sees(u)
    /\ pc[u] = "read_unlock" => ret[u] \in seen[u]

SeenInv == \A u \in Users : Answers(u)

LEMMA OneEntry ==
    ListInv /\ mod # "oops" =>
        \A d, e \in Entries :
            /\ slab[d] = "linked" /\ slab[e] = "linked"
            /\ ent[d].key = ent[e].key /\ ent[e].key \in Keys
            => d = e
<1> SUFFICES ASSUME ListInv, mod # "oops", NEW d \in Entries, NEW e \in Entries,
                    slab[d] = "linked", slab[e] = "linked",
                    ent[d].key = ent[e].key, ent[e].key \in Keys
             PROVE  d = e
  OBVIOUS
<1>1. PICK b \in Buckets : d \in Linked(b) /\ e \in Linked(b)
  BY HashAssumption DEF Linked
<1>2. PICK s \in Orders, n \in Nat : Lists(b, s, n)
  BY DEF ListInv, Listed
<1>3. PICK i \in 0 .. n - 1 : s[i] = d
  BY <1>1, <1>2 DEF Lists
<1>4. PICK j \in 0 .. n - 1 : s[j] = e
  BY <1>1, <1>2 DEF Lists
<1> QED
  BY <1>2, <1>3, <1>4 DEF Lists

LEMMA NowFound ==
    ListInv /\ mod # "oops" =>
        \A u \in Users, e \in Entries :
            req[u].key \in Keys /\ slab[e] = "linked" /\ ent[e].key = req[u].key
            => Now(u) = ent[e].value
<1> SUFFICES ASSUME ListInv, mod # "oops", NEW u \in Users, NEW e \in Entries,
                    req[u].key \in Keys, slab[e] = "linked", ent[e].key = req[u].key
             PROVE  Now(u) = ent[e].value
  OBVIOUS
<1> DEFINE found == {x \in Entries : slab[x] = "linked" /\ ent[x].key = req[u].key}
<1>1. found = {e}
  BY OneEntry
<1>2. (CHOOSE x \in found : TRUE) = e
  BY <1>1
<1> QED
  BY <1>1, <1>2 DEF Now, Lookup

LEMMA NowAbsent ==
    \A u \in Users :
        (\A e \in Entries : slab[e] = "linked" => ent[e].key # req[u].key) => Now(u) = NULL
  BY DEF Now, Lookup

LEMMA ObserveNow ==
    ASSUME Observe, NEW u \in Users, InRcu(u)'
    PROVE  /\ Now(u)' \in seen'[u]
           /\ InRcu(u) => \A x \in seen[u] : x \in seen'[u]
  BY DEF Observe, Now

\* A step of others that changes nothing within u's reach.
LEMMA SeesKept ==
    ASSUME NEW u \in Users, Sees(u), Observe, InRcu(u), InRcu(u)',
           cur'[u] = cur[u], req'[u] = req[u],
           \A e \in Entries : slab'[e] = "linked" => slab[e] = "linked",
           \A e \in Entries : Safe(u, e) => Safe(u, e)' /\ next'[e] = next[e] /\ ent'[e] = ent[e],
           \A b \in Buckets : next'[b] = next[b]
    PROVE  Sees(u)'
<1>1. \A x \in seen[u] : x \in seen'[u]
  BY ObserveNow
<1>2. \E R \in SUBSET Entries : Finds(u, R)'
  <2>1. PICK R \in SUBSET Entries : Finds(u, R)
    BY DEF Sees
  <2>2. \A e \in R : Safe(u, e) /\ Safe(u, e)' /\ next'[e] = next[e] /\ ent'[e] = ent[e]
    BY <2>1 DEF Finds, Reach
  <2>3. Reach(u, R)'
    BY <2>1, <2>2 DEF Finds, Reach
  <2>4. Finds(u, R)'
    BY <1>1, <2>1, <2>2, <2>3 DEF Finds
  <2> QED
    BY <2>4
<1>3. ASSUME NULL \notin seen'[u]
      PROVE  \E P \in SUBSET Nodes : Leads(u, P)'
  <2>1. PICK P \in SUBSET Nodes : Leads(u, P)
    BY <1>1, <1>3 DEF Sees
  <2>2. \A n \in P : n \in Entries => Safe(u, n)' /\ ent'[n] = ent[n]
    BY <2>1 DEF Leads
  <2>3. \A n \in P : next'[n] = next[n]
    BY <2>1 DEF Leads, Nodes
  <2>4. Leads(u, P)'
    BY <2>1, <2>2, <2>3 DEF Leads
  <2> QED
    BY <2>4
<1> QED
  BY <1>2, <1>3 DEF Sees

LEMMA NowFoundThen ==
    (ListInv /\ mod # "oops" =>
        \A u \in Users, e \in Entries :
            req[u].key \in Keys /\ slab[e] = "linked" /\ ent[e].key = req[u].key
            => Now(u) = ent[e].value)'
  BY NowFound, PTL

LEMMA NowAbsentThen ==
    (\A u \in Users :
        (\A e \in Entries : slab[e] = "linked" => ent[e].key # req[u].key) => Now(u) = NULL)'
  BY NowAbsent, PTL

LEMMA OneEntryThen ==
    (ListInv /\ mod # "oops" =>
        \A d, e \in Entries :
            /\ slab[d] = "linked" /\ slab[e] = "linked"
            /\ ent[d].key = ent[e].key /\ ent[e].key \in Keys
            => d = e)'
  BY OneEntry, PTL

\* In what u reaches with R grown by what is published, each value was observed.
LEMMA FindsGrown ==
    ASSUME NEW u \in Users, NEW R \in SUBSET Entries, Finds(u, R), NEW T \in SUBSET Entries,
           Observe, InRcu(u), InRcu(u)', ListInv', mod' # "oops",
           req'[u] = req[u], req[u].key \in Keys, Reach(u, T)',
           \A e \in T : \/ slab'[e] = "linked"
                        \/ e \in R /\ ent'[e] = ent[e]
    PROVE  Finds(u, T)'
<1>1. Now(u)' \in seen'[u] /\ \A x \in seen[u] : x \in seen'[u]
  BY ObserveNow
<1>2. ASSUME NEW e \in T, ent'[e].key = req'[u].key
      PROVE  ent'[e].value \in seen'[u]
  <2>1. CASE slab'[e] = "linked"
    <3>1. (ListInv /\ mod # "oops" =>
             \A w \in Users, x \in Entries :
                req[w].key \in Keys /\ slab[x] = "linked" /\ ent[x].key = req[w].key
                => Now(w) = ent[x].value)'
      BY NowFoundThen
    <3>2. Now(u)' = ent'[e].value
      BY <1>2, <2>1, <3>1
    <3> QED
      BY <1>1, <3>2
  <2>2. CASE e \in R /\ ent'[e] = ent[e]
    BY <1>1, <1>2, <2>2 DEF Finds
  <2> QED
    BY <2>1, <2>2
<1> QED
  BY <1>2 DEF Finds

\* If no published entry has u's key, then u may fail.
LEMMA AbsentSeen ==
    ASSUME NEW u \in Users, Observe, InRcu(u)',
           \A e \in Entries : slab'[e] = "linked" => ent'[e].key # req'[u].key
    PROVE  NULL \in seen'[u]
<1>1. (\A w \in Users :
        (\A e \in Entries : slab[e] = "linked" => ent[e].key # req[w].key) => Now(w) = NULL)'
  BY NowAbsentThen
<1>2. Now(u)' = NULL
  BY <1>1
<1> QED
  BY <1>2, ObserveNow

\* From the head of the bucket a get finds its key if it is there.
LEMMA SeenStart ==
    ASSUME Inv, ListInv, Inv', ListInv', NEW u \in Users, NEW k \in Keys, GetCall(u, k), Observe
    PROVE  Sees(u)'
<1> USE HashAssumption
<1>1. /\ mod = "live" /\ UNCHANGED <<next, slab, waits, ent, pprev, mod>>
      /\ cur' = [cur EXCEPT ![u] = Hash[k]]
      /\ pc' = [pc EXCEPT ![u] = "read"]
      /\ req' = [req EXCEPT ![u] = [op |-> "get", key |-> k, value |-> NULL]]
  BY DEF GetCall, Enter, Goto, listVars, memVars
<1>2. TypeOK /\ NextInv
  BY <1>1 DEF Inv, IInv, Unflushed
<1>3. cur'[u] = Hash[k] /\ Hash[k] \in Buckets /\ Hash[k] \notin Entries /\ req'[u].key = k /\ InRcu(u)'
  BY <1>1, <1>2 DEF TypeOK, InRcu
<1> DEFINE R == {e \in Entries : slab[e] = "linked"}
<1>4. Finds(u, R)'
  <2>1. \A e \in Entries : slab[e] = "linked" /\ next[e] # NULL =>
             next[e] \in Entries /\ slab[next[e]] = "linked"
    BY <1>2 DEF NextInv, TypeOK, OnList, Nodes
  <2>2. Reach(u, R)'
    BY <1>1, <1>3, <2>1 DEF Reach, Safe
  <2>3. (ListInv /\ mod # "oops" =>
             \A w \in Users, x \in Entries :
                req[w].key \in Keys /\ slab[x] = "linked" /\ ent[x].key = req[w].key
                => Now(w) = ent[x].value)'
    BY NowFoundThen
  <2>4. \A e \in Entries : slab'[e] = "linked" /\ ent'[e].key = req'[u].key => ent'[e].value \in seen'[u]
    BY <1>1, <1>3, <2>3, ObserveNow
  <2> QED
    BY <1>1, <2>2, <2>4 DEF Finds
<1>5. ASSUME NULL \notin seen'[u]
      PROVE  \E P \in SUBSET Nodes : Leads(u, P)'
  <2>1. PICK e \in Entries : slab[e] = "linked" /\ ent[e].key = k
    BY <1>1, <1>3, <1>5, AbsentSeen
  <2> DEFINE b == Hash[k]
  <2>2. PICK s \in Orders, n \in Nat : Lists(b, s, n) /\ next[b] = s[0]
    BY <1>1, <1>3 DEF ListInv, Listed, Held, Unflushed
  <2>3. PICK j \in 0 .. n - 1 : s[j] = e
    BY <2>1, <2>2 DEF Lists, Linked
  <2> DEFINE P == {b} \cup {s[i] : i \in 0 .. j}
  <2>4. \A i \in 0 .. j : s[i] \in Entries /\ slab[s[i]] = "linked"
    BY <2>2, <2>3 DEF Lists, Linked
  <2>5. P \in SUBSET Nodes
    BY <1>3, <2>4 DEF Nodes
  <2>6. \A x \in P : x \in Entries => Safe(u, x)'
    BY <1>1, <1>3, <2>4 DEF Safe
  <2>7. next'[b] # NULL /\ next'[b] \in P
    BY <1>1, <2>2, <2>4
  <2>8. ASSUME NEW i \in 0 .. j
        PROVE  \/ s[i] \in Entries /\ ent'[s[i]].key = req'[u].key
               \/ next'[s[i]] # NULL /\ next'[s[i]] \in P
    <3>1. CASE i = j
      BY <1>1, <1>3, <2>1, <2>3, <3>1
    <3>2. CASE i < j
      <4>1. i + 1 \in 0 .. j /\ next[s[i]] = s[i + 1]
        BY <2>2, <2>3, <3>2 DEF Lists
      <4> QED
        BY <1>1, <2>4, <4>1
    <3> QED
      BY <3>1, <3>2
  <2>9. cur'[u] \in P
    BY <1>3
  <2>10. \A x \in P : \/ x \in Entries /\ ent'[x].key = req'[u].key
                      \/ next'[x] # NULL /\ next'[x] \in P
    BY <2>7, <2>8
  <2> HIDE DEF P
  <2>11. Leads(u, P)'
    BY <2>6, <2>9, <2>10 DEF Leads
  <2> QED
    BY <2>5, <2>11
<1> QED
  BY <1>1, <1>4, <1>5 DEF Sees

\* A load keeps the reader within what it reaches.
LEMMA SeenRead ==
    ASSUME Inv, NEW u \in Users, ReadNext(u), Sees(u), Observe
    PROVE  Sees(u)'
<1> USE HashAssumption
<1>1. /\ pc[u] = "read" /\ cur[u] # NULL /\ ~Found(u)
      /\ cur' = [cur EXCEPT ![u] = next[cur[u]]]
      /\ UNCHANGED <<next, slab, waits, ent, req, pc>>
  BY DEF ReadNext, listVars, memVars
<1>2. TypeOK /\ NextInv
  BY <1>1 DEF Inv, IInv, Unflushed, CallInv
<1>3. InRcu(u) /\ InRcu(u)' /\ cur'[u] = next[cur[u]] /\ cur[u] \in Nodes
  BY <1>1, <1>2 DEF TypeOK, InRcu
<1>4. \A x \in seen[u] : x \in seen'[u]
  BY <1>3, ObserveNow
<1>5. PICK R \in SUBSET Entries : Finds(u, R)
  BY DEF Sees
<1>6. Finds(u, R)'
  <2>1. cur'[u] \in Entries => cur'[u] \in R
    <3>1. CASE cur[u] \in Entries
      BY <1>3, <1>5, <3>1 DEF Finds, Reach
    <3>2. CASE cur[u] \in Buckets
      <4>1. next[cur[u]] # NULL => slab[next[cur[u]]] = "linked"
        BY <1>2, <3>2 DEF NextInv, OnList, Nodes
      <4> QED
        BY <1>3, <1>5, <4>1 DEF Finds, Reach
    <3> QED
      BY <1>3, <3>1, <3>2 DEF Nodes
  <2>2. Reach(u, R)'
    BY <1>1, <1>5, <2>1 DEF Finds, Reach, Safe
  <2> QED
    BY <1>1, <1>4, <1>5, <2>2 DEF Finds
<1>7. ASSUME NULL \notin seen'[u]
      PROVE  \E P \in SUBSET Nodes : Leads(u, P)'
  <2>1. PICK P \in SUBSET Nodes : Leads(u, P)
    BY <1>4, <1>7 DEF Sees
  <2>2. cur'[u] \in P
    BY <1>1, <1>3, <2>1 DEF Leads, Found
  <2>3. Leads(u, P)'
    BY <1>1, <2>1, <2>2 DEF Leads, Safe
  <2> QED
    BY <2>3
<1> QED
  BY <1>6, <1>7 DEF Sees

\* Where the loop ends, the result has been the key's value.
LEMMA SeenDone ==
    ASSUME Inv, NEW u \in Users, ReadDone(u), Sees(u), Observe
    PROVE  ret'[u] \in seen'[u]
<1>1. /\ pc[u] = "read" /\ pc' = [pc EXCEPT ![u] = "read_unlock"]
      /\ cur[u] = NULL \/ Found(u)
      /\ ret' = [ret EXCEPT ![u] = IF Found(u) THEN ent[cur[u]].value ELSE NULL]
  BY DEF ReadDone, Goto
<1>2. TypeOK
  BY DEF Inv, IInv
<1>3. InRcu(u) /\ InRcu(u)' /\ ret'[u] = IF Found(u) THEN ent[cur[u]].value ELSE NULL
  BY <1>1, <1>2 DEF TypeOK, InRcu
<1>4. \A x \in seen[u] : x \in seen'[u]
  BY <1>3, ObserveNow
<1>5. CASE Found(u)
  BY <1>3, <1>4, <1>5 DEF Sees, Finds, Reach, Found
<1>6. CASE ~Found(u)
  <2>1. NULL \notin Nodes /\ cur[u] = NULL
    BY <1>1, <1>6, HashAssumption DEF Nodes
  <2>2. NULL \in seen[u]
    BY <2>1 DEF Sees, Leads
  <2> QED
    BY <1>3, <1>4, <1>6, <2>2
<1> QED
  BY <1>5, <1>6

\* A get that is in its loop looks for a key.
LEMMA ReadKey ==
    Inv => \A u \in Users : pc[u] = "read" => req[u].key \in Keys /\ Unflushed
  BY DEF Inv, IInv, CallInv, Unflushed

\* A replaced entry still leads on, and its place leads to the new one.
LEMMA SeenReplace ==
    ASSUME Inv, ListInv', NEW w \in Users, InsertReplace(w), Observe,
           NEW u \in Users, u # w, pc[u] = "read", Sees(u)
    PROVE  Sees(u)'
<1> USE HashAssumption
<1>1. TypeOK /\ CallInv /\ MineInv /\ NextInv /\ PprevInv /\ WalkInv /\ Ranked /\ req[u].key \in Keys
  BY ReadKey DEF Inv, IInv
<1>2. PICK o \in Entries, m \in Entries, Q \in Nodes :
         /\ o = cur[w] /\ m = mine[w] /\ Q = pprev[o]
         /\ slab[o] = "linked" /\ slab[m] = "private"
         /\ m # o /\ Q # o /\ Q # m /\ OnList(Q) /\ next[Q] = o
         /\ next[o] # o /\ next[o] # Q /\ next[o] # m
         /\ next[o] # NULL => next[o] \in Entries /\ slab[next[o]] = "linked"
  BY <1>1, ReplacePosition DEF InsertReplace, Goto
<1>3. /\ next' = [next EXCEPT ![m] = next[o], ![Q] = m]
      /\ slab' = [slab EXCEPT ![m] = "linked", ![o] = "unlinked"]
      /\ pc' = [pc EXCEPT ![w] = "unlock"]
      /\ UNCHANGED <<ent, waits, cur, req, mod>>
  BY <1>2 DEF InsertReplace, hlist_replace_rcu, Goto
<1>4. ent[m].key = ent[o].key
  BY <1>1, <1>2 DEF InsertReplace, Goto, MineInv, Found
<1>5. pc'[u] = pc[u] /\ InRcu(u) /\ InRcu(u)' /\ mod' # "oops" /\ req'[u] = req[u]
  BY <1>1, <1>3, ReadKey DEF TypeOK, InRcu, Unflushed
<1>6. /\ next'[m] = next[o] /\ next'[Q] = m
      /\ \A x \in Nodes : x # m /\ x # Q => next'[x] = next[x]
      /\ slab'[m] = "linked" /\ slab'[o] = "unlinked"
      /\ \A x \in Entries : x # m /\ x # o => slab'[x] = slab[x]
  BY <1>1, <1>2, <1>3 DEF TypeOK, Nodes
<1>7. \A x \in Entries : Safe(u, x) => Safe(u, x)' /\ x # m
  BY <1>2, <1>3, <1>6 DEF Safe
<1>8. \E R \in SUBSET Entries : Finds(u, R)'
  <2>1. PICK R \in SUBSET Entries : Finds(u, R)
    BY DEF Sees
  <2>2. o \in R /\ \A e \in R : e # m
    BY <1>2, <1>7, <2>1 DEF Finds, Reach
  <2> DEFINE T == R \cup {m}
  <2>3. \A e \in R : Safe(u, e)' /\ (next'[e] # NULL => next'[e] \in T)
    BY <1>2, <1>6, <1>7, <2>1, <2>2 DEF Finds, Reach, Nodes
  <2>4. Safe(u, m)' /\ (next'[m] # NULL => next'[m] \in T)
    BY <1>6, <2>1, <2>2 DEF Finds, Reach, Safe
  <2>5. \A e \in Entries : slab'[e] = "linked" => e \in T
    BY <1>6, <2>1 DEF Finds, Reach
  <2>6. cur'[u] \in Entries => cur'[u] \in T
    BY <1>3, <2>1 DEF Finds, Reach
  <2>7. Reach(u, T)'
    BY <2>3, <2>4, <2>5, <2>6 DEF Reach
  <2>8. \A e \in T : slab'[e] = "linked" \/ (e \in R /\ ent'[e] = ent[e])
    BY <1>3, <1>6
  <2>9. T \in SUBSET Entries
    OBVIOUS
  <2> HIDE DEF T
  <2>10. Finds(u, T)'
    BY <1>1, <1>5, <2>1, <2>7, <2>8, <2>9, FindsGrown
  <2> QED
    BY <2>9, <2>10
<1>9. ASSUME NULL \notin seen'[u]
      PROVE  \E P \in SUBSET Nodes : Leads(u, P)'
  <2>1. PICK P \in SUBSET Nodes : Leads(u, P)
    BY <1>5, <1>9, ObserveNow DEF Sees
  <2>2. m \notin P
    BY <1>7, <2>1 DEF Leads
  <2> DEFINE T == IF o \in P THEN P \cup {m} ELSE P
  <2>3. T \in SUBSET Nodes /\ cur'[u] \in T
    BY <1>3, <2>1 DEF Leads, Nodes
  <2>4. \A x \in T : x \in Entries => Safe(u, x)'
    BY <1>6, <1>7, <2>1 DEF Leads, Safe
  <2>5. ASSUME NEW x \in P
        PROVE  \/ x \in Entries /\ ent'[x].key = req'[u].key
               \/ next'[x] # NULL /\ next'[x] \in T
    <3>1. CASE x \in Entries /\ ent[x].key = req[u].key
      BY <1>3, <3>1
    <3>2. CASE next[x] # NULL /\ next[x] \in P
      <4>1. CASE x = Q
        BY <1>2, <1>6, <3>2, <4>1
      <4>2. CASE x # Q
        BY <1>6, <2>2, <3>2, <4>2
      <4> QED
        BY <4>1, <4>2
    <3> QED
      BY <2>1, <3>1, <3>2 DEF Leads
  <2>6. ASSUME o \in P
        PROVE  \/ m \in Entries /\ ent'[m].key = req'[u].key
               \/ next'[m] # NULL /\ next'[m] \in T
    <3>1. ent[o].key = req[u].key \/ (next[o] # NULL /\ next[o] \in P)
      BY <2>1, <2>6 DEF Leads
    <3>2. ent'[m].key = ent[o].key /\ req'[u] = req[u] /\ next'[m] = next[o]
      BY <1>3, <1>4, <1>6
    <3>3. P \in SUBSET T
      OBVIOUS
    <3> HIDE DEF T
    <3> QED
      BY <3>1, <3>2, <3>3
  <2>7. \A x \in T : \/ x \in Entries /\ ent'[x].key = req'[u].key
                     \/ next'[x] # NULL /\ next'[x] \in T
    BY <2>5, <2>6
  <2> HIDE DEF T
  <2>8. Leads(u, T)'
    BY <2>3, <2>4, <2>7 DEF Leads
  <2> QED
    BY <2>3, <2>8
<1> QED
  BY <1>8, <1>9 DEF Sees

\* An entry added in front leads to what was in front.
LEMMA SeenAdd ==
    ASSUME Inv, ListInv', NEW w \in Users, InsertAdd(w), Observe,
           NEW u \in Users, u # w, pc[u] = "read", Sees(u)
    PROVE  Sees(u)'
<1> USE HashAssumption
<1>1. TypeOK /\ CallInv /\ MineInv /\ NextInv /\ req[u].key \in Keys
  BY ReadKey DEF Inv, IInv
<1>2. PICK m \in Entries, b \in Buckets :
         /\ m # b /\ slab[m] = "private"
         /\ next[b] # NULL => next[b] \in Entries /\ slab[next[b]] = "linked"
         /\ next[b] # m
         /\ next' = [next EXCEPT ![m] = next[b], ![b] = m]
         /\ slab' = [slab EXCEPT ![m] = "linked"]
         /\ UNCHANGED ent
  <2>1. PICK m, b : m = mine[w] /\ b = Bucket(w)
    OBVIOUS
  <2> QED
    BY <1>1, <2>1, AddPosition
<1>3. /\ pc' = [pc EXCEPT ![w] = "unlock"]
      /\ UNCHANGED <<waits, cur, req, mod>>
  BY DEF InsertAdd, Goto
<1>5. pc'[u] = pc[u] /\ InRcu(u) /\ InRcu(u)' /\ mod' # "oops" /\ req'[u] = req[u]
  BY <1>1, <1>3, ReadKey DEF TypeOK, InRcu, Unflushed
<1>6. /\ next'[m] = next[b] /\ next'[b] = m
      /\ \A x \in Nodes : x # m /\ x # b => next'[x] = next[x]
      /\ slab'[m] = "linked"
      /\ \A x \in Entries : x # m => slab'[x] = slab[x]
  BY <1>1, <1>2, <1>3 DEF TypeOK, Nodes
<1>7. \A x \in Entries : Safe(u, x) => Safe(u, x)' /\ x # m
  BY <1>2, <1>3, <1>6 DEF Safe
<1>8. \E R \in SUBSET Entries : Finds(u, R)'
  <2>1. PICK R \in SUBSET Entries : Finds(u, R)
    BY DEF Sees
  <2>2. \A e \in R : e # m /\ e # b
    BY <1>7, <2>1 DEF Finds, Reach
  <2> DEFINE T == R \cup {m}
  <2>3. \A e \in R : Safe(u, e)' /\ (next'[e] # NULL => next'[e] \in T)
    BY <1>6, <1>7, <2>1, <2>2 DEF Finds, Reach, Nodes
  <2>4. Safe(u, m)' /\ (next'[m] # NULL => next'[m] \in T)
    BY <1>2, <1>6, <2>1 DEF Finds, Reach, Safe
  <2>5. \A e \in Entries : slab'[e] = "linked" => e \in T
    BY <1>6, <2>1 DEF Finds, Reach
  <2>6. cur'[u] \in Entries => cur'[u] \in T
    BY <1>3, <2>1 DEF Finds, Reach
  <2>7. Reach(u, T)'
    BY <2>3, <2>4, <2>5, <2>6 DEF Reach
  <2>8. \A e \in T : slab'[e] = "linked" \/ (e \in R /\ ent'[e] = ent[e])
    BY <1>2, <1>6
  <2>9. T \in SUBSET Entries
    OBVIOUS
  <2> HIDE DEF T
  <2>10. Finds(u, T)'
    BY <1>1, <1>5, <2>1, <2>7, <2>8, <2>9, FindsGrown
  <2> QED
    BY <2>9, <2>10
<1>9. ASSUME NULL \notin seen'[u]
      PROVE  \E P \in SUBSET Nodes : Leads(u, P)'
  <2>1. PICK P \in SUBSET Nodes : Leads(u, P)
    BY <1>5, <1>9, ObserveNow DEF Sees
  <2>2. m \notin P
    BY <1>7, <2>1 DEF Leads
  <2> DEFINE T == IF b \in P THEN P \cup {m} ELSE P
  <2>3. T \in SUBSET Nodes /\ cur'[u] \in T
    BY <1>3, <2>1 DEF Leads, Nodes
  <2>4. \A x \in T : x \in Entries => Safe(u, x)'
    BY <1>6, <1>7, <2>1 DEF Leads, Safe
  <2>5. ASSUME NEW x \in P
        PROVE  \/ x \in Entries /\ ent'[x].key = req'[u].key
               \/ next'[x] # NULL /\ next'[x] \in T
    <3>1. CASE x = b
      BY <1>6, <3>1, HashAssumption
    <3>2. CASE x # b
      <4>1. next'[x] = next[x]
        BY <1>6, <2>2, <3>2
      <4>2. P \in SUBSET T
        OBVIOUS
      <4> HIDE DEF T
      <4>3. UNCHANGED <<ent, req>>
        BY <1>2, <1>3
      <4> QED
        BY <2>1, <4>1, <4>2, <4>3 DEF Leads
    <3> QED
      BY <3>1, <3>2
  <2>6. ASSUME b \in P
        PROVE  next'[m] # NULL /\ next'[m] \in T
    BY <1>2, <1>6, <2>1, <2>6 DEF Leads
  <2>7. \A x \in T : \/ x \in Entries /\ ent'[x].key = req'[u].key
                     \/ next'[x] # NULL /\ next'[x] \in T
    BY <2>5, <2>6
  <2> HIDE DEF T
  <2>8. Leads(u, T)'
    BY <2>3, <2>4, <2>7 DEF Leads
  <2> QED
    BY <2>3, <2>8
<1> QED
  BY <1>8, <1>9 DEF Sees

\* Either the key is absent once its entry is out, or the way goes past the
\* entry that is taken out.
LEMMA SeenRemove ==
    ASSUME Inv, ListInv, ListInv', NEW w \in Users, RemoveFound(w), Observe,
           NEW u \in Users, u # w, pc[u] = "read", Sees(u)
    PROVE  Sees(u)'
<1> USE HashAssumption
<1>1. TypeOK /\ CallInv /\ MineInv /\ NextInv /\ PprevInv /\ WalkInv /\ Ranked /\ req[u].key \in Keys
  BY ReadKey DEF Inv, IInv
<1>2. PICK o \in Entries, Q \in Nodes :
         /\ o = cur[w] /\ Q = pprev[o]
         /\ slab[o] = "linked"
         /\ Q # o /\ OnList(Q) /\ next[Q] = o
         /\ next[o] # o /\ next[o] # Q
  BY <1>1, Position DEF RemoveFound, Goto
<1>3. /\ next' = [next EXCEPT ![Q] = next[o]]
      /\ slab' = [slab EXCEPT ![o] = "unlinked"]
      /\ pc' = [pc EXCEPT ![w] = "unlock"]
      /\ UNCHANGED <<ent, waits, cur, req, mod>>
  BY <1>2 DEF RemoveFound, hlist_del_rcu, Goto
<1>5. pc'[u] = pc[u] /\ InRcu(u) /\ InRcu(u)' /\ mod # "oops" /\ req'[u] = req[u]
  BY <1>1, <1>3, ReadKey DEF TypeOK, InRcu, Unflushed
<1>6. /\ next'[Q] = next[o] /\ \A x \in Nodes : x # Q => next'[x] = next[x]
      /\ slab'[o] = "unlinked" /\ \A x \in Entries : x # o => slab'[x] = slab[x]
  BY <1>1, <1>2, <1>3 DEF TypeOK, Nodes
<1>7. \A x \in Entries : Safe(u, x) => Safe(u, x)'
  BY <1>3, <1>6 DEF Safe
<1>8. \E R \in SUBSET Entries : Finds(u, R)'
  <2>1. PICK R \in SUBSET Entries : Finds(u, R)
    BY DEF Sees
  <2>2. o \in R
    BY <1>2, <2>1 DEF Finds, Reach
  <2>3. \A e \in R : Safe(u, e)' /\ (next'[e] # NULL => next'[e] \in R)
    BY <1>6, <1>7, <2>1, <2>2 DEF Finds, Reach, Nodes
  <2>4. Reach(u, R)'
    BY <1>3, <1>6, <2>1, <2>3 DEF Finds, Reach
  <2>5. \A e \in R : ent'[e] = ent[e]
    BY <1>3
  <2>6. Finds(u, R)'
    BY <1>1, <1>3, <1>5, <2>1, <2>4, <2>5, FindsGrown
  <2> QED
    BY <2>6
<1>9. ASSUME NULL \notin seen'[u]
      PROVE  \E P \in SUBSET Nodes : Leads(u, P)'
  <2>1. PICK P \in SUBSET Nodes : Leads(u, P)
    BY <1>5, <1>9, ObserveNow DEF Sees
  <2>2. ent[o].key # req[u].key
    <3> SUFFICES ASSUME ent[o].key = req[u].key
                 PROVE  FALSE
      OBVIOUS
    <3>1. \A e \in Entries : slab'[e] = "linked" => ent'[e].key # req'[u].key
      BY <1>1, <1>2, <1>3, <1>5, <1>6, OneEntry
    <3> QED
      BY <1>5, <1>9, <3>1, AbsentSeen
  <2>3. ASSUME NEW x \in P
        PROVE  \/ x \in Entries /\ ent'[x].key = req'[u].key
               \/ next'[x] # NULL /\ next'[x] \in P
    <3>1. CASE x = Q
      BY <1>2, <1>3, <1>6, <2>1, <2>2, <3>1 DEF Leads
    <3>2. CASE x # Q
      BY <1>3, <1>6, <2>1, <3>2 DEF Leads
    <3> QED
      BY <3>1, <3>2
  <2>4. Leads(u, P)'
    BY <1>3, <1>7, <2>1, <2>3 DEF Leads
  <2> QED
    BY <2>4
<1> QED
  BY <1>8, <1>9 DEF Sees

\* Nothing happens to u or to what u can reach.
Quiet(u) ==
    InRcu(u)' => /\ pc'[u] = pc[u] /\ cur'[u] = cur[u] /\ req'[u] = req[u] /\ ret'[u] = ret[u]
                 /\ \A e \in Entries : slab'[e] = "linked" => slab[e] = "linked"
                 /\ \A e \in Entries : Safe(u, e) => Safe(u, e)' /\ next'[e] = next[e] /\ ent'[e] = ent[e]
                 /\ \A b \in Buckets : next'[b] = next[b]

LEMMA QuietAnswers ==
    ASSUME NEW u \in Users, Quiet(u), Observe, Answers(u)
    PROVE  Answers(u)'
<1>1. CASE pc'[u] = "read"
  <2>1. Sees(u) /\ InRcu(u) /\ InRcu(u)'
    BY <1>1 DEF Quiet, Answers, InRcu
  <2>2. Sees(u)'
    BY <2>1, SeesKept DEF Quiet
  <2> QED
    BY <1>1, <2>2 DEF Answers
<1>2. CASE pc'[u] = "read_unlock"
  <2>1. ret[u] \in seen[u] /\ ret'[u] = ret[u] /\ InRcu(u) /\ InRcu(u)'
    BY <1>2 DEF Quiet, Answers, InRcu
  <2> QED
    BY <1>2, <2>1, ObserveNow DEF Answers
<1>3. CASE ~InRcu(u)'
  BY <1>3 DEF Answers, InRcu
<1> QED
  BY <1>1, <1>2, <1>3 DEF InRcu

LEMMA SeenNext == Inv /\ Inv' /\ ListInv /\ ListInv' /\ SeenInv /\ [HistoryNext]_<<vars, seen>> => SeenInv'
<1> SUFFICES ASSUME Inv, Inv', ListInv, ListInv', SeenInv, [HistoryNext]_<<vars, seen>>,
                    NEW u \in Users
             PROVE  Answers(u)'
  BY DEF SeenInv
<1> USE HashAssumption DEF listVars, memVars, callVars
<1>0. Answers(u)
  BY DEF SeenInv
<1>a. TypeOK /\ CallInv /\ (Unflushed => MineInv)
  BY DEF Inv, IInv
<1>b. CASE UNCHANGED <<vars, seen>>
  BY <1>0, <1>b DEF vars, Answers, Sees, Finds, Leads, Reach, Safe
<1>c. CASE HistoryNext
  <2> USE <1>c
  <2>0. Next /\ Observe
    BY DEF HistoryNext
  \* A writer's change to a list, to the readers.
  <2>a. ASSUME NEW w \in Users, pc' = [pc EXCEPT ![w] = "unlock"], UNCHANGED ret, pc[w] = "walk",
               u # w /\ pc[u] = "read" => Sees(u)'
        PROVE  Answers(u)'
    <3>1. CASE u = w
      BY <1>a, <2>a, <3>1 DEF TypeOK, Answers
    <3>2. CASE u # w
      <4>1. pc'[u] = pc[u] /\ ret'[u] = ret[u]
        BY <1>a, <2>a, <3>2 DEF TypeOK
      <4>2. pc[u] = "read_unlock" => ret'[u] \in seen'[u]
        BY <1>0, <2>0, <4>1, ObserveNow DEF Answers, InRcu
      <4> QED
        BY <2>a, <3>2, <4>1, <4>2 DEF Answers
    <3> QED
      BY <3>1, <3>2
  <2>1. ASSUME NEW w \in Users, NEW k \in Keys, NEW v \in Values, InsertAlloc(w, k, v)
        PROVE  Answers(u)'
    <3>1. UNCHANGED <<next, waits, cur, ret>>
      BY <2>1 DEF InsertAlloc
    <3>2. pc[w] = "idle" /\ (pc' = [pc EXCEPT ![w] = "idle"] \/ pc' = [pc EXCEPT ![w] = "lock"])
      BY <2>1 DEF InsertAlloc, Goto
    <3>3. InRcu(u)' => u # w /\ pc'[u] = pc[u]
      BY <1>a, <3>2 DEF TypeOK, InRcu
    <3>4. req' = req \/ req' = [req EXCEPT ![w] = [op |-> "insert", key |-> k, value |-> v]]
      BY <2>1 DEF InsertAlloc
    <3>5. \/ UNCHANGED <<slab, ent>>
          \/ \E e \in Entries : /\ slab[e] = "free" /\ slab' = [slab EXCEPT ![e] = "private"]
                                /\ ent' = [ent EXCEPT ![e] = [key |-> k, value |-> v]]
      BY <2>1 DEF InsertAlloc
    <3>6. \A e \in Entries : slab[e] # "free" \/ slab'[e] = "linked" => slab'[e] = slab[e] /\ ent'[e] = ent[e]
      BY <1>a, <3>5 DEF TypeOK
    <3>7. Quiet(u)
      BY <1>a, <3>1, <3>3, <3>4, <3>6 DEF TypeOK, Quiet, Safe
    <3> QED
      BY <1>0, <2>0, <3>7, QuietAnswers
  <2>2. ASSUME NEW w \in Users, NEW k \in Keys, RemoveCall(w, k)
        PROVE  Answers(u)'
    <3>1. UNCHANGED <<next, waits, slab, ent, cur, ret>>
      BY <2>2 DEF RemoveCall
    <3>2. InRcu(u)' => pc'[u] = pc[u] /\ req'[u] = req[u]
      BY <1>a, <2>2 DEF TypeOK, RemoveCall, Goto, InRcu
    <3>3. Quiet(u)
      BY <3>1, <3>2 DEF Quiet, Safe
    <3> QED
      BY <1>0, <2>0, <3>3, QuietAnswers
  <2>3. ASSUME NEW w \in Users, NEW k \in Keys, GetCall(w, k)
        PROVE  Answers(u)'
    <3>1. CASE u = w
      <4>1. Sees(u)'
        BY <2>0, <2>3, <3>1, SeenStart
      <4>2. pc'[u] = "read"
        BY <1>a, <2>3, <3>1 DEF TypeOK, GetCall, Goto
      <4> QED
        BY <4>1, <4>2 DEF Answers
    <3>2. CASE u # w
      <4>1. UNCHANGED <<next, waits, slab, ent, ret>>
        BY <2>3 DEF GetCall
      <4>2. pc'[u] = pc[u] /\ req'[u] = req[u] /\ cur'[u] = cur[u]
        BY <1>a, <2>3, <3>2 DEF TypeOK, GetCall, Goto
      <4>3. Quiet(u)
        BY <4>1, <4>2 DEF Quiet, Safe
      <4> QED
        BY <1>0, <2>0, <4>3, QuietAnswers
    <3> QED
      BY <3>1, <3>2
  <2>4. ASSUME NEW w \in Users, Lock(w) \/ Walk(w) \/ RemoveMissing(w) \/ Unlock(w)
        PROVE  Answers(u)'
    <3>1. UNCHANGED <<next, waits, slab, ent, ret>>
      BY <2>4 DEF Lock, Walk, RemoveMissing, Unlock
    <3>2. InRcu(u)' => pc'[u] = pc[u] /\ req'[u] = req[u] /\ cur'[u] = cur[u]
      BY <1>a, <2>4 DEF TypeOK, Lock, Walk, RemoveMissing, Unlock, Goto, InRcu
    <3>3. Quiet(u)
      BY <3>1, <3>2 DEF Quiet, Safe
    <3> QED
      BY <1>0, <2>0, <3>3, QuietAnswers
  <2>5. ASSUME NEW w \in Users, InsertReplace(w)
        PROVE  Answers(u)'
    <3>1. u # w /\ pc[u] = "read" => Sees(u)'
      BY <1>0, <2>0, <2>5, SeenReplace DEF Answers
    <3> QED
      BY <2>a, <2>5, <3>1 DEF InsertReplace, Goto
  <2>6. ASSUME NEW w \in Users, InsertAdd(w)
        PROVE  Answers(u)'
    <3>1. u # w /\ pc[u] = "read" => Sees(u)'
      BY <1>0, <2>0, <2>6, SeenAdd DEF Answers
    <3> QED
      BY <2>a, <2>6, <3>1 DEF InsertAdd, Goto
  <2>7. ASSUME NEW w \in Users, RemoveFound(w)
        PROVE  Answers(u)'
    <3>1. u # w /\ pc[u] = "read" => Sees(u)'
      BY <1>0, <2>0, <2>7, SeenRemove DEF Answers
    <3> QED
      BY <2>a, <2>7, <3>1 DEF RemoveFound, Goto
  <2>8. ASSUME NEW w \in Users, Retire(w)
        PROVE  Answers(u)'
    <3>1. pc[w] = "retire" /\ pc' = [pc EXCEPT ![w] = "idle"] /\ Unflushed
      BY <1>a, <2>8 DEF Retire, Goto, CallInv, Unflushed
    <3>2. /\ slab[mine[w]] = "unlinked" /\ mine[w] \in Entries
          /\ slab' = [slab EXCEPT ![mine[w]] = "retired"]
          /\ waits' = [waits EXCEPT ![mine[w]] = Readers]
          /\ UNCHANGED <<next, ent, cur, req, ret>>
      BY <1>a, <2>8, <3>1 DEF Retire, call_rcu, MineInv
    <3>3. InRcu(u)' => InRcu(u) /\ pc'[u] = pc[u]
      BY <1>a, <3>1 DEF TypeOK, InRcu
    <3>4. InRcu(u) => \A e \in Entries : Safe(u, e) => Safe(u, e)'
      BY <1>a, <3>2 DEF TypeOK, Safe, Readers
    <3>5. Quiet(u)
      BY <1>a, <3>2, <3>3, <3>4 DEF TypeOK, Quiet
    <3> QED
      BY <1>0, <2>0, <3>5, QuietAnswers
  <2>9. ASSUME NEW w \in Users, ReadNext(w)
        PROVE  Answers(u)'
    <3>1. pc[w] = "read" /\ UNCHANGED <<next, waits, slab, ent, ret, pc, req>>
      BY <2>9 DEF ReadNext
    <3>2. CASE u = w
      <4>1. Sees(u)'
        BY <1>0, <2>0, <2>9, <3>1, <3>2, SeenRead DEF Answers
      <4> QED
        BY <3>1, <3>2, <4>1 DEF Answers
    <3>3. CASE u # w
      <4>1. cur'[u] = cur[u]
        BY <1>a, <2>9, <3>3 DEF TypeOK, ReadNext
      <4>2. Quiet(u)
        BY <3>1, <4>1 DEF Quiet, Safe
      <4> QED
        BY <1>0, <2>0, <4>2, QuietAnswers
    <3> QED
      BY <3>2, <3>3
  <2>10. ASSUME NEW w \in Users, ReadDone(w)
         PROVE  Answers(u)'
    <3>1. pc[w] = "read" /\ pc' = [pc EXCEPT ![w] = "read_unlock"]
      BY <2>10 DEF ReadDone, Goto
    <3>2. CASE u = w
      <4>1. ret'[u] \in seen'[u]
        BY <1>0, <2>0, <2>10, <3>1, <3>2, SeenDone DEF Answers
      <4> QED
        BY <1>a, <3>1, <3>2, <4>1 DEF TypeOK, Answers
    <3>3. CASE u # w
      <4>1. UNCHANGED <<next, waits, slab, ent, req, cur>>
        BY <2>10 DEF ReadDone
      <4>2. pc'[u] = pc[u] /\ ret'[u] = ret[u]
        BY <1>a, <2>10, <3>1, <3>3 DEF TypeOK, ReadDone
      <4>3. Quiet(u)
        BY <4>1, <4>2 DEF Quiet, Safe
      <4> QED
        BY <1>0, <2>0, <4>3, QuietAnswers
    <3> QED
      BY <3>2, <3>3
  <2>11. ASSUME NEW w \in Users, ReadUnlock(w)
         PROVE  Answers(u)'
    <3>1. /\ pc' = [pc EXCEPT ![w] = "idle"] /\ cur' = [cur EXCEPT ![w] = NULL]
          /\ req' = [req EXCEPT ![w] = NoRequest] /\ ret' = [ret EXCEPT ![w] = NULL]
          /\ \A e \in Entries : waits'[e] = waits[e] \ {w}
          /\ UNCHANGED <<next, slab, ent>>
      BY <2>11 DEF ReadUnlock, Goto, rcu_read_unlock
    <3>2. InRcu(u)' => u # w
      BY <1>a, <3>1 DEF TypeOK, InRcu
    <3>3. Quiet(u)
      BY <1>a, <3>1, <3>2 DEF TypeOK, Quiet, Safe
    <3> QED
      BY <1>0, <2>0, <3>3, QuietAnswers
  <2>12. ASSUME NEW e \in Entries, pe_entry_free_rcu(e)
         PROVE  Answers(u)'
    <3>1. UNCHANGED <<pc, cur, req, ret, waits>>
      BY <2>12 DEF pe_entry_free_rcu
    <3>2. slab'[e] = "free" /\ ~Safe(u, e)
      BY <1>a, <2>12 DEF TypeOK, Safe, pe_entry_free_rcu, kmem_cache_free
    <3>3. \A x \in Nodes : x # e => next'[x] = next[x]
      BY <1>a, <2>12 DEF TypeOK, pe_entry_free_rcu
    <3>4. \A x \in Entries : x # e => slab'[x] = slab[x] /\ ent'[x] = ent[x]
      BY <1>a, <2>12 DEF TypeOK, pe_entry_free_rcu, kmem_cache_free
    <3>5. Quiet(u)
      BY <3>1, <3>2, <3>3, <3>4 DEF Quiet, Safe, Nodes
    <3> QED
      BY <1>0, <2>0, <3>5, QuietAnswers
  <2>13. CASE Module
    <3>1. \/ UNCHANGED <<next, waits, slab, ent, pc, cur, req, ret>>
          \/ UNCHANGED pc /\ mod \in {"detach", "free"}
      BY <2>13 DEF Module, ModuleInit, CreateEntry, RemoveProcEntry, Rundown, FlushAlloc, FlushDetach,
                   synchronize_rcu, rcu_barrier, FlushFree, kmem_cache_destroy
    <3>2. mod \in {"detach", "free"} => pc[u] = "idle"
      BY <1>a DEF CallInv
    <3>3. Quiet(u)
      BY <3>1, <3>2 DEF Quiet, Safe, InRcu
    <3> QED
      BY <1>0, <2>0, <3>3, QuietAnswers
  <2> QED
    BY <2>0, <2>1, <2>2, <2>3, <2>4, <2>5, <2>6, <2>7, <2>8, <2>9, <2>10, <2>11, <2>12, <2>13 DEF Next, Call
<1> QED
  BY <1>b, <1>c

\* For any number of threads, keys, buckets and addresses: what pe_map_get
\* returns was the key's value, or the key's absence, at some moment
\* between its call and its return, whatever writers do around it.
THEOREM Linearizable == HistorySpec => []GetLinearizable
<1>1. HistoryInit => Inv /\ ListInv /\ OwnInv /\ SeenInv
  <2>1. HistoryInit => SeenInv
    BY DEF HistoryInit, Init, SeenInv, Answers
  <2> QED
    BY <2>1, InvInit, InitLists DEF HistoryInit
<1>2. [HistoryNext]_<<vars, seen>> => [Next]_vars
  BY DEF HistoryNext
<1>3. Inv /\ ListInv /\ OwnInv /\ SeenInv /\ [HistoryNext]_<<vars, seen>> => (Inv /\ ListInv /\ OwnInv /\ SeenInv)'
  BY <1>2, Inductive, OwnInvNext, ListInvNext, SeenNext
<1>4. SeenInv => GetLinearizable
  BY DEF SeenInv, Answers, GetLinearizable
<1> QED
  BY <1>1, <1>3, <1>4, PTL DEF HistorySpec
=============================================================================
