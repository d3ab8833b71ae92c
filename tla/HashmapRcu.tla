----------------------------- MODULE HashmapRcu -----------------------------
(***************************************************************************)
(* module/proc_entry_hashmap2: a kernel module that offers a hash map      *)
(* through a file of /proc.  A bucket is an hlist; writers take the        *)
(* bucket's spinlock, readers only rcu_read_lock().  An entry that leaves  *)
(* a list is freed by an RCU callback, or by pe_map_flush when the module  *)
(* is unloaded.                                                            *)
(*                                                                         *)
(* A step is one write that a reader can see, or one load by a reader; the *)
(* computation up to the next such point goes with it.                     *)
(***************************************************************************)
EXTENDS Integers, FiniteSets

CONSTANTS
    Users,          \* threads that call entry_read and entry_write
    Keys, Values,
    Buckets,
    Hash,           \* Hash[k]: the bucket of key k
    Entries,        \* addresses that the slab cache can hand out
    NULL,
    MaxCalls        \* bound: calls of all threads together

ASSUME HashAssumption ==
    /\ Hash \in [Keys -> Buckets]
    /\ NULL \notin Entries \cup Buckets \cup Users
    /\ Entries \cap Buckets = {}
    /\ MaxCalls \in Nat

ASSUME FiniteAssumption == IsFiniteSet(Entries)

VARIABLES
    next,           \* next[n]: head.first of bucket n, hlist.next of entry n
    pprev,          \* pprev[e]: the node whose next field hlist.pprev points to
    num, lock,      \* of each bucket: the counter, the owner of the spinlock
    ent,            \* the key and value stored in an entry
    slab,           \* what an entry is: see Stages
    waits,          \* RCU: the readers that the callback of an entry waits for
    calls,          \* how many calls were made
    pc,             \* what each thread does next
    req,            \* its request: operation, key, value
    cur,            \* its entry (or, at the start of a get, bucket) under the cursor
    mine,           \* its new_entry before, its old_entry after the list is changed
    ret,            \* what its last get returned: a value, or NULL for -1
    mod,            \* how far the module is loaded or unloaded
    heads           \* pe_map_flush's copies of the list heads

listVars == <<next, pprev, num>>
memVars == <<ent, slab, waits>>
callVars == <<calls, pc, req, cur, mine, ret>>
vars == <<next, pprev, num, lock, ent, slab, waits, calls, pc, req, cur, mine, ret,
          mod, heads>>

\* An entry is free, allocated but not published, on a list, off the list
\* with readers perhaps still on it, or handed to call_rcu.
Stages == {"free", "private", "linked", "unlinked", "retired"}

Nodes == Buckets \cup Entries

NoRequest == [op |-> NULL, key |-> NULL, value |-> NULL]

Bucket(u) == Hash[req[u].key]

InRcu(u) == pc[u] \in {"read", "read_unlock"}

Init ==
    /\ next = [n \in Nodes |-> NULL]
    /\ pprev = [e \in Entries |-> NULL]
    /\ num = [b \in Buckets |-> 0]
    /\ lock = [b \in Buckets |-> NULL]
    /\ ent = [e \in Entries |-> [key |-> NULL, value |-> NULL]]
    /\ slab = [e \in Entries |-> "free"]
    /\ waits = [e \in Entries |-> {}]
    /\ calls = 0
    /\ pc = [u \in Users |-> "idle"]
    /\ req = [u \in Users |-> NoRequest]
    /\ cur = [u \in Users |-> NULL]
    /\ mine = [u \in Users |-> NULL]
    /\ ret = [u \in Users |-> NULL]
    /\ mod = "none"
    /\ heads = [b \in Buckets |-> NULL]

Goto(u, from, to) == pc[u] = from /\ pc' = [pc EXCEPT ![u] = to]

------------------------------------------------------------------------------
(* <linux/rculist.h>.  *pprev is  next[pprev[e]] .                         *)

hlist_add_head_rcu(e, b) ==
    /\ next' = [next EXCEPT ![e] = next[b], ![b] = e]
    /\ pprev' = [x \in Entries |-> IF x = e THEN b
                                   ELSE IF x = next[b] THEN e ELSE pprev[x]]

hlist_replace_rcu(o, e) ==
    /\ next' = [next EXCEPT ![e] = next[o], ![pprev[o]] = e]
    /\ pprev' = [x \in Entries |-> IF x = e THEN pprev[o]
                                   ELSE IF x = next[o] THEN e
                                   ELSE IF x = o THEN NULL ELSE pprev[x]]

\* The entry taken out keeps its own next: a reader on it can go on.
hlist_del_rcu(e) ==
    /\ next' = [next EXCEPT ![pprev[e]] = next[e]]
    /\ pprev' = [x \in Entries |-> IF x = e THEN NULL
                                   ELSE IF x = next[e] THEN pprev[e] ELSE pprev[x]]

Readers == {u \in Users : InRcu(u)}

\* call_rcu: the callback runs after every read-side critical section of now.
call_rcu(e) ==
    /\ slab' = [slab EXCEPT ![e] = "retired"]
    /\ waits' = [waits EXCEPT ![e] = Readers]

rcu_read_unlock(u) == waits' = [e \in Entries |-> waits[e] \ {u}]

\* What a free object holds is not specified: NULL.
kmem_cache_free(e) ==
    /\ slab' = [slab EXCEPT ![e] = "free"]
    /\ ent' = [ent EXCEPT ![e] = [key |-> NULL, value |-> NULL]]

\* The end of some grace period: the callback pe_entry_free_rcu.
pe_entry_free_rcu(e) ==
    /\ slab[e] = "retired" /\ waits[e] = {}
    /\ kmem_cache_free(e)
    /\ next' = [next EXCEPT ![e] = NULL]
    /\ UNCHANGED <<pprev, num, lock, waits, callVars, mod, heads>>

------------------------------------------------------------------------------
(* entry_write and entry_read.  A call that is refused (wrong size, wrong  *)
(* operation, bad address) returns -1 and changes nothing.                 *)

\* A thread enters the file's write or read handler.
Enter ==
    /\ mod = "live"
    /\ calls < MaxCalls
    /\ calls' = calls + 1

\* pe_map_insert up to its spin_lock_bh; kmem_cache_alloc may fail.
InsertAlloc(u, k, v) ==
    /\ Enter
    /\ \/ /\ Goto(u, "idle", "idle")
          /\ UNCHANGED <<ent, slab, req, mine>>
       \/ \E e \in Entries :
            /\ Goto(u, "idle", "lock")
            /\ slab[e] = "free"
            /\ slab' = [slab EXCEPT ![e] = "private"]
            /\ ent' = [ent EXCEPT ![e] = [key |-> k, value |-> v]]
            /\ req' = [req EXCEPT ![u] = [op |-> "insert", key |-> k, value |-> v]]
            /\ mine' = [mine EXCEPT ![u] = e]
    /\ UNCHANGED <<listVars, lock, waits, cur, ret, mod, heads>>

RemoveCall(u, k) ==
    /\ Enter
    /\ req' = [req EXCEPT ![u] = [op |-> "remove", key |-> k, value |-> NULL]]
    /\ Goto(u, "idle", "lock")
    /\ UNCHANGED <<listVars, lock, memVars, cur, mine, ret, mod, heads>>

\* Mutant: writers do not wait for each other.
LockNoWait(u) ==
    /\ Goto(u, "lock", "walk")
    /\ lock' = [lock EXCEPT ![Bucket(u)] = u]
    /\ cur' = [cur EXCEPT ![u] = next[Bucket(u)]]
    /\ UNCHANGED <<listVars, memVars, calls, req, mine, ret, mod, heads>>

\* spin_lock_bh, and the first entry of the loop.
Lock(u) ==
    /\ Goto(u, "lock", "walk")
    /\ lock[Bucket(u)] = NULL
    /\ lock' = [lock EXCEPT ![Bucket(u)] = u]
    /\ cur' = [cur EXCEPT ![u] = next[Bucket(u)]]
    /\ UNCHANGED <<listVars, memVars, calls, req, mine, ret, mod, heads>>

Found(u) == cur[u] \in Entries /\ ent[cur[u]].key = req[u].key

Walk(u) ==
    /\ pc[u] = "walk"
    /\ cur[u] # NULL /\ ~Found(u)
    /\ cur' = [cur EXCEPT ![u] = next[cur[u]]]
    /\ UNCHANGED <<listVars, lock, memVars, pc, calls, req, mine, ret, mod, heads>>

\* The key is there: the new entry takes the place of the old one.
InsertReplace(u) ==
    /\ req[u].op = "insert" /\ Found(u)
    /\ Goto(u, "walk", "unlock")
    /\ hlist_replace_rcu(cur[u], mine[u])
    /\ slab' = [slab EXCEPT ![mine[u]] = "linked", ![cur[u]] = "unlinked"]
    /\ mine' = [mine EXCEPT ![u] = cur[u]]
    /\ UNCHANGED <<num, lock, ent, waits, calls, req, cur, ret, mod, heads>>

InsertAdd(u) ==
    /\ req[u].op = "insert" /\ cur[u] = NULL
    /\ Goto(u, "walk", "unlock")
    /\ hlist_add_head_rcu(mine[u], Bucket(u))
    /\ num' = [num EXCEPT ![Bucket(u)] = @ + 1]
    /\ slab' = [slab EXCEPT ![mine[u]] = "linked"]
    /\ mine' = [mine EXCEPT ![u] = NULL]
    /\ UNCHANGED <<lock, ent, waits, calls, req, cur, ret, mod, heads>>

\* Mutant: the entry is taken out with hlist_del_init, which clears its next.
RemoveFoundInit(u) ==
    /\ req[u].op = "remove" /\ Found(u)
    /\ Goto(u, "walk", "unlock")
    /\ next' = [next EXCEPT ![pprev[cur[u]]] = next[cur[u]], ![cur[u]] = NULL]
    /\ pprev' = [x \in Entries |-> IF x = cur[u] THEN NULL
                                   ELSE IF x = next[cur[u]] THEN pprev[cur[u]] ELSE pprev[x]]
    /\ num' = [num EXCEPT ![Bucket(u)] = @ - 1]
    /\ slab' = [slab EXCEPT ![cur[u]] = "unlinked"]
    /\ mine' = [mine EXCEPT ![u] = cur[u]]
    /\ UNCHANGED <<lock, ent, waits, calls, req, cur, ret, mod, heads>>

RemoveFound(u) ==
    /\ req[u].op = "remove" /\ Found(u)
    /\ Goto(u, "walk", "unlock")
    /\ hlist_del_rcu(cur[u])
    /\ num' = [num EXCEPT ![Bucket(u)] = @ - 1]
    /\ slab' = [slab EXCEPT ![cur[u]] = "unlinked"]
    /\ mine' = [mine EXCEPT ![u] = cur[u]]
    /\ UNCHANGED <<lock, ent, waits, calls, req, cur, ret, mod, heads>>

RemoveMissing(u) ==
    /\ req[u].op = "remove" /\ cur[u] = NULL
    /\ Goto(u, "walk", "unlock")
    /\ UNCHANGED <<listVars, lock, memVars, calls, req, cur, mine, ret, mod, heads>>

Unlock(u) ==
    /\ Goto(u, "unlock", IF mine[u] = NULL THEN "idle" ELSE "retire")
    /\ lock' = [lock EXCEPT ![Bucket(u)] = NULL]
    /\ cur' = [cur EXCEPT ![u] = NULL]
    /\ req' = [req EXCEPT ![u] = NoRequest]
    /\ UNCHANGED <<listVars, memVars, calls, mine, ret, mod, heads>>

\* Mutant: the old entry is freed at once.
RetireNow(u) ==
    /\ Goto(u, "retire", "idle")
    /\ slab' = [slab EXCEPT ![mine[u]] = "free"]
    /\ mine' = [mine EXCEPT ![u] = NULL]
    /\ UNCHANGED <<listVars, lock, ent, waits, calls, req, cur, ret, mod, heads>>

\* call_rcu on the old entry, and the end of the call.
Retire(u) ==
    /\ Goto(u, "retire", "idle")
    /\ call_rcu(mine[u])
    /\ mine' = [mine EXCEPT ![u] = NULL]
    /\ UNCHANGED <<listVars, lock, ent, calls, req, cur, ret, mod, heads>>

\* pe_map_get: rcu_read_lock, then one load after the other.
GetCall(u, k) ==
    /\ Enter
    /\ req' = [req EXCEPT ![u] = [op |-> "get", key |-> k, value |-> NULL]]
    /\ Goto(u, "idle", "read")
    /\ cur' = [cur EXCEPT ![u] = Hash[k]]
    /\ UNCHANGED <<listVars, lock, memVars, mine, ret, mod, heads>>

ReadNext(u) ==
    /\ pc[u] = "read"
    /\ cur[u] # NULL /\ ~Found(u)
    /\ cur' = [cur EXCEPT ![u] = next[cur[u]]]
    /\ UNCHANGED <<listVars, lock, memVars, pc, calls, req, mine, ret, mod, heads>>

\* The loop ends: on an entry with the key, or at the end of the list.
ReadDone(u) ==
    /\ Goto(u, "read", "read_unlock")
    /\ cur[u] = NULL \/ Found(u)
    /\ ret' = [ret EXCEPT ![u] = IF Found(u) THEN ent[cur[u]].value ELSE NULL]
    /\ UNCHANGED <<listVars, lock, memVars, calls, req, cur, mine, mod, heads>>

ReadUnlock(u) ==
    /\ Goto(u, "read_unlock", "idle")
    /\ rcu_read_unlock(u)
    /\ cur' = [cur EXCEPT ![u] = NULL]
    /\ req' = [req EXCEPT ![u] = NoRequest]
    /\ ret' = [ret EXCEPT ![u] = NULL]
    /\ UNCHANGED <<listVars, lock, ent, slab, calls, mine, mod, heads>>

------------------------------------------------------------------------------
(* Loading and unloading the module.                                       *)

\* proc_entry_hashmap2_init up to pe_map_create, each of which may fail.
ModuleInit ==
    /\ mod = "none"
    /\ mod' \in {"mapped", "failed"}
    /\ UNCHANGED <<listVars, lock, memVars, callVars, heads>>

\* proc_create_data makes the file; if it fails the map is destroyed.
CreateEntry ==
    /\ mod = "mapped"
    /\ mod' \in {"live", "destroy"}
    /\ UNCHANGED <<listVars, lock, memVars, callVars, heads>>

\* proc_entry_hashmap2_exit.  remove_proc_entry lets no new call in...
RemoveProcEntry ==
    /\ mod = "live"
    /\ mod' = "rundown"
    /\ UNCHANGED <<listVars, lock, memVars, callVars, heads>>

\* ... and returns when no call is under way.
Rundown ==
    /\ mod = "rundown"
    /\ \A u \in Users : pc[u] = "idle"
    /\ mod' = "destroy"
    /\ UNCHANGED <<listVars, lock, memVars, callVars, heads>>

\* pe_map_flush uses what vmalloc returns for heads without looking at it.
FlushAlloc ==
    /\ mod = "destroy"
    /\ mod' \in {"detach", "oops"}
    /\ UNCHANGED <<listVars, lock, memVars, callVars, heads>>

\* heads[i] = *head copies the pointer; the first entry's pprev still leads
\* to the bucket.
FlushDetach(b) ==
    /\ mod = "detach"
    /\ lock[b] = NULL
    /\ next[b] # NULL
    /\ heads' = [heads EXCEPT ![b] = next[b]]
    /\ next' = [next EXCEPT ![b] = NULL]
    /\ num' = [num EXCEPT ![b] = 0]
    /\ UNCHANGED <<pprev, lock, memVars, callVars, mod>>

synchronize_rcu ==
    /\ mod = "detach"
    /\ \A b \in Buckets : next[b] = NULL
    /\ \A u \in Users : ~InRcu(u)
    /\ mod' = "barrier"
    /\ UNCHANGED <<listVars, lock, memVars, callVars, heads>>

\* Mutant: the callbacks are not waited for.
no_barrier ==
    /\ mod = "barrier"
    /\ mod' = "free"
    /\ UNCHANGED <<listVars, lock, memVars, callVars, heads>>

\* rcu_barrier returns when every callback has run.
rcu_barrier ==
    /\ mod = "barrier"
    /\ \A e \in Entries : slab[e] # "retired"
    /\ mod' = "free"
    /\ UNCHANGED <<listVars, lock, memVars, callVars, heads>>

\* hlist_del_rcu writes through pprev: for the first entry of a detached
\* list, that is the head in the bucket.
FlushFree(b) ==
    /\ mod = "free"
    /\ heads[b] # NULL
    /\ hlist_del_rcu(heads[b])
    /\ kmem_cache_free(heads[b])
    /\ heads' = [heads EXCEPT ![b] = next[heads[b]]]
    /\ UNCHANGED <<num, lock, waits, callVars, mod>>

kmem_cache_destroy ==
    /\ mod = "free"
    /\ \A b \in Buckets : heads[b] = NULL
    /\ mod' = "gone"
    /\ UNCHANGED <<listVars, lock, memVars, callVars, heads>>

------------------------------------------------------------------------------
Call(u) ==
    \/ \E k \in Keys, v \in Values : InsertAlloc(u, k, v)
    \/ \E k \in Keys : RemoveCall(u, k) \/ GetCall(u, k)
    \/ Lock(u) \/ Walk(u)
    \/ InsertReplace(u) \/ InsertAdd(u) \/ RemoveFound(u) \/ RemoveMissing(u)
    \/ Unlock(u) \/ Retire(u)
    \/ ReadNext(u) \/ ReadDone(u) \/ ReadUnlock(u)

Module ==
    \/ ModuleInit \/ CreateEntry \/ RemoveProcEntry \/ Rundown
    \/ FlushAlloc \/ (\E b \in Buckets : FlushDetach(b)) \/ synchronize_rcu
    \/ rcu_barrier \/ (\E b \in Buckets : FlushFree(b)) \/ kmem_cache_destroy

Next ==
    \/ \E u \in Users : Call(u)
    \/ \E e \in Entries : pe_entry_free_rcu(e)
    \/ Module

Spec == Init /\ [][Next]_vars

------------------------------------------------------------------------------
(* Properties.                                                             *)

Linked(b) == {e \in Entries : slab[e] = "linked" /\ Hash[ent[e].key] = b}

TypeOK ==
    /\ next \in [Nodes -> Entries \cup {NULL}]
    /\ pprev \in [Entries -> Nodes \cup {NULL}]
    /\ num \in [Buckets -> Int]
    /\ lock \in [Buckets -> Users \cup {NULL}]
    /\ ent \in [Entries -> [key : Keys \cup {NULL}, value : Values \cup {NULL}]]
    /\ slab \in [Entries -> Stages]
    /\ waits \in [Entries -> SUBSET Users]
    /\ pc \in [Users -> {"idle", "lock", "walk", "unlock", "retire", "read", "read_unlock"}]
    /\ calls \in 0 .. MaxCalls
    /\ req \in [Users -> [op : {"get", "insert", "remove", NULL},
                          key : Keys \cup {NULL}, value : Values \cup {NULL}]]
    /\ cur \in [Users -> Nodes \cup {NULL}]
    /\ mine \in [Users -> Entries \cup {NULL}]
    /\ ret \in [Users -> Values \cup {NULL}]
    /\ mod \in {"none", "failed", "mapped", "live", "rundown", "destroy", "oops",
                "detach", "barrier", "free", "gone"}
    /\ heads \in [Buckets -> Entries \cup {NULL}]

\* An entry that reader u may look at: it is not freed before u leaves its
\* critical section.
Safe(u, e) ==
    slab[e] \in {"linked", "unlinked"} \/ (slab[e] = "retired" /\ u \in waits[e])

\* The entry that a reader's cursor is on was published, and is not freed
\* before the reader leaves its critical section, however many writers
\* replace and remove entries around it.  For a writer it is on the list.
NoUseAfterFree ==
    \A u \in Users :
        cur[u] \in Entries =>
            /\ InRcu(u) => Safe(u, cur[u])
            /\ pc[u] = "walk" => slab[cur[u]] = "linked"

\* The entries that a walk from the head of bucket b meets.
Chain(b) ==
    LET node[i \in 0 .. Cardinality(Entries)] ==
            IF i = 0 THEN next[b]
            ELSE IF node[i - 1] = NULL THEN NULL ELSE next[node[i - 1]]
    IN  {node[i] : i \in DOMAIN node} \ {NULL}

\* Until the map is flushed a walk meets exactly the entries inserted and
\* not removed, which have the bucket's hash and distinct keys, and num
\* counts them, whatever other threads are in the middle of.
BucketsIntact ==
    mod \in {"live", "rundown"} =>
        \A b \in Buckets :
            /\ Chain(b) = Linked(b)
            /\ num[b] = Cardinality(Linked(b))
            /\ \A d, e \in Linked(b) : ent[d].key = ent[e].key => d = e

\* When the slab cache is destroyed no object is left in it: not those on
\* the lists, nor those whose callback was still to run.
CacheEmptyAtDestroy == mod = "gone" => \A e \in Entries : slab[e] = "free"

------------------------------------------------------------------------------
(* The inductive invariant behind NoUseAfterFree.                          *)

Unflushed == mod \in {"none", "failed", "mapped", "live", "rundown"}

\* Only a file of a live map has callers; a cursor or a new entry exists
\* only inside a call.
CallInv ==
    \A u \in Users :
        /\ mod \notin {"live", "rundown"} => pc[u] = "idle"
        /\ pc[u] \in {"idle", "lock", "retire"} => cur[u] = NULL
        /\ pc[u] \in {"lock", "walk", "unlock"} =>
                req[u].op \in {"insert", "remove"} /\ req[u].key \in Keys
        /\ pc[u] = "read" => req[u].op = "get" /\ req[u].key \in Keys
        /\ pc[u] \in {"walk", "unlock"} => lock[Bucket(u)] = u

\* The entry a writer holds is its own: new until the list is changed, old
\* after it.
MineInv ==
    \A u \in Users :
        /\ pc[u] \in {"lock", "walk"} /\ req[u].op = "insert" =>
                /\ mine[u] \in Entries
                /\ slab[mine[u]] = "private"
                /\ ent[mine[u]].key = req[u].key
        /\ pc[u] \in {"lock", "walk"} /\ req[u].op = "remove" => mine[u] = NULL
        /\ pc[u] = "unlock" /\ mine[u] # NULL => slab[mine[u]] = "unlinked"
        /\ pc[u] = "retire" => mine[u] \in Entries /\ slab[mine[u]] = "unlinked"
        /\ pc[u] \in {"idle", "read", "read_unlock"} => mine[u] = NULL
        /\ \A w \in Users : mine[u] # NULL /\ mine[w] = mine[u] => w = u

OnList(n) == n \in Buckets \/ (n \in Entries /\ slab[n] = "linked")

Home(n) == IF n \in Buckets THEN n ELSE Hash[ent[n].key]

\* What a published node leads to is published, in the same bucket, and
\* leads back.
NextInv ==
    \A n \in Nodes :
        OnList(n) /\ next[n] # NULL =>
            /\ slab[next[n]] = "linked"
            /\ pprev[next[n]] = n
            /\ Home(next[n]) = Home(n)

PprevInv ==
    \A e \in Entries :
        slab[e] = "linked" =>
            /\ pprev[e] \in Nodes /\ OnList(pprev[e])
            /\ next[pprev[e]] = e
            /\ ent[e].key \in Keys

\* A writer that walks a list is on it.
WalkInv ==
    \A u \in Users :
        pc[u] = "walk" /\ cur[u] # NULL =>
            cur[u] \in Entries /\ slab[cur[u]] = "linked" /\ Home(cur[u]) = Bucket(u)

\* What reader u can reach: a set of safe entries with everything that is
\* published in it, which no next field leaves.
Reach(u, R) ==
    /\ cur[u] \in Entries => cur[u] \in R
    /\ \A e \in Entries : slab[e] = "linked" => e \in R
    /\ \A e \in R : Safe(u, e) /\ (next[e] # NULL => next[e] \in R)

ReadInv == \A u \in Users : InRcu(u) => \E R \in SUBSET Entries : Reach(u, R)

IInv ==
    /\ TypeOK
    /\ CallInv
    /\ Unflushed => MineInv /\ NextInv /\ PprevInv /\ WalkInv /\ ReadInv
=============================================================================
