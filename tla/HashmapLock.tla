----------------------------- MODULE HashmapLock -----------------------------
(***************************************************************************)
(* module/proc_entry_hashmap1: the first version of the hash map behind a  *)
(* file of /proc.  Every operation, a lookup too, walks its bucket's list  *)
(* under the bucket's spinlock; insert overwrites a value in place, remove *)
(* frees the entry at once.                                                *)
(*                                                                         *)
(* An hlist is the sequence of its entries: all its users hold the lock.   *)
(***************************************************************************)
EXTENDS Integers, Sequences, SequencesExt

CONSTANTS
    Users,          \* threads that call entry_read and entry_write
    Keys, Values,
    Buckets,
    Hash,           \* Hash[k]: the bucket of key k
    Entries,        \* addresses that the slab cache can hand out
    NULL,
    MaxCalls        \* bound: calls of all threads together

ASSUME LockAssumption ==
    /\ Hash \in [Keys -> Buckets]
    /\ NULL \notin Entries \cup Users \cup Keys \cup Values
    /\ NULL \notin {"insert", "remove", "get", "ok", "failed"}
    /\ MaxCalls \in Nat

VARIABLES
    list,           \* list[b]: the entries on the hlist of bucket b
    num, lock,      \* of each bucket: the counter, the owner of the spinlock
    ent,            \* the key and value stored in an entry
    used,           \* the entries that the slab cache has handed out
    calls,          \* how many calls were made
    pc,             \* what each thread does next
    req,            \* its request: operation, key, value
    cur,            \* its entry under the cursor
    new_entry,      \* its entry that is not on a list
    ret,            \* what its call returns; NULL before that is known
    mod             \* how far the module is loaded or unloaded

bucketVars == <<list, num>>
vars == <<bucketVars, lock, ent, used, calls, pc, req, cur, new_entry, ret, mod>>

NoRequest == [op |-> NULL, key |-> NULL, value |-> NULL]

Bucket(u) == Hash[req[u].key]

\* pe_map_create
Init ==
    /\ list = [b \in Buckets |-> <<>>]
    /\ num = [b \in Buckets |-> 0]
    /\ lock = [b \in Buckets |-> NULL]
    /\ ent = [e \in Entries |-> [key |-> NULL, value |-> NULL]]
    /\ used = {}
    /\ calls = 0
    /\ pc = [u \in Users |-> "idle"]
    /\ req = [u \in Users |-> NoRequest]
    /\ cur = [u \in Users |-> NULL]
    /\ new_entry = [u \in Users |-> NULL]
    /\ ret = [u \in Users |-> NULL]
    /\ mod = "none"

Goto(u, from, to) == pc[u] = from /\ pc' = [pc EXCEPT ![u] = to]

------------------------------------------------------------------------------
(* entry_write and entry_read.  A call that is refused (wrong size, wrong  *)
(* operation, bad address) returns -1 and changes nothing.                 *)

Enter(u, op, k, v) ==
    /\ mod = "live"
    /\ calls < MaxCalls
    /\ calls' = calls + 1
    /\ Goto(u, "idle", "lock")
    /\ req' = [req EXCEPT ![u] = [op |-> op, key |-> k, value |-> v]]

WriteInsert(u, k, v) ==
    /\ Enter(u, "insert", k, v)
    /\ \E e \in Entries \ used :
        /\ used' = used \cup {e}
        /\ ent' = [ent EXCEPT ![e] = [key |-> k, value |-> v]]
        /\ new_entry' = [new_entry EXCEPT ![u] = e]
    /\ UNCHANGED <<bucketVars, lock, cur, ret, mod>>

\* kmem_cache_alloc fails: -1, nothing changed.
InsertNoMemory(u) ==
    /\ mod = "live" /\ calls < MaxCalls /\ pc[u] = "idle"
    /\ calls' = calls + 1
    /\ UNCHANGED <<bucketVars, lock, ent, used, pc, req, cur, new_entry, ret, mod>>

WriteRemove(u, k) ==
    /\ Enter(u, "remove", k, NULL)
    /\ UNCHANGED <<bucketVars, lock, ent, used, cur, new_entry, ret, mod>>

Read(u, k) ==
    /\ Enter(u, "get", k, NULL)
    /\ UNCHANGED <<bucketVars, lock, ent, used, cur, new_entry, ret, mod>>

------------------------------------------------------------------------------
(* pe_map_insert, pe_map_remove and pe_map_get.                            *)

First(b) == IF list[b] = <<>> THEN NULL ELSE Head(list[b])

\* hlist_next: NULL after the last entry, and from an entry on no list.
Following(b, e) ==
    LET after == {i \in 2 .. Len(list[b]) : list[b][i - 1] = e}
    IN  IF after = {} THEN NULL ELSE list[b][CHOOSE i \in after : TRUE]

\* Mutant: a lookup does not take the lock.
LockWritersOnly(u) ==
    /\ Goto(u, "lock", "walk")
    /\ \/ /\ req[u].op # "get" /\ lock[Bucket(u)] = NULL
          /\ lock' = [lock EXCEPT ![Bucket(u)] = u]
       \/ req[u].op = "get" /\ UNCHANGED lock
    /\ cur' = [cur EXCEPT ![u] = First(Bucket(u))]
    /\ UNCHANGED <<bucketVars, ent, used, calls, req, new_entry, ret, mod>>

\* spin_lock_bh, and the first entry of the loop.
Lock(u) ==
    /\ Goto(u, "lock", "walk")
    /\ lock[Bucket(u)] = NULL
    /\ lock' = [lock EXCEPT ![Bucket(u)] = u]
    /\ cur' = [cur EXCEPT ![u] = First(Bucket(u))]
    /\ UNCHANGED <<bucketVars, ent, used, calls, req, new_entry, ret, mod>>

Found(u) == cur[u] # NULL /\ ent[cur[u]].key = req[u].key

Walk(u) ==
    /\ pc[u] = "walk" /\ cur[u] # NULL /\ ~Found(u)
    /\ cur' = [cur EXCEPT ![u] = Following(Bucket(u), cur[u])]
    /\ UNCHANGED <<bucketVars, lock, ent, used, calls, pc, req, new_entry, ret, mod>>

\* The operation is decided on the entry found, or at the end of the list.
Decide(u, op, found, r) ==
    /\ req[u].op = op /\ Found(u) = found /\ (found \/ cur[u] = NULL)
    /\ Goto(u, "walk", "unlock")
    /\ ret' = [ret EXCEPT ![u] = r]
    /\ UNCHANGED <<lock, calls, req, cur, mod>>

\* The key is there: its value is overwritten, the new entry not needed.
InsertUpdate(u) ==
    /\ Decide(u, "insert", TRUE, "ok")
    /\ ent' = [ent EXCEPT ![cur[u]].value = req[u].value]
    /\ used' = used \ {new_entry[u]}
    /\ new_entry' = [new_entry EXCEPT ![u] = NULL]
    /\ UNCHANGED bucketVars

InsertAdd(u) ==
    /\ Decide(u, "insert", FALSE, "ok")
    /\ list' = [list EXCEPT ![Bucket(u)] = <<new_entry[u]>> \o @]
    /\ num' = [num EXCEPT ![Bucket(u)] = @ + 1]
    /\ new_entry' = [new_entry EXCEPT ![u] = NULL]
    /\ UNCHANGED <<ent, used>>

\* s with e, which it contains, taken out.
Without(s, e) == RemoveAt(s, CHOOSE i \in 1 .. Len(s) : s[i] = e)

\* hlist_del_rcu, and the entry is freed at once.
RemoveFound(u) ==
    /\ Decide(u, "remove", TRUE, "ok")
    /\ list' = [list EXCEPT ![Bucket(u)] = Without(@, cur[u])]
    /\ num' = [num EXCEPT ![Bucket(u)] = @ - 1]
    /\ used' = used \ {cur[u]}
    /\ UNCHANGED <<ent, new_entry>>

RemoveMissing(u) ==
    /\ Decide(u, "remove", FALSE, "failed")
    /\ UNCHANGED <<bucketVars, ent, used, new_entry>>

GetFound(u) ==
    /\ Decide(u, "get", TRUE, ent[cur[u]].value)
    /\ UNCHANGED <<bucketVars, ent, used, new_entry>>

GetMissing(u) ==
    /\ Decide(u, "get", FALSE, "failed")
    /\ UNCHANGED <<bucketVars, ent, used, new_entry>>

\* spin_unlock_bh, and the end of the call.
Unlock(u) ==
    /\ Goto(u, "unlock", "idle")
    /\ lock' = [lock EXCEPT ![Bucket(u)] = NULL]
    /\ cur' = [cur EXCEPT ![u] = NULL]
    /\ req' = [req EXCEPT ![u] = NoRequest]
    /\ ret' = [ret EXCEPT ![u] = NULL]
    /\ UNCHANGED <<bucketVars, ent, used, calls, new_entry, mod>>

------------------------------------------------------------------------------
(* Loading and unloading the module.                                       *)

Loads(from, to) ==
    /\ mod = from /\ mod' \in to
    /\ UNCHANGED <<bucketVars, lock, ent, used, calls, pc, req, cur, new_entry, ret>>

\* proc_mkdir and pe_map_create, each of which may fail; then the file is
\* made, and the empty map destroyed if that fails.
ModuleInit == Loads("none", {"mapped", "failed"})
CreateEntry == Loads("mapped", {"live", "destroy"})

\* Mutant: the map is destroyed first, and then the file.
ExitMapFirst == Loads("live", {"destroy"})

\* remove_proc_entry returns when no call is under way.
Exit ==
    /\ \A u \in Users : pc[u] = "idle"
    /\ Loads("live", {"destroy"})

\* pe_map_flush: the entries of one bucket, under its lock.
Flush(b) ==
    /\ mod = "destroy" /\ lock[b] = NULL /\ list[b] # <<>>
    /\ used' = used \ ToSet(list[b])
    /\ num' = [num EXCEPT ![b] = @ - Len(list[b])]
    /\ list' = [list EXCEPT ![b] = <<>>]
    /\ UNCHANGED <<lock, ent, calls, pc, req, cur, new_entry, ret, mod>>

\* pe_map_destroy
Destroy ==
    /\ \A b \in Buckets : list[b] = <<>>
    /\ Loads("destroy", {"gone"})

------------------------------------------------------------------------------
Thread(u) ==
    \/ \E k \in Keys : WriteRemove(u, k) \/ Read(u, k) \/ \E v \in Values : WriteInsert(u, k, v)
    \/ InsertNoMemory(u)
    \/ Lock(u) \/ Walk(u) \/ InsertUpdate(u) \/ InsertAdd(u) \/ RemoveFound(u)
    \/ RemoveMissing(u) \/ GetFound(u) \/ GetMissing(u) \/ Unlock(u)

Module == ModuleInit \/ CreateEntry \/ Exit \/ Destroy \/ \E b \in Buckets : Flush(b)

Next == Module \/ \E u \in Users : Thread(u)

Spec == Init /\ [][Next]_vars

------------------------------------------------------------------------------
(* Properties.                                                             *)

\* Every entry that the cache has handed out is on one list, once, in the
\* bucket of its key, or is the new entry of one call; no key is there twice,
\* num counts, and nothing is left when the cache is destroyed.
EntriesAccounted ==
    LET held == {u \in Users : new_entry[u] # NULL}
        on(b) == ToSet(list[b])
    IN  /\ used = (UNION {on(b) : b \in Buckets}) \cup {new_entry[u] : u \in held}
        /\ \A b \in Buckets :
              /\ num[b] = Len(list[b])
              /\ \A i, j \in 1 .. Len(list[b]) :
                    ent[list[b][i]].key = ent[list[b][j]].key => i = j
              /\ \A e \in on(b) : Hash[ent[e].key] = b
              /\ \A u \in held : new_entry[u] \notin on(b)
        /\ mod = "gone" => used = {}

\* The first entry of the list L that holds key k gives its value.
ValueIn(L, E, k) ==
    LET at == {i \in 1 .. Len(L) : E[L[i]].key = k}
    IN  IF at = {} THEN NULL ELSE E[L[CHOOSE i \in at : \A j \in at : i <= j]].value

Lookup(k) == ValueIn(list[Hash[k]], ent, k)

Abstract == INSTANCE AtomicMap WITH map <- [k \in Keys |-> Lookup(k)], call <- req, result <- ret

\* The threads cannot tell the hash map from a map on which each call acts at
\* one moment: no insert or remove is lost, no lookup returns a value that was
\* not there during it, and what a call returns fits what it did.
ImplementsMap == Abstract!Spec
=============================================================================
