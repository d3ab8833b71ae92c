--------------------------- MODULE HashmapLock_proofs ---------------------------
(***************************************************************************)
(* proc_entry_hashmap1 loses and shares no entry, and implements the       *)
(* atomic map, for any number of threads, keys, values, buckets and        *)
(* addresses.                                                              *)
(*                                                                         *)
(* A call's effect is its step under the bucket's lock.  The invariant     *)
(* says what the thread that holds the lock knows of its list: where its   *)
(* cursor is, and that the key is not before it.                           *)
(***************************************************************************)
EXTENDS HashmapLock, SequenceTheorems, TLAPS

Labels == {"idle", "lock", "walk", "unlock"}
Results == {NULL, "ok", "failed"} \cup Values
Modules == {"none", "mapped", "live", "destroy", "gone", "failed"}

On(b) == ToSet(list[b])

TypeOK ==
    /\ list \in [Buckets -> Seq(Entries)]
    /\ num \in [Buckets -> Int]
    /\ lock \in [Buckets -> Users \cup {NULL}]
    /\ ent \in [Entries -> [key : Keys \cup {NULL}, value : Values \cup {NULL}]]
    /\ used \in SUBSET Entries
    /\ pc \in [Users -> Labels]
    /\ req \in [Users -> Abstract!Requests \cup {NoRequest}]
    /\ cur \in [Users -> Entries \cup {NULL}]
    /\ new_entry \in [Users -> Entries \cup {NULL}]
    /\ ret \in [Users -> Results]
    /\ mod \in Modules

\* No two entries of L have the same key.
Distinct(L, E) == \A i, j \in 1 .. Len(L) : E[L[i]].key = E[L[j]].key => i = j

ListInv ==
    \A b \in Buckets :
        /\ num[b] = Len(list[b])
        /\ Distinct(list[b], ent)
        /\ \A e \in On(b) : e \in used /\ Hash[ent[e].key] = b

\* The new entry of an insert is its own, and holds what it was called with.
HeldInv ==
    \A u \in Users : new_entry[u] # NULL =>
        /\ new_entry[u] \in used
        /\ ent[new_entry[u]] = [key |-> req[u].key, value |-> req[u].value]
        /\ \A b \in Buckets : new_entry[u] \notin On(b)
        /\ \A w \in Users : new_entry[w] = new_entry[u] => w = u

UsedInv ==
    \A e \in used :
        /\ ent[e].key \in Keys /\ ent[e].value \in Values
        /\ (\E b \in Buckets : e \in On(b)) \/ (\E u \in Users : new_entry[u] = e)

CallInv ==
    \A u \in Users :
        /\ pc[u] = "idle" <=> req[u] = NoRequest
        /\ pc[u] = "unlock" <=> ret[u] # NULL
        /\ new_entry[u] # NULL <=> pc[u] \in {"lock", "walk"} /\ req[u].op = "insert"
        /\ pc[u] \in {"walk", "unlock"} => lock[Bucket(u)] = u
        /\ mod # "live" => pc[u] = "idle"

\* No entry of L before place i has key k.
NotBefore(L, E, i, k) == \A j \in 1 .. Len(L) : j < i => E[L[j]].key # k

WalkInv ==
    \A u \in Users : pc[u] = "walk" =>
        \/ cur[u] = NULL /\ NotBefore(list[Bucket(u)], ent, Len(list[Bucket(u)]) + 1, req[u].key)
        \/ \E i \in 1 .. Len(list[Bucket(u)]) :
              /\ list[Bucket(u)][i] = cur[u]
              /\ NotBefore(list[Bucket(u)], ent, i, req[u].key)

GoneInv == mod = "gone" => \A b \in Buckets : list[b] = <<>>

Inv == TypeOK /\ ListInv /\ HeldInv /\ UsedInv /\ CallInv /\ WalkInv /\ GoneInv

------------------------------------------------------------------------------
(* Lists.                                                                  *)

LEMMA Members ==
    ASSUME NEW L \in Seq(Entries)
    PROVE  /\ Len(L) \in Nat /\ ToSet(L) \in SUBSET Entries
           /\ \A e : e \in ToSet(L) <=> \E i \in 1 .. Len(L) : L[i] = e
BY DEF ToSet

\* hlist_add_head_rcu
LEMMA Prepend ==
    ASSUME NEW L \in Seq(Entries), NEW e \in Entries
    PROVE  /\ <<e>> \o L \in Seq(Entries)
           /\ Len(<<e>> \o L) = Len(L) + 1
           /\ \A i \in 1 .. Len(L) + 1 : (<<e>> \o L)[i] = IF i = 1 THEN e ELSE L[i - 1]
           /\ ToSet(<<e>> \o L) = ToSet(L) \cup {e}
<1> DEFINE M == <<e>> \o L
<1>1. <<e>> \in Seq(Entries) /\ Len(<<e>>) = 1 /\ <<e>>[1] = e /\ Len(L) \in Nat
  OBVIOUS
<1>2. /\ M \in Seq(Entries)
      /\ Len(M) = Len(L) + 1
      /\ \A i \in 1 .. Len(L) + 1 : M[i] = IF i = 1 THEN e ELSE L[i - 1]
  BY <1>1, ConcatProperties
<1> HIDE DEF M
<1>3. \A x : x \in ToSet(M) <=> \E i \in 1 .. Len(L) + 1 : M[i] = x
  BY <1>2, Members
<1>4. \A x : x \in ToSet(L) <=> \E i \in 1 .. Len(L) : L[i] = x
  BY Members
<1>5. ASSUME NEW x, x \in ToSet(L)  PROVE x \in ToSet(M)
  <2>1. PICK i \in 1 .. Len(L) : L[i] = x
    BY <1>4, <1>5
  <2>2. i + 1 \in 1 .. Len(L) + 1 /\ M[i + 1] = x
    BY <1>1, <1>2, <2>1
  <2> QED
    BY <1>3, <2>2
<1>6. e \in ToSet(M)
  <2>1. 1 \in 1 .. Len(L) + 1 /\ M[1] = e
    BY <1>1, <1>2
  <2> QED
    BY <1>3, <2>1
<1>7. ASSUME NEW x \in ToSet(M), x # e  PROVE x \in ToSet(L)
  <2>1. PICK i \in 1 .. Len(L) + 1 : M[i] = x
    BY <1>3, <1>7
  <2>2. i - 1 \in 1 .. Len(L) /\ L[i - 1] = x
    BY <1>1, <1>2, <1>7, <2>1
  <2> QED
    BY <1>4, <2>2
<1> QED
  BY <1>2, <1>5, <1>6, <1>7 DEF M

LEMMA PrependDistinct ==
    ASSUME NEW L \in Seq(Entries), NEW e \in Entries, NEW E, Distinct(L, E),
           \A x \in ToSet(L) : E[x].key # E[e].key
    PROVE  Distinct(<<e>> \o L, E)
<1> DEFINE M == <<e>> \o L
<1>1. /\ Len(M) = Len(L) + 1 /\ Len(L) \in Nat
      /\ \A i \in 1 .. Len(L) + 1 : M[i] = IF i = 1 THEN e ELSE L[i - 1]
  BY Prepend
<1>2. \A i \in 1 .. Len(L) : E[L[i]].key # E[e].key
  BY Members
<1> HIDE DEF M
<1>3. ASSUME NEW i \in 1 .. Len(M), NEW j \in 1 .. Len(M), E[M[i]].key = E[M[j]].key
      PROVE  i = j
  <2>1. ASSUME NEW h \in 1 .. Len(M), h # 1  PROVE h - 1 \in 1 .. Len(L) /\ M[h] = L[h - 1]
    BY <1>1, <2>1
  <2>2. M[1] = e
    BY <1>1
  <2>3. CASE i # 1 /\ j # 1
    <3>1. i - 1 \in 1 .. Len(L) /\ j - 1 \in 1 .. Len(L)
          /\ E[L[i - 1]].key = E[L[j - 1]].key
      BY <1>3, <2>1, <2>3
    <3>2. i - 1 = j - 1
      BY <3>1 DEF Distinct
    <3> QED
      BY <1>1, <3>2
  <2>4. CASE i = 1 /\ j # 1
    BY <1>2, <1>3, <2>1, <2>2, <2>4
  <2>5. CASE i # 1 /\ j = 1
    BY <1>2, <1>3, <2>1, <2>2, <2>5
  <2> QED
    BY <2>3, <2>4, <2>5
<1> QED
  BY <1>3 DEF Distinct, M

\* hlist_del_rcu
LEMMA Removal ==
    ASSUME NEW L \in Seq(Entries), NEW E, Distinct(L, E), NEW e \in ToSet(L)
    PROVE  /\ Without(L, e) \in Seq(Entries)
           /\ Len(Without(L, e)) = Len(L) - 1 /\ Len(L) \in Nat \ {0}
           /\ Distinct(Without(L, e), E)
           /\ ToSet(Without(L, e)) = ToSet(L) \ {e}
<1> DEFINE i == CHOOSE j \in 1 .. Len(L) : L[j] = e
           A == SubSeq(L, 1, i - 1)
           B == SubSeq(L, i + 1, Len(L))
           W == Without(L, e)
<1>1. i \in 1 .. Len(L) /\ L[i] = e /\ Len(L) \in Nat
  BY Members
<1>2. W = A \o B
  BY DEF Without, RemoveAt
<1> HIDE DEF i, W
<1>3. /\ A \in Seq(Entries) /\ Len(A) = i - 1
      /\ \A j \in 1 .. i - 1 : A[j] = L[j]
  BY <1>1
<1>4. /\ B \in Seq(Entries) /\ Len(B) = Len(L) - i
      /\ \A j \in 1 .. Len(L) - i : B[j] = L[i + j]
  BY <1>1
<1> HIDE DEF A, B
<1>5. /\ W \in Seq(Entries) /\ Len(W) = Len(L) - 1
      /\ \A j \in 1 .. Len(L) - 1 : W[j] = IF j < i THEN A[j] ELSE B[j - (i - 1)]
  BY <1>1, <1>2, <1>3, <1>4, ConcatProperties
<1>6. \A j \in 1 .. Len(L) - 1 : W[j] = IF j < i THEN L[j] ELSE L[j + 1]
  BY <1>1, <1>3, <1>4, <1>5
<1>7. Distinct(W, E)
  BY <1>1, <1>5, <1>6 DEF Distinct
<1>8. \A x : x \in ToSet(W) <=> \E j \in 1 .. Len(L) - 1 : W[j] = x
  BY <1>5, Members
<1>9. \A x : x \in ToSet(L) <=> \E j \in 1 .. Len(L) : L[j] = x
  BY Members
<1>10. ASSUME NEW x \in ToSet(W)  PROVE x \in ToSet(L) /\ x # e
  <2>1. PICK j \in 1 .. Len(L) - 1 : W[j] = x
    BY <1>8, <1>10
  <2>2. PICK n \in 1 .. Len(L) : n # i /\ L[n] = x
    BY <1>1, <1>6, <2>1
  <2>3. x # e
    BY <1>1, <2>2 DEF Distinct
  <2> QED
    BY <1>9, <2>2, <2>3
<1>11. ASSUME NEW x \in ToSet(L), x # e  PROVE x \in ToSet(W)
  <2>1. PICK n \in 1 .. Len(L) : L[n] = x
    BY <1>9, <1>11
  <2>2. n # i
    BY <1>1, <1>11, <2>1
  <2>3. CASE n < i
    <3>1. n \in 1 .. Len(L) - 1 /\ W[n] = x
      BY <1>1, <1>6, <2>1, <2>3
    <3> QED BY <1>8, <3>1
  <2>4. CASE n > i
    <3>1. n - 1 \in 1 .. Len(L) - 1 /\ W[n - 1] = x
      BY <1>1, <1>6, <2>1, <2>4
    <3> QED BY <1>8, <3>1
  <2> QED
    BY <1>1, <2>1, <2>2, <2>3, <2>4
<1> QED
  BY <1>1, <1>5, <1>7, <1>10, <1>11 DEF W

------------------------------------------------------------------------------
(* Lookups.                                                                *)

LEMMA Search ==
    ASSUME NEW L \in Seq(Entries), NEW E, Distinct(L, E), NEW k
    PROVE  /\ \A e \in ToSet(L) : E[e].key = k => ValueIn(L, E, k) = E[e].value
           /\ (\A e \in ToSet(L) : E[e].key # k) => ValueIn(L, E, k) = NULL
<1> DEFINE at == {i \in 1 .. Len(L) : E[L[i]].key = k}
           n == CHOOSE i \in at : \A j \in at : i <= j
<1>1. Len(L) \in Nat /\ \A x : x \in ToSet(L) <=> \E i \in 1 .. Len(L) : L[i] = x
  BY Members
<1>2. ASSUME NEW e \in ToSet(L), E[e].key = k  PROVE ValueIn(L, E, k) = E[e].value
  <2>1. PICK i \in 1 .. Len(L) : L[i] = e
    BY <1>1
  <2>2. at = {i}
    BY <1>2, <2>1 DEF Distinct
  <2>3. n = i
    BY <1>1, <2>1, <2>2
  <2> QED
    BY <2>1, <2>2, <2>3 DEF ValueIn
<1>3. ASSUME \A e \in ToSet(L) : E[e].key # k  PROVE ValueIn(L, E, k) = NULL
  <2>1. at = {}
    BY <1>1, <1>3
  <2> QED
    BY <2>1 DEF ValueIn
<1> QED
  BY <1>2, <1>3

\* Lookup(k) is the value of the entry with key k, and NULL if there is none.
LEMMA LookupIs ==
    ASSUME TypeOK, ListInv, NEW k \in Keys
    PROVE  /\ \A e \in ToSet(list[Hash[k]]) : ent[e].key = k => Lookup(k) = ent[e].value
           /\ (\A e \in ToSet(list[Hash[k]]) : ent[e].key # k) => Lookup(k) = NULL
<1>1. /\ Hash[k] \in Buckets /\ list[Hash[k]] \in Seq(Entries)
      /\ Distinct(list[Hash[k]], ent)
  BY LockAssumption DEF TypeOK, ListInv
<1> QED
  BY <1>1, Search DEF Lookup

LEMMA LookupIsNext ==
    ASSUME TypeOK', ListInv', NEW k \in Keys
    PROVE  /\ \A e \in ToSet(list'[Hash[k]]) : ent'[e].key = k => Lookup(k)' = ent'[e].value
           /\ (\A e \in ToSet(list'[Hash[k]]) : ent'[e].key # k) => Lookup(k)' = NULL
<1>1. /\ Hash[k] \in Buckets /\ list'[Hash[k]] \in Seq(Entries)
      /\ Distinct(list'[Hash[k]], ent')
  BY LockAssumption DEF TypeOK, ListInv
<1> QED
  BY <1>1, Search DEF Lookup

------------------------------------------------------------------------------
(* Steps that leave the lists and the entries alone.                       *)

Map == [k \in Keys |-> Lookup(k)]

Quiet == UNCHANGED <<list, num, ent, used, new_entry>>

LEMMA QuietStep ==
    ASSUME Inv, Quiet
    PROVE  ListInv' /\ UsedInv' /\ Map' = Map
<1>1. ListInv' /\ UsedInv'
  BY DEF Inv, Quiet, ListInv, UsedInv, On
<1>2. \A k \in Keys : Lookup(k)' = Lookup(k)
  BY DEF Quiet, Lookup
<1> QED
  BY <1>1, <1>2 DEF Map

\* entry_write and entry_read, as far as all calls have it in common.
LEMMA EnterFacts ==
    ASSUME Inv, NEW u \in Users, NEW op, NEW k \in Keys, NEW v, Enter(u, op, k, v),
           [op |-> op, key |-> k, value |-> v] \in Abstract!Requests
    PROVE  /\ mod = "live" /\ pc[u] = "idle" /\ req[u] = NoRequest
           /\ new_entry[u] = NULL /\ ret[u] = NULL
           /\ pc' = [pc EXCEPT ![u] = "lock"] /\ pc' \in [Users -> Labels]
           /\ req' = [req EXCEPT ![u] = [op |-> op, key |-> k, value |-> v]]
           /\ req' \in [Users -> Abstract!Requests \cup {NoRequest}]
           /\ [op |-> op, key |-> k, value |-> v] # NoRequest
<1>1. NoRequest \notin Abstract!Requests
  BY LockAssumption DEF Abstract!Requests, NoRequest
<1> QED
  BY <1>1 DEF Inv, TypeOK, CallInv, Enter, Goto, Labels

LEMMA BeginStep ==
    ASSUME Inv, NEW u \in Users, NEW k \in Keys, WriteRemove(u, k) \/ Read(u, k)
    PROVE  Inv' /\ Abstract!Begin(u)
<1>1. PICK op \in {"remove", "get"} : Enter(u, op, k, NULL)
  BY DEF WriteRemove, Read
<1>2. UNCHANGED <<bucketVars, lock, ent, used, cur, new_entry, ret, mod>>
  BY DEF WriteRemove, Read
<1> DEFINE r == [op |-> op, key |-> k, value |-> NULL]
<1>3. r \in Abstract!Requests
  BY DEF Abstract!Requests
<1>4. /\ mod = "live" /\ pc[u] = "idle" /\ req[u] = NoRequest
      /\ new_entry[u] = NULL /\ ret[u] = NULL
      /\ pc' = [pc EXCEPT ![u] = "lock"] /\ pc' \in [Users -> Labels]
      /\ req' = [req EXCEPT ![u] = r]
      /\ req' \in [Users -> Abstract!Requests \cup {NoRequest}]
      /\ r # NoRequest /\ r.op # "insert"
  BY <1>1, <1>3, EnterFacts
<1> HIDE DEF r
<1>5. Quiet /\ UNCHANGED <<lock, cur, ret, mod>>
  BY <1>2 DEF bucketVars, Quiet
<1>6. TypeOK'
  BY <1>4, <1>5 DEF Inv, TypeOK, Quiet
<1>7. ListInv' /\ UsedInv' /\ Map' = Map
  BY <1>5, QuietStep
<1>8. \A w \in Users \ {u} : pc'[w] = pc[w] /\ req'[w] = req[w]
  BY <1>4 DEF Inv, TypeOK
<1>9. pc'[u] = "lock" /\ req'[u] = r
  BY <1>4 DEF Inv, TypeOK
<1>10. HeldInv'
  BY <1>4, <1>5, <1>8 DEF Inv, HeldInv, Quiet, On
<1>11. CallInv'
  BY <1>4, <1>5, <1>8, <1>9 DEF Inv, CallInv, Quiet, Bucket
<1>12. WalkInv'
  BY <1>5, <1>8, <1>9 DEF Inv, WalkInv, Quiet, Bucket
<1>13. GoneInv'
  BY <1>5 DEF Inv, GoneInv, Quiet
<1>14. Abstract!Begin(u)
  BY <1>3, <1>4, <1>5, <1>7 DEF Abstract!Begin, Abstract!NoRequest, NoRequest, Map
<1> QED
  BY <1>6, <1>7, <1>10, <1>11, <1>12, <1>13, <1>14 DEF Inv

LEMMA NoMemoryStep ==
    ASSUME Inv, NEW u \in Users, InsertNoMemory(u)
    PROVE  Inv' /\ UNCHANGED <<Map, req, ret>>
<1>1. Quiet /\ UNCHANGED <<lock, pc, req, cur, ret, mod>>
  BY DEF InsertNoMemory, bucketVars, Quiet
<1>2. ListInv' /\ UsedInv' /\ Map' = Map
  BY <1>1, QuietStep
<1> QED
  BY <1>1, <1>2 DEF Inv, TypeOK, HeldInv, CallInv, WalkInv, GoneInv, Quiet, On, Bucket

LEMMA LockStep ==
    ASSUME Inv, NEW u \in Users, Lock(u)
    PROVE  Inv' /\ UNCHANGED <<Map, req, ret>>
<1> DEFINE b == Bucket(u)
<1>1. /\ pc[u] = "lock" /\ pc' = [pc EXCEPT ![u] = "walk"]
      /\ lock[b] = NULL /\ lock' = [lock EXCEPT ![b] = u]
      /\ cur' = [cur EXCEPT ![u] = First(b)]
      /\ Quiet /\ UNCHANGED <<req, ret, mod>>
  BY DEF Lock, Goto, bucketVars, Quiet
<1>2. req[u] \in Abstract!Requests /\ req[u].key \in Keys /\ b \in Buckets
  <2>1. req[u] \in Abstract!Requests
    BY <1>1 DEF Inv, TypeOK, CallInv
  <2>2. req[u].key \in Keys
    BY <2>1 DEF Abstract!Requests
  <2> QED
    BY <2>1, <2>2, LockAssumption DEF Bucket
<1>3. list[b] \in Seq(Entries) /\ Len(list[b]) \in Nat
  BY <1>2 DEF Inv, TypeOK
<1>4. \/ First(b) = NULL /\ Len(list[b]) = 0
      \/ 1 \in 1 .. Len(list[b]) /\ list[b][1] = First(b) /\ First(b) \in Entries
  BY <1>3 DEF First
<1> HIDE DEF b
<1>5. TypeOK'
  <2>1. First(b) \in Entries \cup {NULL}
    BY <1>4
  <2> QED
    BY <1>1, <1>2, <2>1 DEF Inv, TypeOK, Quiet, Labels
<1>6. ListInv' /\ UsedInv' /\ Map' = Map
  BY <1>1, QuietStep
<1>7. \A w \in Users \ {u} : pc'[w] = pc[w] /\ cur'[w] = cur[w]
  BY <1>1 DEF Inv, TypeOK
<1>8. pc'[u] = "walk" /\ cur'[u] = First(b)
  BY <1>1 DEF Inv, TypeOK
<1>9. \A w \in Users : Bucket(w)' = Bucket(w)
  BY <1>1 DEF Bucket
<1>10. HeldInv'
  BY <1>1 DEF Inv, HeldInv, Quiet, On
<1>11. CallInv'
  <2>1. ASSUME NEW w \in Users, pc'[w] \in {"walk", "unlock"}  PROVE lock'[Bucket(w)'] = w
    <3>1. CASE w = u
      BY <1>1, <1>2, <1>9, <3>1 DEF Inv, TypeOK, b
    <3>2. CASE w # u
      <4>1. lock[Bucket(w)] = w
        BY <1>7, <2>1, <3>2 DEF Inv, CallInv
      <4>2. Bucket(w) # b
        BY <1>1, <4>1, LockAssumption
      <4> QED
        BY <1>1, <1>9, <4>1, <4>2 DEF Inv, TypeOK
    <3> QED
      BY <3>1, <3>2
  <2> QED
    BY <1>1, <1>7, <1>8, <2>1 DEF Inv, CallInv, Quiet
<1>12. WalkInv'
  <2>1. ASSUME NEW w \in Users \ {u}, pc'[w] = "walk"
        PROVE  \/ cur'[w] = NULL /\ NotBefore(list[Bucket(w)], ent, Len(list[Bucket(w)]) + 1, req[w].key)
               \/ \E i \in 1 .. Len(list[Bucket(w)]) :
                    /\ list[Bucket(w)][i] = cur'[w]
                    /\ NotBefore(list[Bucket(w)], ent, i, req[w].key)
    BY <1>7, <2>1 DEF Inv, WalkInv
  <2>2. \/ cur'[u] = NULL /\ NotBefore(list[b], ent, Len(list[b]) + 1, req[u].key)
        \/ \E i \in 1 .. Len(list[b]) :
             /\ list[b][i] = cur'[u]
             /\ NotBefore(list[b], ent, i, req[u].key)
    BY <1>3, <1>4, <1>8 DEF NotBefore
  <2> QED
    BY <1>1, <1>9, <2>1, <2>2 DEF WalkInv, Quiet, b
<1>13. GoneInv'
  BY <1>1 DEF Inv, GoneInv, Quiet
<1> QED
  BY <1>1, <1>5, <1>6, <1>10, <1>11, <1>12, <1>13 DEF Inv

LEMMA WalkStep ==
    ASSUME Inv, NEW u \in Users, Walk(u)
    PROVE  Inv' /\ UNCHANGED <<Map, req, ret>>
<1> DEFINE b == Bucket(u)
           L == list[b]
<1>1. /\ pc[u] = "walk" /\ cur[u] # NULL /\ ~Found(u)
      /\ cur' = [cur EXCEPT ![u] = Following(b, cur[u])]
      /\ Quiet /\ UNCHANGED <<lock, pc, req, ret, mod>>
  BY DEF Walk, bucketVars, Quiet
<1>2. b \in Buckets
  <2>1. req[u] \in Abstract!Requests
    BY <1>1 DEF Inv, TypeOK, CallInv
  <2> QED
    BY <2>1, LockAssumption DEF Abstract!Requests, Bucket
<1>3. L \in Seq(Entries) /\ Len(L) \in Nat /\ Distinct(L, ent)
  BY <1>2 DEF Inv, TypeOK, ListInv
<1>4. PICK i \in 1 .. Len(L) : L[i] = cur[u] /\ NotBefore(L, ent, i, req[u].key)
  BY <1>1 DEF Inv, WalkInv
<1>5. ent[L[i]].key # req[u].key
  BY <1>1, <1>4 DEF Found
<1> DEFINE after == {j \in 2 .. Len(L) : L[j - 1] = cur[u]}
<1>6. after = IF i < Len(L) THEN {i + 1} ELSE {}
  <2>1. \A j \in 2 .. Len(L) : L[j - 1] = L[i] => j - 1 = i
    BY <1>3 DEF Distinct
  <2> QED
    BY <1>3, <1>4, <2>1
<1>7. Following(b, cur[u]) = IF i < Len(L) THEN L[i + 1] ELSE NULL
  <2>1. Following(b, cur[u]) = IF after = {} THEN NULL ELSE L[CHOOSE j \in after : TRUE]
    BY DEF Following
  <2> QED
    BY <1>6, <2>1
<1> HIDE DEF b, after
<1>8. TypeOK'
  <2>1. Following(b, cur[u]) \in Entries \cup {NULL}
    BY <1>3, <1>7
  <2> QED
    BY <1>1, <2>1 DEF Inv, TypeOK, Quiet
<1>9. ListInv' /\ UsedInv' /\ Map' = Map
  BY <1>1, QuietStep
<1>10. \A w \in Users : cur'[w] = IF w = u THEN Following(b, cur[u]) ELSE cur[w]
  BY <1>1 DEF Inv, TypeOK
<1>11. \A w \in Users : Bucket(w)' = Bucket(w)
  BY <1>1 DEF Bucket
<1>12. WalkInv'
  <2>1. \/ cur'[u] = NULL /\ NotBefore(L, ent, Len(L) + 1, req[u].key)
        \/ \E n \in 1 .. Len(L) : L[n] = cur'[u] /\ NotBefore(L, ent, n, req[u].key)
    <3>1. CASE i < Len(L)
      <4>1. L[i + 1] = cur'[u] /\ i + 1 \in 1 .. Len(L)
        BY <1>3, <1>7, <1>10, <3>1
      <4>2. NotBefore(L, ent, i + 1, req[u].key)
        BY <1>3, <1>4, <1>5 DEF NotBefore
      <4> QED
        BY <4>1, <4>2
    <3>2. CASE i = Len(L)
      BY <1>3, <1>4, <1>5, <1>7, <1>10, <3>2 DEF NotBefore
    <3> QED
      BY <1>3, <3>1, <3>2
  <2>2. ASSUME NEW w \in Users \ {u}, pc'[w] = "walk"
        PROVE  \/ cur'[w] = NULL /\ NotBefore(list[Bucket(w)], ent, Len(list[Bucket(w)]) + 1, req[w].key)
               \/ \E n \in 1 .. Len(list[Bucket(w)]) :
                    /\ list[Bucket(w)][n] = cur'[w]
                    /\ NotBefore(list[Bucket(w)], ent, n, req[w].key)
    BY <1>1, <1>10, <2>2 DEF Inv, WalkInv
  <2> QED
    BY <1>1, <1>11, <2>1, <2>2 DEF WalkInv, Quiet, b
<1>13. HeldInv' /\ CallInv' /\ GoneInv'
  BY <1>1, <1>11 DEF Inv, HeldInv, CallInv, GoneInv, Quiet, On
<1> QED
  BY <1>1, <1>8, <1>9, <1>12, <1>13 DEF Inv

------------------------------------------------------------------------------
(* The effect of a call.                                                   *)

LEMMA OtherBucket ==
    ASSUME Inv, NEW u \in Users, NEW w \in Users, u # w,
           pc[u] \in {"walk", "unlock"}, pc[w] \in {"walk", "unlock"}
    PROVE  Bucket(w) # Bucket(u)
BY DEF Inv, CallInv

Decides(u, op, r) == Decide(u, op, TRUE, r) \/ Decide(u, op, FALSE, r)

LEMMA DecideFacts ==
    ASSUME Inv, NEW u \in Users, NEW op, NEW r, Decides(u, op, r)
    PROVE  /\ pc[u] = "walk" /\ pc' = [pc EXCEPT ![u] = "unlock"]
           /\ ret[u] = NULL /\ ret' = [ret EXCEPT ![u] = r]
           /\ req[u] \in Abstract!Requests /\ req[u] # NoRequest
           /\ req[u].op = op /\ req[u].key \in Keys /\ Bucket(u) \in Buckets
           /\ Bucket(u) = Hash[req[u].key]
           /\ list[Bucket(u)] \in Seq(Entries) /\ Distinct(list[Bucket(u)], ent)
           /\ Decide(u, op, TRUE, r) => /\ cur[u] \in On(Bucket(u)) /\ cur[u] \in Entries
                                        /\ ent[cur[u]].key = req[u].key
           /\ Decide(u, op, FALSE, r) => \A e \in On(Bucket(u)) : ent[e].key # req[u].key
           /\ (new_entry[u] # NULL <=> op = "insert")
           /\ UNCHANGED <<lock, req, cur, mod>>
<1> DEFINE L == list[Bucket(u)]
<1>1. /\ req[u].op = op
      /\ pc[u] = "walk" /\ pc' = [pc EXCEPT ![u] = "unlock"]
      /\ ret' = [ret EXCEPT ![u] = r]
      /\ UNCHANGED <<lock, req, cur, mod>>
  BY DEF Decides, Decide, Goto
<1>2. /\ req[u] \in Abstract!Requests /\ req[u] # NoRequest /\ ret[u] = NULL
      /\ (new_entry[u] # NULL <=> op = "insert")
  BY <1>1 DEF Inv, TypeOK, CallInv
<1>3. req[u].key \in Keys /\ Bucket(u) \in Buckets /\ Bucket(u) = Hash[req[u].key]
  BY <1>2, LockAssumption DEF Abstract!Requests, Bucket
<1>4. L \in Seq(Entries) /\ Len(L) \in Nat /\ Distinct(L, ent)
  BY <1>3 DEF Inv, TypeOK, ListInv
<1>5. \A x : x \in On(Bucket(u)) <=> \E i \in 1 .. Len(L) : L[i] = x
  BY <1>4, Members DEF On
<1>6. \/ cur[u] = NULL /\ NotBefore(L, ent, Len(L) + 1, req[u].key)
      \/ \E i \in 1 .. Len(L) : L[i] = cur[u]
  BY <1>1 DEF Inv, WalkInv
<1>7. ASSUME Decide(u, op, TRUE, r)
      PROVE  cur[u] \in On(Bucket(u)) /\ cur[u] \in Entries /\ ent[cur[u]].key = req[u].key
  <2>1. cur[u] # NULL /\ ent[cur[u]].key = req[u].key
    BY <1>7 DEF Decide, Found
  <2>2. PICK i \in 1 .. Len(L) : L[i] = cur[u]
    BY <1>6, <2>1
  <2> QED
    BY <1>4, <1>5, <2>1, <2>2
<1>8. ASSUME Decide(u, op, FALSE, r)  PROVE \A e \in On(Bucket(u)) : ent[e].key # req[u].key
  <2>1. cur[u] = NULL
    BY <1>8 DEF Decide
  <2>2. ~ \E i \in 1 .. Len(L) : L[i] = cur[u]
    BY <1>4, <2>1, LockAssumption
  <2>3. \A j \in 1 .. Len(L) : ent[L[j]].key # req[u].key
    BY <1>4, <1>6, <2>2 DEF NotBefore
  <2> QED
    BY <1>5, <2>3
<1> QED
  BY <1>1, <1>2, <1>3, <1>4, <1>7, <1>8

\* The same under one name, for use with the values of a decision.
Decided(u, op, r) ==
    /\ pc[u] = "walk" /\ ret[u] = NULL /\ ret' = [ret EXCEPT ![u] = r]
    /\ req[u] \in Abstract!Requests /\ req[u] # NoRequest
    /\ req[u].op = op /\ req[u].key \in Keys /\ Bucket(u) \in Buckets
    /\ Bucket(u) = Hash[req[u].key]
    /\ list[Bucket(u)] \in Seq(Entries) /\ Distinct(list[Bucket(u)], ent)
    /\ (new_entry[u] # NULL <=> op = "insert")
    /\ UNCHANGED <<lock, req, cur, mod>>

LEMMA DecidedFacts ==
    ASSUME Inv, NEW u \in Users, NEW op, NEW r, Decides(u, op, r)
    PROVE  Decided(u, op, r)
<1>1. ret' = [ret EXCEPT ![u] = r] /\ UNCHANGED <<lock, req, cur, mod>>
  BY DEF Decides, Decide
<1>2. /\ req[u] \in Abstract!Requests /\ req[u] # NoRequest
      /\ req[u].op = op /\ req[u].key \in Keys /\ Bucket(u) \in Buckets
      /\ Bucket(u) = Hash[req[u].key]
  BY DecideFacts
<1>3. /\ pc[u] = "walk" /\ ret[u] = NULL
      /\ (new_entry[u] # NULL <=> op = "insert")
  <2>1. pc[u] = "walk" /\ req[u].op = op
    BY DEF Decides, Decide, Goto
  <2> QED
    BY <2>1 DEF Inv, TypeOK, CallInv
<1>4. /\ list[Bucket(u)] \in Seq(Entries) /\ Distinct(list[Bucket(u)], ent)
  BY <1>2 DEF Inv, TypeOK, ListInv
<1> QED
  BY <1>1, <1>2, <1>3, <1>4 DEF Decided

\* What every decision does to the control of the call.
LEMMA DecideControl ==
    ASSUME Inv, NEW u \in Users, NEW op, NEW r \in Results \ {NULL}, Decides(u, op, r),
           new_entry' = [new_entry EXCEPT ![u] = NULL]
    PROVE  /\ CallInv'
           /\ pc' \in [Users -> Labels] /\ ret' \in [Users -> Results]
           /\ \A w \in Users : pc'[w] = IF w = u THEN "unlock" ELSE pc[w]
           /\ \A w \in Users : new_entry'[w] = IF w = u THEN NULL ELSE new_entry[w]
           /\ new_entry' \in [Users -> Entries \cup {NULL}]
<1>1. /\ pc[u] = "walk" /\ pc' = [pc EXCEPT ![u] = "unlock"]
      /\ ret[u] = NULL /\ ret' = [ret EXCEPT ![u] = r]
      /\ UNCHANGED <<lock, req, cur, mod>>
  <2>1. /\ pc[u] = "walk" /\ pc' = [pc EXCEPT ![u] = "unlock"]
        /\ ret' = [ret EXCEPT ![u] = r]
        /\ UNCHANGED <<lock, req, cur, mod>>
    BY DEF Decides, Decide, Goto
  <2> QED
    BY <2>1 DEF Inv, TypeOK, CallInv
<1>2. /\ pc' \in [Users -> Labels] /\ ret' \in [Users -> Results]
      /\ \A w \in Users : pc'[w] = IF w = u THEN "unlock" ELSE pc[w]
      /\ \A w \in Users : ret'[w] = IF w = u THEN r ELSE ret[w]
      /\ \A w \in Users : new_entry'[w] = IF w = u THEN NULL ELSE new_entry[w]
      /\ new_entry' \in [Users -> Entries \cup {NULL}]
  BY <1>1 DEF Inv, TypeOK, Labels
<1>3. \A w \in Users : Bucket(w)' = Bucket(w)
  BY <1>1 DEF Bucket
<1>4. CallInv'
  BY <1>1, <1>2, <1>3 DEF Inv, CallInv
<1> QED
  BY <1>2, <1>4

\* The walks of the others, on other lists, are not disturbed.
LEMMA OtherWalks ==
    ASSUME Inv, NEW u \in Users, pc[u] = "walk",
           UNCHANGED <<req, cur>>,
           \A w \in Users : pc'[w] = IF w = u THEN "unlock" ELSE pc[w],
           \A b \in Buckets \ {Bucket(u)} : list'[b] = list[b],
           \A e \in Entries : ent'[e].key = ent[e].key
    PROVE  WalkInv'
<1> SUFFICES ASSUME NEW w \in Users, pc'[w] = "walk"
             PROVE  \/ /\ cur'[w] = NULL
                       /\ NotBefore(list'[Bucket(w)'], ent', Len(list'[Bucket(w)']) + 1, req'[w].key)
                    \/ \E i \in 1 .. Len(list'[Bucket(w)']) :
                          /\ list'[Bucket(w)'][i] = cur'[w]
                          /\ NotBefore(list'[Bucket(w)'], ent', i, req'[w].key)
  BY DEF WalkInv
<1>1. w # u /\ pc[w] = "walk"
  OBVIOUS
<1>2. Bucket(w) # Bucket(u)
  BY <1>1, OtherBucket
<1>3. Bucket(w) \in Buckets
  <2>1. req[w] \in Abstract!Requests
    BY <1>1 DEF Inv, TypeOK, CallInv
  <2> QED
    BY <2>1, LockAssumption DEF Abstract!Requests, Bucket
<1> DEFINE L == list[Bucket(w)]
<1>4. L \in Seq(Entries) /\ list'[Bucket(w)'] = L /\ Bucket(w)' = Bucket(w)
  BY <1>2, <1>3 DEF Inv, TypeOK, Bucket
<1>5. \A i : NotBefore(L, ent, i, req[w].key) => NotBefore(L, ent', i, req[w].key)
  BY <1>4 DEF NotBefore
<1>6. \/ cur[w] = NULL /\ NotBefore(L, ent, Len(L) + 1, req[w].key)
      \/ \E i \in 1 .. Len(L) : L[i] = cur[w] /\ NotBefore(L, ent, i, req[w].key)
  BY <1>1 DEF Inv, WalkInv
<1> QED
  BY <1>4, <1>5, <1>6

\* The entries with key k, in the list and the memory of before and after.
LEMMA SameLookup ==
    ASSUME TypeOK, ListInv, TypeOK', ListInv', NEW k \in Keys,
           \A e \in Entries : e \in On(Hash[k]) /\ ent[e].key = k
                                <=> e \in On(Hash[k])' /\ ent'[e].key = k,
           \A e \in On(Hash[k]) : ent[e].key = k => ent'[e].value = ent[e].value
    PROVE  Lookup(k)' = Lookup(k)
<1>1. Hash[k] \in Buckets /\ On(Hash[k]) \subseteq Entries /\ On(Hash[k])' \subseteq Entries
  <2>1. Hash[k] \in Buckets
    BY LockAssumption
  <2>2. list[Hash[k]] \in Seq(Entries) /\ list'[Hash[k]] \in Seq(Entries)
    BY <2>1 DEF TypeOK
  <2> QED
    BY <2>1, <2>2, Members DEF On
<1>2. /\ \A e \in On(Hash[k]) : ent[e].key = k => Lookup(k) = ent[e].value
      /\ (\A e \in On(Hash[k]) : ent[e].key # k) => Lookup(k) = NULL
  BY LookupIs DEF On
<1>3. /\ \A e \in On(Hash[k])' : ent'[e].key = k => Lookup(k)' = ent'[e].value
      /\ (\A e \in On(Hash[k])' : ent'[e].key # k) => Lookup(k)' = NULL
  BY LookupIsNext DEF On
<1> QED
  BY <1>1, <1>2, <1>3

\* A decision that changes no list and no entry: remove of a missing key, get.
LEMMA OnlyDecides ==
    ASSUME Inv, NEW u \in Users, NEW op \in {"remove", "get"},
           NEW r \in Results \ {NULL}, Decides(u, op, r), Quiet
    PROVE  Inv' /\ Map' = Map
<1>1. /\ pc[u] = "walk" /\ new_entry[u] = NULL
      /\ UNCHANGED <<lock, req, cur, mod>>
  BY DecideFacts
<1>2. new_entry' = [new_entry EXCEPT ![u] = NULL]
  BY <1>1 DEF Quiet, Inv, TypeOK
<1>3. /\ CallInv'
      /\ pc' \in [Users -> Labels] /\ ret' \in [Users -> Results]
      /\ \A w \in Users : pc'[w] = IF w = u THEN "unlock" ELSE pc[w]
  BY <1>2, DecideControl
<1>4. TypeOK'
  BY <1>1, <1>3 DEF Inv, TypeOK, Quiet
<1>5. ListInv' /\ UsedInv' /\ Map' = Map
  BY QuietStep
<1>6. WalkInv'
  <2>1. \A b \in Buckets \ {Bucket(u)} : list'[b] = list[b]
    BY DEF Quiet
  <2>2. \A e \in Entries : ent'[e].key = ent[e].key
    BY DEF Quiet
  <2> QED
    BY <1>1, <1>3, <2>1, <2>2, OtherWalks
<1>7. HeldInv' /\ GoneInv'
  BY <1>1 DEF Inv, HeldInv, GoneInv, Quiet, On
<1> QED
  BY <1>3, <1>4, <1>5, <1>6, <1>7 DEF Inv

\* What a lookup finds is a value.
LEMMA FoundValue ==
    ASSUME Inv, NEW u \in Users, NEW op, NEW r, Decides(u, op, r)
    PROVE  /\ Decide(u, op, TRUE, r) => /\ Lookup(req[u].key) = ent[cur[u]].value
                                        /\ Lookup(req[u].key) \in Values
                                        /\ Lookup(req[u].key) # NULL
           /\ Decide(u, op, FALSE, r) => Lookup(req[u].key) = NULL
<1>1. /\ req[u].key \in Keys /\ Bucket(u) = Hash[req[u].key] /\ Bucket(u) \in Buckets
      /\ Decide(u, op, TRUE, r) => cur[u] \in On(Bucket(u)) /\ ent[cur[u]].key = req[u].key
      /\ Decide(u, op, FALSE, r) => \A e \in On(Bucket(u)) : ent[e].key # req[u].key
  BY DecideFacts
<1>2. /\ \A e \in On(Bucket(u)) : ent[e].key = req[u].key => Lookup(req[u].key) = ent[e].value
      /\ (\A e \in On(Bucket(u)) : ent[e].key # req[u].key) => Lookup(req[u].key) = NULL
  BY <1>1, LookupIs DEF On, Inv
<1>3. \A e \in On(Bucket(u)) : ent[e].value \in Values
  BY <1>1 DEF Inv, ListInv, UsedInv
<1> QED
  BY <1>1, <1>2, <1>3, LockAssumption

LEMMA MissingStep ==
    ASSUME Inv, NEW u \in Users, RemoveMissing(u) \/ GetFound(u) \/ GetMissing(u)
    PROVE  Inv' /\ Abstract!Effect(u)
<1>1. Quiet
  BY DEF RemoveMissing, GetFound, GetMissing, bucketVars, Quiet
<1>2. CASE RemoveMissing(u)
  <2>1. Decide(u, "remove", FALSE, "failed") /\ Decides(u, "remove", "failed") /\ "failed" \in Results \ {NULL}
    BY <1>2, LockAssumption DEF RemoveMissing, Results, Decides
  <2>2. Inv' /\ Map' = Map
    BY <1>1, <2>1, OnlyDecides
  <2>3. Lookup(req[u].key) = NULL
    BY <2>1, FoundValue
  <2>4. /\ ret[u] = NULL /\ ret' = [ret EXCEPT ![u] = "failed"]
        /\ req[u] # NoRequest /\ req[u].op = "remove" /\ req[u].key \in Keys
        /\ req[u] \in Abstract!Requests /\ req' = req
    <3>1. Decided(u, "remove", "failed")
      BY <2>1, DecidedFacts
    <3> QED
      BY <3>1 DEF Decided
  <2>5. req[u].value = NULL
    BY <2>4 DEF Abstract!Requests
  <2>6. [Map EXCEPT ![req[u].key] = NULL] = Map
    BY <2>3, <2>4 DEF Map
  <2>7. Abstract!Effect(u)
    BY <2>2, <2>3, <2>4, <2>5, <2>6 DEF Abstract!Effect, Abstract!NoRequest, NoRequest, Map
  <2> QED
    BY <2>2, <2>7
<1>3. CASE GetMissing(u)
  <2>1. Decide(u, "get", FALSE, "failed") /\ Decides(u, "get", "failed") /\ "failed" \in Results \ {NULL}
    BY <1>3, LockAssumption DEF GetMissing, Results, Decides
  <2>2. Inv' /\ Map' = Map
    BY <1>1, <2>1, OnlyDecides
  <2>3. Lookup(req[u].key) = NULL
    BY <2>1, FoundValue
  <2>4. /\ ret[u] = NULL /\ ret' = [ret EXCEPT ![u] = "failed"]
        /\ req[u] # NoRequest /\ req[u].op = "get" /\ req[u].key \in Keys /\ req' = req
    <3>1. Decided(u, "get", "failed")
      BY <2>1, DecidedFacts
    <3> QED
      BY <3>1 DEF Decided
  <2>5. Abstract!Effect(u)
    BY <2>2, <2>3, <2>4 DEF Abstract!Effect, Abstract!NoRequest, NoRequest, Map
  <2> QED
    BY <2>2, <2>5
<1>4. CASE GetFound(u)
  <2> DEFINE v == ent[cur[u]].value
  <2>1. Decide(u, "get", TRUE, v) /\ Decides(u, "get", v)
    BY <1>4 DEF GetFound, Decides
  <2>2. Lookup(req[u].key) = v /\ v \in Values /\ v # NULL
    BY <2>1, FoundValue
  <2>3. v \in Results \ {NULL}
    BY <2>2 DEF Results
  <2>4. Inv' /\ Map' = Map
    BY <1>1, <2>1, <2>3, OnlyDecides
  <2> HIDE DEF v
  <2>5. /\ ret[u] = NULL /\ ret' = [ret EXCEPT ![u] = v]
        /\ req[u] # NoRequest /\ req[u].op = "get" /\ req[u].key \in Keys /\ req' = req
    <3>1. Decided(u, "get", v)
      BY <2>1, DecidedFacts
    <3> QED
      BY <3>1 DEF Decided
  <2>6. Abstract!Effect(u)
    BY <2>2, <2>4, <2>5 DEF Abstract!Effect, Abstract!NoRequest, NoRequest, Map
  <2> QED
    BY <2>4, <2>6
<1> QED
  BY <1>2, <1>3, <1>4

\* insert finds the key: the value is overwritten, the new entry freed.
LEMMA UpdateStep ==
    ASSUME Inv, NEW u \in Users, InsertUpdate(u)
    PROVE  Inv' /\ Abstract!Effect(u)
<1> DEFINE b == Bucket(u)
           e0 == cur[u]
           n == new_entry[u]
           v == req[u].value
<1>1. /\ Decide(u, "insert", TRUE, "ok") /\ Decides(u, "insert", "ok")
      /\ "ok" \in Results \ {NULL}
      /\ ent' = [ent EXCEPT ![e0].value = v]
      /\ used' = used \ {n}
      /\ new_entry' = [new_entry EXCEPT ![u] = NULL]
      /\ list' = list /\ num' = num
  BY LockAssumption DEF InsertUpdate, Results, Decides, bucketVars
<1>2. /\ pc[u] = "walk" /\ ret[u] = NULL /\ ret' = [ret EXCEPT ![u] = "ok"]
      /\ req[u] \in Abstract!Requests /\ req[u] # NoRequest /\ req[u].op = "insert"
      /\ req[u].key \in Keys /\ b \in Buckets /\ b = Hash[req[u].key]
      /\ Distinct(list[b], ent) /\ list[b] \in Seq(Entries)
      /\ n # NULL
      /\ UNCHANGED <<lock, req, cur, mod>>
  <2>1. Decided(u, "insert", "ok")
    BY <1>1, DecidedFacts
  <2> QED
    BY <2>1 DEF Decided
<1>3. e0 \in On(b) /\ e0 \in Entries /\ ent[e0].key = req[u].key
  BY <1>1, DecideFacts
<1>4. /\ CallInv'
      /\ pc' \in [Users -> Labels] /\ ret' \in [Users -> Results]
      /\ \A w \in Users : pc'[w] = IF w = u THEN "unlock" ELSE pc[w]
      /\ \A w \in Users : new_entry'[w] = IF w = u THEN NULL ELSE new_entry[w]
      /\ new_entry' \in [Users -> Entries \cup {NULL}]
  BY <1>1, DecideControl
<1>5. v \in Values
  BY <1>2 DEF Abstract!Requests
<1>6. n \in used /\ n # e0 /\ \A c \in Buckets : n \notin On(c)
  BY <1>2, <1>3 DEF Inv, HeldInv
<1> HIDE DEF b, e0, n
<1>7. /\ ent' \in [Entries -> [key : Keys \cup {NULL}, value : Values \cup {NULL}]]
      /\ \A e \in Entries : ent'[e].key = ent[e].key
      /\ \A e \in Entries : ent'[e].value = IF e = e0 THEN v ELSE ent[e].value
      /\ \A e \in Entries : e # e0 => ent'[e] = ent[e]
  BY <1>1, <1>3, <1>5 DEF Inv, TypeOK
<1>8. TypeOK'
  BY <1>1, <1>2, <1>4, <1>7 DEF Inv, TypeOK
<1>9. \A c \in Buckets : On(c)' = On(c) /\ On(c) \subseteq Entries
  <2>1. \A c \in Buckets : list[c] \in Seq(Entries)
    BY DEF Inv, TypeOK
  <2> QED
    BY <1>1, <2>1, Members DEF On
<1>10. ListInv'
  <2>1. ASSUME NEW c \in Buckets  PROVE Distinct(list[c], ent')
    <3>1. Distinct(list[c], ent) /\ list[c] \in Seq(Entries)
      BY DEF Inv, ListInv, TypeOK
    <3> QED
      BY <1>7, <3>1 DEF Distinct
  <2>2. ASSUME NEW c \in Buckets, NEW e \in On(c)
        PROVE  e \in used' /\ Hash[ent'[e].key] = c
    <3>1. e \in used /\ Hash[ent[e].key] = c /\ e \in Entries
      BY <1>9 DEF Inv, ListInv
    <3> QED
      BY <1>1, <1>6, <1>7, <3>1
  <2> QED
    BY <1>1, <1>9, <2>1, <2>2 DEF Inv, ListInv
<1>11. HeldInv'
  <2>1. ASSUME NEW w \in Users, new_entry'[w] # NULL
        PROVE  /\ w # u /\ new_entry'[w] = new_entry[w] /\ new_entry[w] \in used'
               /\ ent'[new_entry[w]] = ent[new_entry[w]]
    <3>1. w # u /\ new_entry'[w] = new_entry[w] /\ new_entry[w] # NULL
      BY <1>4, <2>1
    <3>2. new_entry[w] \in used /\ new_entry[w] \notin On(b) /\ new_entry[w] # n
      BY <1>2, <3>1 DEF Inv, HeldInv, n
    <3>3. new_entry[w] \in Entries /\ new_entry[w] # e0
      BY <1>3, <3>2 DEF Inv, TypeOK
    <3> QED
      BY <1>1, <1>7, <3>1, <3>2, <3>3
  <2> QED
    BY <1>2, <1>4, <1>9, <2>1 DEF Inv, HeldInv
<1>12. UsedInv'
  <2> SUFFICES ASSUME NEW e \in used'
               PROVE  /\ ent'[e].key \in Keys /\ ent'[e].value \in Values
                      /\ (\E c \in Buckets : e \in On(c)) \/ (\E w \in Users : new_entry'[w] = e)
    BY <1>9 DEF UsedInv
  <2>1. e \in used /\ e # n /\ e \in Entries
    BY <1>1 DEF Inv, TypeOK
  <2>2. ent[e].key \in Keys /\ ent[e].value \in Values
    BY <2>1 DEF Inv, UsedInv
  <2>3. (\E c \in Buckets : e \in On(c)) \/ (\E w \in Users : new_entry[w] = e)
    BY <2>1 DEF Inv, UsedInv
  <2>4. ASSUME NEW w \in Users, new_entry[w] = e  PROVE new_entry'[w] = e
    <3>1. w # u
      BY <2>1, <2>4 DEF n
    <3> QED
      BY <1>4, <2>4, <3>1
  <2> QED
    BY <1>5, <1>7, <2>1, <2>2, <2>3, <2>4
<1>13. WalkInv'
  BY <1>1, <1>2, <1>4, <1>7, OtherWalks
<1>14. GoneInv'
  BY <1>1, <1>2 DEF Inv, GoneInv
<1>19. PICK k0 \in Keys : k0 = req[u].key
  BY <1>2
<1>15. Lookup(k0)' = v
  <2>1. ent'[e0].key = k0 /\ ent'[e0].value = v
    BY <1>3, <1>7, <1>19
  <2>2. e0 \in ToSet(list'[Hash[k0]])
    BY <1>1, <1>2, <1>3, <1>19 DEF On
  <2>3. \A e \in ToSet(list'[Hash[k0]]) : ent'[e].key = k0 => Lookup(k0)' = ent'[e].value
    BY <1>8, <1>10, LookupIsNext
  <2> QED
    BY <2>1, <2>2, <2>3
<1>16. ASSUME NEW k \in Keys, k # k0  PROVE Lookup(k)' = Lookup(k)
  <2>1. Hash[k] \in Buckets
    BY LockAssumption
  <2>2. \A e \in Entries : e \in On(Hash[k]) /\ ent[e].key = k
                             <=> e \in On(Hash[k])' /\ ent'[e].key = k
    BY <1>7, <1>9, <2>1
  <2>3. \A e \in On(Hash[k]) : ent[e].key = k => ent'[e].value = ent[e].value
    BY <1>3, <1>7, <1>9, <1>16, <1>19, <2>1
  <2> QED
    BY <1>8, <1>10, <2>2, <2>3, SameLookup DEF Inv
<1>17. Map' = [Map EXCEPT ![k0] = v]
  <2>1. \A k \in Keys : Lookup(k)' = IF k = k0 THEN v ELSE Lookup(k)
    BY <1>15, <1>16
  <2> QED
    BY <1>2, <2>1 DEF Map
<1>18. Abstract!Effect(u)
  BY <1>2, <1>17, <1>19 DEF Abstract!Effect, Abstract!NoRequest, NoRequest, Map
<1> QED
  BY <1>4, <1>8, <1>10, <1>11, <1>12, <1>13, <1>14, <1>18 DEF Inv

\* insert does not find the key: the new entry becomes the first of the list.
LEMMA AddStep ==
    ASSUME Inv, NEW u \in Users, InsertAdd(u)
    PROVE  Inv' /\ Abstract!Effect(u)
<1> DEFINE b == Bucket(u)
           n == new_entry[u]
           v == req[u].value
<1>1. /\ Decide(u, "insert", FALSE, "ok") /\ Decides(u, "insert", "ok")
      /\ "ok" \in Results \ {NULL}
      /\ list' = [list EXCEPT ![b] = <<n>> \o @]
      /\ num' = [num EXCEPT ![b] = @ + 1]
      /\ new_entry' = [new_entry EXCEPT ![u] = NULL]
      /\ ent' = ent /\ used' = used
  BY LockAssumption DEF InsertAdd, Results, Decides
<1>2. /\ pc[u] = "walk" /\ ret[u] = NULL /\ ret' = [ret EXCEPT ![u] = "ok"]
      /\ req[u] \in Abstract!Requests /\ req[u] # NoRequest /\ req[u].op = "insert"
      /\ req[u].key \in Keys /\ b \in Buckets /\ b = Hash[req[u].key]
      /\ Distinct(list[b], ent) /\ list[b] \in Seq(Entries)
      /\ n # NULL
      /\ UNCHANGED <<lock, req, cur, mod>>
  <2>1. Decided(u, "insert", "ok")
    BY <1>1, DecidedFacts
  <2> QED
    BY <2>1 DEF Decided
<1>3. \A e \in On(b) : ent[e].key # req[u].key
  BY <1>1, DecideFacts
<1>4. /\ CallInv'
      /\ pc' \in [Users -> Labels] /\ ret' \in [Users -> Results]
      /\ \A w \in Users : pc'[w] = IF w = u THEN "unlock" ELSE pc[w]
      /\ \A w \in Users : new_entry'[w] = IF w = u THEN NULL ELSE new_entry[w]
      /\ new_entry' \in [Users -> Entries \cup {NULL}]
  BY <1>1, DecideControl
<1>5. v \in Values
  BY <1>2 DEF Abstract!Requests
<1>6. /\ n \in used /\ n \in Entries /\ \A c \in Buckets : n \notin On(c)
      /\ ent[n].key = req[u].key /\ ent[n].value = v
  <2>1. /\ n \in used /\ \A c \in Buckets : n \notin On(c)
        /\ ent[n] = [key |-> req[u].key, value |-> v]
    BY <1>2 DEF Inv, HeldInv
  <2>2. n \in Entries
    BY <2>1 DEF Inv, TypeOK
  <2> QED
    BY <2>1, <2>2
<1> HIDE DEF b, n, v
<1> DEFINE M == <<n>> \o list[b]
<1>7. /\ M \in Seq(Entries) /\ Len(M) = Len(list[b]) + 1
      /\ \A i \in 1 .. Len(list[b]) + 1 : M[i] = IF i = 1 THEN n ELSE list[b][i - 1]
      /\ ToSet(M) = On(b) \cup {n}
  BY <1>2, <1>6, Prepend DEF On
<1> HIDE DEF M
<1>8. /\ list' \in [Buckets -> Seq(Entries)]
      /\ \A c \in Buckets : list'[c] = IF c = b THEN M ELSE list[c]
      /\ num' \in [Buckets -> Int]
      /\ \A c \in Buckets : num'[c] = IF c = b THEN num[b] + 1 ELSE num[c]
  <2>1. list \in [Buckets -> Seq(Entries)] /\ num \in [Buckets -> Int]
    BY DEF Inv, TypeOK
  <2>2. list' = [list EXCEPT ![b] = M]
    BY <1>1 DEF M
  <2>3. num' \in [Buckets -> Int] /\ \A c \in Buckets : num'[c] = IF c = b THEN num[b] + 1 ELSE num[c]
    BY <1>1, <1>2, <2>1
  <2> QED
    BY <1>2, <1>7, <2>1, <2>2, <2>3
<1>9. \A c \in Buckets : /\ On(c) \subseteq Entries
                         /\ On(c)' = IF c = b THEN On(b) \cup {n} ELSE On(c)
  <2>1. \A c \in Buckets : list[c] \in Seq(Entries)
    BY DEF Inv, TypeOK
  <2> QED
    BY <1>7, <1>8, <2>1, Members DEF On
<1>10. TypeOK'
  BY <1>1, <1>2, <1>4, <1>8 DEF Inv, TypeOK
<1>11. Distinct(M, ent)
  BY <1>2, <1>3, <1>6, PrependDistinct DEF On, M
<1>12. ListInv'
  <2> SUFFICES ASSUME NEW c \in Buckets
               PROVE  /\ num'[c] = Len(list'[c]) /\ Distinct(list'[c], ent')
                      /\ \A e \in On(c)' : e \in used' /\ Hash[ent'[e].key] = c
    BY DEF ListInv
  <2>1. /\ num[c] = Len(list[c]) /\ Distinct(list[c], ent)
        /\ \A e \in On(c) : e \in used /\ Hash[ent[e].key] = c
    BY DEF Inv, ListInv
  <2>2. CASE c = b
    <3>1. num'[c] = Len(list'[c]) /\ Distinct(list'[c], ent')
      BY <1>1, <1>7, <1>8, <1>11, <2>1, <2>2
    <3>2. \A e \in On(c)' : e \in used' /\ Hash[ent'[e].key] = c
      BY <1>1, <1>2, <1>6, <1>9, <2>1, <2>2
    <3> QED
      BY <3>1, <3>2
  <2>3. CASE c # b
    BY <1>1, <1>8, <1>9, <2>1, <2>3
  <2> QED
    BY <2>2, <2>3
<1>13. HeldInv'
  <2>1. ASSUME NEW w \in Users, new_entry'[w] # NULL
        PROVE  /\ w # u /\ new_entry'[w] = new_entry[w] /\ new_entry[w] # n
               /\ \A c \in Buckets : new_entry[w] \notin On(c)'
    <3>1. w # u /\ new_entry'[w] = new_entry[w] /\ new_entry[w] # NULL
      BY <1>4, <2>1
    <3>2. new_entry[w] # n /\ \A c \in Buckets : new_entry[w] \notin On(c)
      BY <1>2, <3>1 DEF Inv, HeldInv, n
    <3> QED
      BY <1>9, <3>1, <3>2
  <2> QED
    BY <1>1, <1>2, <1>4, <2>1 DEF Inv, HeldInv
<1>14. UsedInv'
  <2> SUFFICES ASSUME NEW e \in used
               PROVE  /\ ent[e].key \in Keys /\ ent[e].value \in Values
                      /\ (\E c \in Buckets : e \in On(c)') \/ (\E w \in Users : new_entry'[w] = e)
    BY <1>1 DEF UsedInv
  <2>1. /\ ent[e].key \in Keys /\ ent[e].value \in Values
        /\ (\E c \in Buckets : e \in On(c)) \/ (\E w \in Users : new_entry[w] = e)
    BY DEF Inv, UsedInv
  <2>2. CASE e = n
    BY <1>2, <1>9, <2>1, <2>2
  <2>3. CASE e # n
    BY <1>4, <1>9, <2>1, <2>3 DEF n
  <2> QED
    BY <2>2, <2>3
<1>15. WalkInv'
  <2>1. \A c \in Buckets \ {Bucket(u)} : list'[c] = list[c]
    BY <1>8 DEF b
  <2> QED
    BY <1>1, <1>2, <1>4, <2>1, OtherWalks
<1>16. GoneInv'
  <2>1. mod = "live"
    BY <1>2 DEF Inv, CallInv
  <2> QED
    BY <1>2, <2>1 DEF GoneInv
<1>17. PICK k0 \in Keys : k0 = req[u].key
  BY <1>2
<1>18. Lookup(k0)' = v
  <2>1. n \in ToSet(list'[Hash[k0]]) /\ ent'[n].key = k0 /\ ent'[n].value = v
    BY <1>1, <1>2, <1>6, <1>9, <1>17 DEF On
  <2>2. \A e \in ToSet(list'[Hash[k0]]) : ent'[e].key = k0 => Lookup(k0)' = ent'[e].value
    BY <1>10, <1>12, LookupIsNext
  <2> QED
    BY <2>1, <2>2
<1>19. ASSUME NEW k \in Keys, k # k0  PROVE Lookup(k)' = Lookup(k)
  <2>1. Hash[k] \in Buckets
    BY LockAssumption
  <2>2. \A e \in Entries : e \in On(Hash[k]) /\ ent[e].key = k
                             <=> e \in On(Hash[k])' /\ ent'[e].key = k
    BY <1>1, <1>6, <1>9, <1>17, <1>19, <2>1
  <2>3. \A e \in On(Hash[k]) : ent[e].key = k => ent'[e].value = ent[e].value
    BY <1>1
  <2> QED
    BY <1>10, <1>12, <2>2, <2>3, SameLookup DEF Inv
<1>20. Map' = [Map EXCEPT ![k0] = v]
  <2>1. \A k \in Keys : Lookup(k)' = IF k = k0 THEN v ELSE Lookup(k)
    BY <1>18, <1>19
  <2> QED
    BY <2>1 DEF Map
<1>21. Abstract!Effect(u)
  BY <1>2, <1>17, <1>20 DEF Abstract!Effect, Abstract!NoRequest, NoRequest, Map, v
<1> QED
  BY <1>4, <1>10, <1>12, <1>13, <1>14, <1>15, <1>16, <1>21 DEF Inv

\* remove finds the key: the entry leaves the list and is freed.
LEMMA RemoveStep ==
    ASSUME Inv, NEW u \in Users, RemoveFound(u)
    PROVE  Inv' /\ Abstract!Effect(u)
<1> DEFINE b == Bucket(u)
           e0 == cur[u]
<1>1. /\ Decide(u, "remove", TRUE, "ok") /\ Decides(u, "remove", "ok")
      /\ "ok" \in Results \ {NULL}
      /\ list' = [list EXCEPT ![b] = Without(@, e0)]
      /\ num' = [num EXCEPT ![b] = @ - 1]
      /\ used' = used \ {e0}
      /\ ent' = ent /\ new_entry' = new_entry
  BY LockAssumption DEF RemoveFound, Results, Decides
<1>2. /\ pc[u] = "walk" /\ ret[u] = NULL /\ ret' = [ret EXCEPT ![u] = "ok"]
      /\ req[u] \in Abstract!Requests /\ req[u] # NoRequest /\ req[u].op = "remove"
      /\ req[u].key \in Keys /\ b \in Buckets /\ b = Hash[req[u].key]
      /\ Distinct(list[b], ent) /\ list[b] \in Seq(Entries)
      /\ UNCHANGED <<lock, req, cur, mod>>
  <2>1. Decided(u, "remove", "ok")
    BY <1>1, DecidedFacts
  <2> QED
    BY <2>1 DEF Decided
<1>22. new_entry[u] = NULL
  BY <1>2 DEF Inv, CallInv
<1>3. e0 \in On(b) /\ e0 \in Entries /\ ent[e0].key = req[u].key
  BY <1>1, DecideFacts
<1>4. /\ CallInv'
      /\ pc' \in [Users -> Labels] /\ ret' \in [Users -> Results]
      /\ \A w \in Users : pc'[w] = IF w = u THEN "unlock" ELSE pc[w]
  <2>1. new_entry' = [new_entry EXCEPT ![u] = NULL]
    BY <1>1, <1>22 DEF Inv, TypeOK
  <2> QED
    BY <1>1, <2>1, DecideControl
<1>5. req[u].value = NULL
  BY <1>2 DEF Abstract!Requests
<1>6. Lookup(req[u].key) # NULL
  BY <1>1, FoundValue
<1> HIDE DEF b, e0
<1> DEFINE W == Without(list[b], e0)
<1>7. /\ W \in Seq(Entries) /\ Len(W) = Len(list[b]) - 1 /\ Len(list[b]) \in Nat
      /\ Distinct(W, ent) /\ ToSet(W) = On(b) \ {e0}
  BY <1>2, <1>3, Removal DEF On
<1> HIDE DEF W
<1>8. /\ list' \in [Buckets -> Seq(Entries)]
      /\ \A c \in Buckets : list'[c] = IF c = b THEN W ELSE list[c]
      /\ num' \in [Buckets -> Int]
      /\ \A c \in Buckets : num'[c] = IF c = b THEN num[b] - 1 ELSE num[c]
  BY <1>1, <1>2, <1>7 DEF Inv, TypeOK, W
<1>9. \A c \in Buckets : /\ On(c) \subseteq Entries
                         /\ On(c)' = IF c = b THEN On(b) \ {e0} ELSE On(c)
  <2>1. \A c \in Buckets : list[c] \in Seq(Entries)
    BY DEF Inv, TypeOK
  <2> QED
    BY <1>7, <1>8, <2>1, Members DEF On
<1>10. TypeOK'
  BY <1>1, <1>2, <1>4, <1>8 DEF Inv, TypeOK
<1>11. \A c \in Buckets \ {b} : e0 \notin On(c)
  BY <1>2, <1>3 DEF Inv, ListInv
<1>12. ListInv'
  <2> SUFFICES ASSUME NEW c \in Buckets
               PROVE  /\ num'[c] = Len(list'[c]) /\ Distinct(list'[c], ent')
                      /\ \A e \in On(c)' : e \in used' /\ Hash[ent'[e].key] = c
    BY DEF ListInv
  <2>1. /\ num[c] = Len(list[c]) /\ Distinct(list[c], ent)
        /\ \A e \in On(c) : e \in used /\ Hash[ent[e].key] = c
    BY DEF Inv, ListInv
  <2>2. CASE c = b
    BY <1>1, <1>7, <1>8, <1>9, <2>1, <2>2
  <2>3. CASE c # b
    BY <1>1, <1>8, <1>9, <1>11, <2>1, <2>3
  <2> QED
    BY <2>2, <2>3
<1>13. HeldInv'
  <2>1. ASSUME NEW w \in Users, new_entry[w] # NULL
        PROVE  new_entry[w] \in used' /\ \A c \in Buckets : new_entry[w] \notin On(c)'
    <3>1. new_entry[w] \in used /\ \A c \in Buckets : new_entry[w] \notin On(c)
      BY <2>1 DEF Inv, HeldInv
    <3> QED
      BY <1>1, <1>2, <1>3, <1>9, <3>1
  <2> QED
    BY <1>1, <1>2, <2>1 DEF Inv, HeldInv
<1>14. UsedInv'
  BY <1>1, <1>9 DEF Inv, UsedInv
<1>15. WalkInv'
  <2>1. \A c \in Buckets \ {Bucket(u)} : list'[c] = list[c]
    BY <1>8 DEF b
  <2> QED
    BY <1>1, <1>2, <1>4, <2>1, OtherWalks
<1>16. GoneInv'
  <2>1. mod = "live"
    BY <1>2 DEF Inv, CallInv
  <2> QED
    BY <1>2, <2>1 DEF GoneInv
<1>17. PICK k0 \in Keys : k0 = req[u].key
  BY <1>2
<1>18. Lookup(k0)' = NULL
  <2>1. \A e \in On(b) : ent[e].key = k0 => e = e0
    <3>1. ASSUME NEW e \in On(b), ent[e].key = k0  PROVE e = e0
      <4>1. PICK i \in 1 .. Len(list[b]) : list[b][i] = e
        BY <1>2, Members DEF On
      <4>2. PICK j \in 1 .. Len(list[b]) : list[b][j] = e0
        BY <1>2, <1>3, Members DEF On
      <4> QED
        BY <1>2, <1>3, <1>17, <3>1, <4>1, <4>2 DEF Distinct
    <3> QED
      BY <3>1
  <2>2. \A e \in ToSet(list'[Hash[k0]]) : ent'[e].key # k0
    BY <1>1, <1>2, <1>9, <1>17, <2>1 DEF On
  <2>3. (\A e \in ToSet(list'[Hash[k0]]) : ent'[e].key # k0) => Lookup(k0)' = NULL
    BY <1>10, <1>12, LookupIsNext
  <2> QED
    BY <2>2, <2>3
<1>19. ASSUME NEW k \in Keys, k # k0  PROVE Lookup(k)' = Lookup(k)
  <2>1. Hash[k] \in Buckets
    BY LockAssumption
  <2>2. \A e \in Entries : e \in On(Hash[k]) /\ ent[e].key = k
                             <=> e \in On(Hash[k])' /\ ent'[e].key = k
    BY <1>1, <1>3, <1>9, <1>17, <1>19, <2>1
  <2>3. \A e \in On(Hash[k]) : ent[e].key = k => ent'[e].value = ent[e].value
    BY <1>1
  <2> QED
    BY <1>10, <1>12, <2>2, <2>3, SameLookup DEF Inv
<1>20. Map' = [Map EXCEPT ![k0] = NULL]
  <2>1. \A k \in Keys : Lookup(k)' = IF k = k0 THEN NULL ELSE Lookup(k)
    BY <1>18, <1>19
  <2> QED
    BY <2>1 DEF Map
<1>21. Abstract!Effect(u)
  BY <1>2, <1>5, <1>6, <1>17, <1>20 DEF Abstract!Effect, Abstract!NoRequest, NoRequest, Map
<1> QED
  BY <1>4, <1>10, <1>12, <1>13, <1>14, <1>15, <1>16, <1>21 DEF Inv

------------------------------------------------------------------------------
(* The other steps.                                                        *)

\* insert allocates and fills its entry before it has the lock.
LEMMA InsertStep ==
    ASSUME Inv, NEW u \in Users, NEW k \in Keys, NEW v \in Values, WriteInsert(u, k, v)
    PROVE  Inv' /\ Abstract!Begin(u)
<1> DEFINE r == [op |-> "insert", key |-> k, value |-> v]
<1>1. Enter(u, "insert", k, v) /\ r \in Abstract!Requests
  BY DEF WriteInsert, Abstract!Requests
<1>2. /\ mod = "live" /\ pc[u] = "idle" /\ req[u] = NoRequest
      /\ new_entry[u] = NULL /\ ret[u] = NULL
      /\ pc' = [pc EXCEPT ![u] = "lock"] /\ pc' \in [Users -> Labels]
      /\ req' = [req EXCEPT ![u] = r]
      /\ req' \in [Users -> Abstract!Requests \cup {NoRequest}]
      /\ r # NoRequest
  BY <1>1, EnterFacts
<1>3. /\ r.op = "insert" /\ r.key = k /\ r.value = v
  OBVIOUS
<1> HIDE DEF r
<1>4. PICK n \in Entries \ used : /\ used' = used \cup {n}
                                  /\ ent' = [ent EXCEPT ![n] = [key |-> k, value |-> v]]
                                  /\ new_entry' = [new_entry EXCEPT ![u] = n]
  BY DEF WriteInsert
<1>5. UNCHANGED <<list, num, lock, cur, ret, mod>>
  BY DEF WriteInsert, bucketVars
<1>6. /\ ent' \in [Entries -> [key : Keys \cup {NULL}, value : Values \cup {NULL}]]
      /\ ent'[n] = [key |-> k, value |-> v]
      /\ \A e \in Entries : e # n => ent'[e] = ent[e]
  BY <1>4 DEF Inv, TypeOK
<1>7. /\ new_entry' \in [Users -> Entries \cup {NULL}] /\ n # NULL
      /\ \A w \in Users : new_entry'[w] = IF w = u THEN n ELSE new_entry[w]
  BY <1>4, LockAssumption DEF Inv, TypeOK
<1>8. /\ \A w \in Users : pc'[w] = IF w = u THEN "lock" ELSE pc[w]
      /\ \A w \in Users : req'[w] = IF w = u THEN r ELSE req[w]
  BY <1>2 DEF Inv, TypeOK
<1>9. TypeOK'
  BY <1>2, <1>4, <1>5, <1>6, <1>7 DEF Inv, TypeOK
<1>10. \A c \in Buckets : /\ On(c) \subseteq Entries /\ On(c)' = On(c)
                          /\ list[c] \in Seq(Entries) /\ n \notin On(c)
  <2>1. \A c \in Buckets : list[c] \in Seq(Entries)
    BY DEF Inv, TypeOK
  <2> QED
    BY <1>4, <1>5, <2>1, Members DEF Inv, ListInv, On
<1>11. \A c \in Buckets : \A i \in 1 .. Len(list[c]) : ent'[list[c][i]] = ent[list[c][i]]
  <2>1. ASSUME NEW c \in Buckets, NEW i \in 1 .. Len(list[c])
        PROVE  list[c][i] \in On(c)
    BY <1>10, Members DEF On
  <2> QED
    BY <1>6, <1>10, <2>1
<1>12. ListInv'
  <2> SUFFICES ASSUME NEW c \in Buckets
               PROVE  /\ num[c] = Len(list[c]) /\ Distinct(list[c], ent')
                      /\ \A e \in On(c) : e \in used' /\ Hash[ent'[e].key] = c
    BY <1>5, <1>10 DEF ListInv
  <2>1. num[c] = Len(list[c]) /\ Distinct(list[c], ent)
    BY DEF Inv, ListInv
  <2>2. Distinct(list[c], ent')
    BY <1>11, <2>1 DEF Distinct
  <2>3. \A e \in On(c) : e \in used /\ Hash[ent[e].key] = c
    BY DEF Inv, ListInv
  <2> QED
    BY <1>4, <1>6, <1>10, <2>1, <2>2, <2>3
<1>13. HeldInv'
  <2> SUFFICES ASSUME NEW w \in Users, new_entry'[w] # NULL
               PROVE  /\ new_entry'[w] \in used'
                      /\ ent'[new_entry'[w]] = [key |-> req'[w].key, value |-> req'[w].value]
                      /\ \A b \in Buckets : new_entry'[w] \notin On(b)
                      /\ \A x \in Users : new_entry'[x] = new_entry'[w] => x = w
    BY <1>10 DEF HeldInv
  <2>1. \A x \in Users : new_entry[x] # NULL =>
            new_entry[x] \in used /\ new_entry[x] # n /\ new_entry[x] \in Entries
    BY <1>4 DEF Inv, HeldInv, TypeOK
  <2>2. CASE w = u
    <3>1. \A x \in Users : new_entry'[x] = n => x = w
      BY <1>7, <2>1, <2>2
    <3> QED
      BY <1>3, <1>4, <1>6, <1>7, <1>8, <1>10, <2>2, <3>1
  <2>3. CASE w # u
    <3>1. /\ new_entry'[w] = new_entry[w] /\ new_entry[w] # NULL
          /\ ent'[new_entry[w]] = ent[new_entry[w]] /\ req'[w] = req[w]
      BY <1>6, <1>7, <1>8, <2>1, <2>3
    <3>2. /\ new_entry[w] \in used
          /\ ent[new_entry[w]] = [key |-> req[w].key, value |-> req[w].value]
          /\ \A b \in Buckets : new_entry[w] \notin On(b)
          /\ \A x \in Users : new_entry[x] = new_entry[w] => x = w
      BY <3>1 DEF Inv, HeldInv
    <3>3. \A x \in Users : new_entry'[x] = new_entry[w] => x = w
      BY <1>7, <2>1, <3>1, <3>2
    <3> QED
      BY <1>4, <3>1, <3>2, <3>3
  <2> QED
    BY <2>2, <2>3
<1>14. UsedInv'
  <2> SUFFICES ASSUME NEW e \in used'
               PROVE  /\ ent'[e].key \in Keys /\ ent'[e].value \in Values
                      /\ (\E c \in Buckets : e \in On(c)) \/ (\E w \in Users : new_entry'[w] = e)
    BY <1>10 DEF UsedInv
  <2>1. CASE e = n
    BY <1>6, <1>7, <2>1
  <2>2. CASE e # n
    <3>1. /\ e \in used /\ e \in Entries
          /\ ent[e].key \in Keys /\ ent[e].value \in Values
          /\ (\E c \in Buckets : e \in On(c)) \/ (\E w \in Users : new_entry[w] = e)
      BY <1>4, <2>2 DEF Inv, UsedInv, TypeOK
    <3>2. e # NULL
      BY <3>1, LockAssumption
    <3>3. ASSUME NEW w \in Users, new_entry[w] = e  PROVE new_entry'[w] = e
      BY <1>2, <1>7, <3>2, <3>3
    <3> QED
      BY <1>6, <2>2, <3>1, <3>3
  <2> QED
    BY <2>1, <2>2
<1>15. CallInv'
  <2>1. \A w \in Users \ {u} : Bucket(w)' = Bucket(w)
    BY <1>8 DEF Bucket
  <2> QED
    BY <1>2, <1>3, <1>5, <1>7, <1>8, <2>1 DEF Inv, CallInv
<1>16. WalkInv'
  <2> SUFFICES ASSUME NEW w \in Users, pc'[w] = "walk"
               PROVE  \/ /\ cur'[w] = NULL
                         /\ NotBefore(list'[Bucket(w)'], ent', Len(list'[Bucket(w)']) + 1, req'[w].key)
                      \/ \E i \in 1 .. Len(list'[Bucket(w)']) :
                            /\ list'[Bucket(w)'][i] = cur'[w]
                            /\ NotBefore(list'[Bucket(w)'], ent', i, req'[w].key)
    BY DEF WalkInv
  <2>1. w # u /\ pc[w] = "walk" /\ req'[w] = req[w] /\ Bucket(w)' = Bucket(w)
    BY <1>8 DEF Bucket
  <2>2. Bucket(w) \in Buckets
    <3>1. req[w] \in Abstract!Requests
      BY <2>1 DEF Inv, TypeOK, CallInv
    <3> QED
      BY <3>1, LockAssumption DEF Abstract!Requests, Bucket
  <2>3. \A i : NotBefore(list[Bucket(w)], ent, i, req[w].key)
                  => NotBefore(list[Bucket(w)], ent', i, req[w].key)
    BY <1>11, <2>2 DEF NotBefore
  <2>4. \/ cur[w] = NULL /\ NotBefore(list[Bucket(w)], ent, Len(list[Bucket(w)]) + 1, req[w].key)
        \/ \E i \in 1 .. Len(list[Bucket(w)]) :
              /\ list[Bucket(w)][i] = cur[w]
              /\ NotBefore(list[Bucket(w)], ent, i, req[w].key)
    BY <2>1 DEF Inv, WalkInv
  <2> QED
    BY <1>5, <2>1, <2>3, <2>4
<1>17. GoneInv'
  BY <1>2, <1>5 DEF GoneInv
<1>18. Map' = Map
  <2>1. ASSUME NEW c \in Keys  PROVE Lookup(c)' = Lookup(c)
    <3>1. Hash[c] \in Buckets
      BY LockAssumption
    <3>2. \A e \in On(Hash[c]) : ent'[e] = ent[e]
      BY <1>6, <1>10, <3>1
    <3>3. \A e \in Entries : e \in On(Hash[c]) /\ ent[e].key = c
                               <=> e \in On(Hash[c])' /\ ent'[e].key = c
      BY <1>10, <3>1, <3>2
    <3>4. \A e \in On(Hash[c]) : ent[e].key = c => ent'[e].value = ent[e].value
      BY <3>2
    <3> QED
      BY <1>9, <1>12, <3>3, <3>4, SameLookup DEF Inv
  <2> QED
    BY <2>1 DEF Map
<1>19. Abstract!Begin(u)
  BY <1>1, <1>2, <1>5, <1>18 DEF Abstract!Begin, Abstract!NoRequest, NoRequest, Map
<1> QED
  BY <1>9, <1>12, <1>13, <1>14, <1>15, <1>16, <1>17, <1>19 DEF Inv

LEMMA UnlockStep ==
    ASSUME Inv, NEW u \in Users, Unlock(u)
    PROVE  Inv' /\ Abstract!End(u)
<1>1. /\ pc[u] = "unlock" /\ pc' = [pc EXCEPT ![u] = "idle"]
      /\ lock' = [lock EXCEPT ![Bucket(u)] = NULL]
      /\ cur' = [cur EXCEPT ![u] = NULL]
      /\ req' = [req EXCEPT ![u] = NoRequest]
      /\ ret' = [ret EXCEPT ![u] = NULL]
      /\ Quiet /\ mod' = mod
  BY DEF Unlock, Goto, bucketVars, Quiet
<1>2. ret[u] # NULL /\ new_entry[u] = NULL
  BY <1>1 DEF Inv, CallInv
<1>3. TypeOK'
  BY <1>1 DEF Inv, TypeOK, Quiet, Labels, Results
<1>4. ListInv' /\ UsedInv' /\ Map' = Map
  BY <1>1, QuietStep
<1>5. \A w \in Users : /\ pc'[w] = IF w = u THEN "idle" ELSE pc[w]
                       /\ req'[w] = IF w = u THEN NoRequest ELSE req[w]
                       /\ ret'[w] = IF w = u THEN NULL ELSE ret[w]
                       /\ cur'[w] = IF w = u THEN NULL ELSE cur[w]
  BY <1>1 DEF Inv, TypeOK
<1>6. \A w \in Users \ {u} : Bucket(w)' = Bucket(w)
  BY <1>5 DEF Bucket
<1>7. CallInv'
  <2>1. ASSUME NEW w \in Users, pc'[w] \in {"walk", "unlock"}  PROVE lock'[Bucket(w)'] = w
    <3>1. w # u /\ pc[w] \in {"walk", "unlock"}
      BY <1>5, <2>1
    <3>2. Bucket(w) # Bucket(u)
      BY <1>1, <3>1, OtherBucket
    <3>3. lock[Bucket(w)] = w
      BY <3>1 DEF Inv, CallInv
    <3>4. Bucket(w) \in Buckets
      <4>1. req[w] \in Abstract!Requests
        BY <3>1 DEF Inv, TypeOK, CallInv
      <4> QED
        BY <4>1, LockAssumption DEF Abstract!Requests, Bucket
    <3> QED
      BY <1>1, <1>6, <3>1, <3>2, <3>3, <3>4 DEF Inv, TypeOK
  <2> QED
    BY <1>1, <1>2, <1>5, <2>1 DEF Inv, CallInv, Quiet
<1>8. HeldInv'
  BY <1>1, <1>2, <1>5 DEF Inv, HeldInv, Quiet, On
<1>9. WalkInv'
  BY <1>1, <1>5, <1>6 DEF Inv, WalkInv, Quiet
<1>10. GoneInv'
  BY <1>1 DEF Inv, GoneInv, Quiet
<1>11. Abstract!End(u)
  BY <1>1, <1>2, <1>4 DEF Abstract!End, Abstract!NoRequest, NoRequest, Map
<1> QED
  BY <1>3, <1>4, <1>7, <1>8, <1>9, <1>10, <1>11 DEF Inv

\* Loading, and unloading but for the lists.
LEMMA LoadStep ==
    ASSUME Inv, ModuleInit \/ CreateEntry \/ Exit \/ Destroy
    PROVE  Inv' /\ UNCHANGED <<Map, req, ret>>
<1>1. /\ Quiet /\ UNCHANGED <<lock, pc, req, cur, ret>> /\ mod' \in Modules
      /\ mod = "live" => \A u \in Users : pc[u] = "idle"
      /\ mod' = "gone" => \A b \in Buckets : list[b] = <<>>
  BY DEF ModuleInit, CreateEntry, Exit, Destroy, Loads, bucketVars, Quiet, Modules
<1>2. \A u \in Users : pc[u] = "idle"
  BY <1>1 DEF Inv, CallInv
<1>3. ListInv' /\ UsedInv' /\ Map' = Map
  BY <1>1, QuietStep
<1>4. TypeOK'
  BY <1>1 DEF Inv, TypeOK, Quiet
<1>5. CallInv'
  BY <1>1, <1>2 DEF Inv, CallInv, Quiet
<1>6. HeldInv' /\ WalkInv' /\ GoneInv'
  BY <1>1, <1>2 DEF Inv, HeldInv, WalkInv, GoneInv, Quiet, On
<1> QED
  BY <1>1, <1>3, <1>4, <1>5, <1>6 DEF Inv

\* pe_map_flush, one bucket.
LEMMA FlushStep ==
    ASSUME Inv, NEW b \in Buckets, Flush(b)
    PROVE  Inv' /\ Abstract!Clear
<1>1. /\ mod = "destroy"
      /\ used' = used \ On(b)
      /\ num' = [num EXCEPT ![b] = @ - Len(list[b])]
      /\ list' = [list EXCEPT ![b] = <<>>]
      /\ UNCHANGED <<lock, ent, pc, req, cur, new_entry, ret, mod>>
  BY DEF Flush, On
<1>2. \A u \in Users : pc[u] = "idle" /\ req[u] = NoRequest /\ new_entry[u] = NULL
  BY <1>1 DEF Inv, CallInv
<1>3. list[b] \in Seq(Entries) /\ Len(list[b]) \in Nat /\ num[b] = Len(list[b])
  BY DEF Inv, TypeOK, ListInv
<1>4. /\ list' \in [Buckets -> Seq(Entries)]
      /\ \A c \in Buckets : list'[c] = IF c = b THEN <<>> ELSE list[c]
      /\ num' \in [Buckets -> Int]
      /\ \A c \in Buckets : num'[c] = IF c = b THEN 0 ELSE num[c]
  BY <1>1, <1>3 DEF Inv, TypeOK
<1>5. \A c \in Buckets : /\ On(c) \subseteq Entries
                         /\ On(c)' = IF c = b THEN {} ELSE On(c)
  <2>1. \A c \in Buckets : list[c] \in Seq(Entries)
    BY DEF Inv, TypeOK
  <2>2. ToSet(<<>>) = {}
    BY DEF ToSet
  <2> QED
    BY <1>4, <2>1, <2>2, Members DEF On
<1>6. TypeOK'
  BY <1>1, <1>4 DEF Inv, TypeOK
<1>7. ListInv'
  <2> SUFFICES ASSUME NEW c \in Buckets
               PROVE  /\ num'[c] = Len(list'[c]) /\ Distinct(list'[c], ent)
                      /\ \A e \in On(c)' : e \in used' /\ Hash[ent[e].key] = c
    BY <1>1 DEF ListInv
  <2>1. CASE c = b
    BY <1>4, <1>5, <2>1 DEF Distinct
  <2>2. CASE c # b
    <3>1. /\ num[c] = Len(list[c]) /\ Distinct(list[c], ent)
          /\ \A e \in On(c) : e \in used /\ Hash[ent[e].key] = c
      BY DEF Inv, ListInv
    <3>2. \A e \in On(c) : e \notin On(b)
      BY <2>2, <3>1 DEF Inv, ListInv
    <3> QED
      BY <1>1, <1>4, <1>5, <2>2, <3>1, <3>2
  <2> QED
    BY <2>1, <2>2
<1>8. HeldInv' /\ CallInv' /\ WalkInv' /\ GoneInv'
  <2>1. HeldInv' /\ WalkInv' /\ GoneInv'
    BY <1>1, <1>2 DEF HeldInv, WalkInv, GoneInv
  <2>2. \A w \in Users : Bucket(w)' = Bucket(w)
    BY <1>1 DEF Bucket
  <2> QED
    BY <1>1, <2>1, <2>2 DEF Inv, CallInv
<1>9. UsedInv'
  <2> SUFFICES ASSUME NEW e \in used, e \notin On(b)
               PROVE  /\ ent[e].key \in Keys /\ ent[e].value \in Values
                      /\ \E c \in Buckets : e \in On(c)'
    BY <1>1 DEF UsedInv
  <2>1. /\ ent[e].key \in Keys /\ ent[e].value \in Values
        /\ (\E c \in Buckets : e \in On(c)) \/ (\E w \in Users : new_entry[w] = e)
    BY DEF Inv, UsedInv
  <2>2. e # NULL
    BY LockAssumption DEF Inv, TypeOK
  <2> QED
    BY <1>2, <1>5, <2>1, <2>2
<1> DEFINE K == {k \in Keys : Hash[k] = b}
<1>10. ASSUME NEW k \in Keys  PROVE Lookup(k)' = IF k \in K THEN NULL ELSE Lookup(k)
  <2>1. Hash[k] \in Buckets
    BY LockAssumption
  <2>2. CASE Hash[k] = b
    <3>1. \A e \in ToSet(list'[Hash[k]]) : FALSE
      BY <1>5, <2>2 DEF On
    <3>2. (\A e \in ToSet(list'[Hash[k]]) : ent'[e].key # k) => Lookup(k)' = NULL
      BY <1>6, <1>7, LookupIsNext
    <3> QED
      BY <2>2, <3>1, <3>2
  <2>3. CASE Hash[k] # b
    <3>1. \A e \in Entries : e \in On(Hash[k]) /\ ent[e].key = k
                               <=> e \in On(Hash[k])' /\ ent'[e].key = k
      BY <1>1, <1>5, <2>1, <2>3
    <3>2. \A e \in On(Hash[k]) : ent[e].key = k => ent'[e].value = ent[e].value
      BY <1>1
    <3>3. Lookup(k)' = Lookup(k)
      BY <1>6, <1>7, <3>1, <3>2, SameLookup DEF Inv
    <3> QED
      BY <2>3, <3>3
  <2> QED
    BY <2>2, <2>3
<1>11. Map' = [k \in Keys |-> IF k \in K THEN NULL ELSE Map[k]]
  BY <1>10 DEF Map
<1>12. Abstract!Clear
  <2>1. K \in SUBSET Keys
    OBVIOUS
  <2> HIDE DEF K
  <2> QED
    BY <1>1, <1>2, <1>11, <2>1 DEF Abstract!Clear, Abstract!NoRequest, NoRequest, Map
<1> QED
  BY <1>6, <1>7, <1>8, <1>9, <1>12 DEF Inv

LEMMA Start == Init => Inv /\ Abstract!Init
<1> SUFFICES ASSUME Init PROVE Inv /\ Abstract!Init
  OBVIOUS
<1>1. TypeOK
  BY DEF Init, TypeOK, Labels, Results, Modules
<1>2. \A b \in Buckets : list[b] = <<>> /\ On(b) = {}
  <2>1. ToSet(<<>>) = {}
    BY DEF ToSet
  <2> QED
    BY <2>1 DEF Init, On
<1>3. ListInv
  BY <1>2 DEF Init, ListInv, Distinct
<1>4. HeldInv /\ UsedInv /\ CallInv /\ WalkInv /\ GoneInv
  BY DEF Init, HeldInv, UsedInv, CallInv, WalkInv, GoneInv
<1>5. \A k \in Keys : Lookup(k) = NULL
  <2>1. ASSUME NEW k \in Keys  PROVE Lookup(k) = NULL
    <3>1. \A e \in ToSet(list[Hash[k]]) : FALSE
      BY <1>2, LockAssumption DEF On
    <3> QED
      BY <1>1, <1>3, <3>1, LookupIs
  <2> QED
    BY <2>1
<1>6. Abstract!Init
  BY <1>5 DEF Init, Abstract!Init, Abstract!NoRequest, NoRequest
<1> QED
  BY <1>1, <1>3, <1>4, <1>6 DEF Inv

\* A step keeps the invariant, and is a step of the atomic map or nothing to it.
LEMMA Steps ==
    ASSUME Inv, [Next]_vars
    PROVE  Inv' /\ (Abstract!Next \/ UNCHANGED <<Map, req, ret>>)
<1>1. CASE UNCHANGED vars
  <2>1. Quiet /\ UNCHANGED <<lock, pc, req, cur, ret, mod>>
    BY <1>1 DEF vars, bucketVars, Quiet
  <2>2. ListInv' /\ UsedInv' /\ Map' = Map
    BY <2>1, QuietStep
  <2> QED
    BY <2>1, <2>2 DEF Inv, TypeOK, HeldInv, CallInv, WalkInv, GoneInv, Quiet, On, Bucket
<1>2. CASE Module
  BY <1>2, LoadStep, FlushStep DEF Module, Abstract!Next
<1>3. ASSUME NEW u \in Users, Thread(u)
      PROVE  Inv' /\ (Abstract!Begin(u) \/ Abstract!Effect(u) \/ Abstract!End(u)
                        \/ UNCHANGED <<Map, req, ret>>)
  <2>1. ASSUME NEW k \in Keys, WriteRemove(u, k) \/ Read(u, k)
        PROVE  Inv' /\ Abstract!Begin(u)
    BY <2>1, BeginStep
  <2>2. ASSUME NEW k \in Keys, NEW v \in Values, WriteInsert(u, k, v)
        PROVE  Inv' /\ Abstract!Begin(u)
    BY <2>2, InsertStep
  <2>3. InsertNoMemory(u) \/ Lock(u) \/ Walk(u) => Inv' /\ UNCHANGED <<Map, req, ret>>
    BY NoMemoryStep, LockStep, WalkStep
  <2>4. InsertUpdate(u) \/ InsertAdd(u) \/ RemoveFound(u) \/ RemoveMissing(u)
            \/ GetFound(u) \/ GetMissing(u)
          => Inv' /\ Abstract!Effect(u)
    BY UpdateStep, AddStep, RemoveStep, MissingStep
  <2>5. Unlock(u) => Inv' /\ Abstract!End(u)
    BY UnlockStep
  <2> QED
    BY <1>3, <2>1, <2>2, <2>3, <2>4, <2>5 DEF Thread
<1> QED
  BY <1>1, <1>2, <1>3 DEF Next, Abstract!Next

------------------------------------------------------------------------------
(* The theorems.                                                           *)

\* The invariant, for any number of threads, keys, buckets and addresses.
THEOREM Inductive == Spec => []Inv
<1>1. Inv /\ [Next]_vars => Inv'
  BY Steps
<1> QED
  BY Start, <1>1, PTL DEF Spec

\* No entry is lost, freed twice, or on two lists, and none is left when the
\* slab cache is destroyed (pe_map_insert, pe_map_remove, pe_map_flush).
THEOREM Accounted == Spec => []EntriesAccounted
<1> DEFINE held == {u \in Users : new_entry[u] # NULL}
<1>1. ASSUME Inv  PROVE used = (UNION {On(b) : b \in Buckets}) \cup {new_entry[u] : u \in held}
  <2>1. \A e \in used : \/ \E b \in Buckets : e \in On(b)
                        \/ \E u \in Users : new_entry[u] = e /\ e # NULL
    BY <1>1, LockAssumption DEF Inv, UsedInv, TypeOK
  <2>2. \A b \in Buckets : \A e \in On(b) : e \in used
    BY <1>1 DEF Inv, ListInv
  <2>3. \A u \in held : new_entry[u] \in used
    BY <1>1 DEF Inv, HeldInv
  <2> DEFINE listed == UNION {On(b) : b \in Buckets}
             fresh  == {new_entry[u] : u \in held}
  <2>4. \A e : e \in listed <=> \E b \in Buckets : e \in On(b)
    <3> HIDE DEF held
    <3> QED
      BY Zenon
  <2>5. \A e : e \in fresh <=> \E u \in Users : new_entry[u] = e /\ e # NULL
    OBVIOUS
  <2>6. \A e : e \in used <=> e \in listed \/ e \in fresh
    <3>1. \A e \in fresh : e \in used
      BY <2>3
    <3> HIDE DEF listed, fresh
    <3> QED
      BY <2>1, <2>2, <2>4, <2>5, <3>1
  <2>7. used = listed \cup fresh
    <3> HIDE DEF listed, fresh
    <3> QED
      BY <2>6
  <2> QED
    BY <2>7
<1>2. ASSUME Inv, mod = "gone"  PROVE used = {}
  <2>1. \A u \in Users : new_entry[u] = NULL
    BY <1>2 DEF Inv, CallInv
  <2>2. \A b \in Buckets : On(b) = {}
    <3>1. ToSet(<<>>) = {}
      BY DEF ToSet
    <3> QED
      BY <1>2, <3>1 DEF Inv, GoneInv, On
  <2> QED
    BY <1>2, <2>1, <2>2, LockAssumption DEF Inv, UsedInv, TypeOK
<1>3. ASSUME Inv
      PROVE  \A b \in Buckets :
                /\ num[b] = Len(list[b])
                /\ \A i, j \in 1 .. Len(list[b]) :
                      ent[list[b][i]].key = ent[list[b][j]].key => i = j
                /\ \A e \in On(b) : Hash[ent[e].key] = b
                /\ \A u \in held : new_entry[u] \notin On(b)
  BY <1>3 DEF Inv, ListInv, Distinct, HeldInv
<1>4. Inv => EntriesAccounted
  BY <1>1, <1>2, <1>3 DEF EntriesAccounted, On
<1> QED
  BY <1>4, Inductive, PTL

\* Calls to the map are atomic, whatever other threads do and although insert
\* allocates before it locks.
THEOREM Implements == Spec => ImplementsMap
<1>1. Init => Abstract!Init
  BY Start
<1>2. Inv /\ [Next]_vars => [Abstract!Next]_<<[k \in Keys |-> Lookup(k)], req, ret>>
  BY Steps DEF Map
<1> QED
  BY <1>1, <1>2, Inductive, PTL DEF Spec, ImplementsMap, Abstract!Spec
=============================================================================
