--------------------------- MODULE Threads_proofs ---------------------------
(***************************************************************************)
(* Programs whose threads hand things over in a queue.                     *)
(*                                                                         *)
(* Both blocking queues of pthread/blocking_queue implement a first-in     *)
(* first-out channel, and the one with a semaphore pops no empty queue,    *)
(* for any number of producers and consumers and any item_num.  Neither    *)
(* result needs the mutex: in the model each access to the queue is one    *)
(* step, and that the steps do not overlap is the mutex's part.  What has  *)
(* to be shown is the semaphore's: its value, the items put but not        *)
(* announced and the consumers let through add up to the queue.            *)
(*                                                                         *)
(* The benchmark server hands each connection to one loop, and it and its  *)
(* clients stay in step as long as no packet is split, for any number of   *)
(* connections and loops, any size of the packets and of the connections.  *)
(* What has to be shown is more than the length of what is on its way:     *)
(* that a packet which is all there is the one that was filled last.       *)
(***************************************************************************)
EXTENDS ThreadQueues, EchoClients, FiniteSetTheorems, SequenceTheorems, TLAPS

------------------------------------------------------------------------------
(* The blocking queues.                                                    *)


PutLabels == {"put_lock", "put_push", "put_notify", "exited"}
TakeLabels == {"take", "take_lock", "take_pop", "take_test", "take_wait", "exited"}

TypeOK ==
    /\ class \in {"condvar", "semaphore"}
    /\ queue \in Seq(Items)
    /\ pc \in [Threads -> PutLabels \cup TakeLabels]
    /\ \A p \in Producers : pc[p] \in PutLabels
    /\ \A c \in Consumers : pc[c] \in TakeLabels
    /\ cnt \in [Producers -> Nat]
    /\ taken \in [Consumers -> Seq(Items)]
    /\ count \in Nat

\* A producer ends after its last item, a consumer once it has taken NULL.
EndInv ==
    /\ \A p \in Producers : IF pc[p] = "exited" THEN cnt[p] = item_num + 1
                            ELSE cnt[p] <= item_num
    /\ \A c \in Consumers : Channel!Stopped(c) => pc[c] = "exited"

\* The puts that have reached the queue, one pair for each.
Done == {q \in Producers \X (0 .. item_num) :
            q[2] < cnt[q[1]] + (IF pc[q[1]] = "put_notify" THEN 1 ELSE 0)}

LengthInv == Len(queue) <= Cardinality(Done)

Passed == {"take_lock", "take_pop"}
Announcing == {"put_notify"}
nPassed == Cardinality(At(Passed))
nAnnouncing == Cardinality(At(Announcing))

\* Every item in the queue of the semaphore class is in a producer's hands
\* still, or in the semaphore, or somebody is about to take it.
CreditInv ==
    class = "semaphore" => nPassed + count + nAnnouncing = Len(queue)

Inv == TypeOK /\ EndInv /\ LengthInv /\ CreditInv

------------------------------------------------------------------------------
(* What a step of either class does.                                       *)

Notifies(p) ==
    /\ NextPut(p)
    /\ count' = count + (IF class = "semaphore" THEN 1 ELSE 0)
    /\ UNCHANGED <<queue, taken, class>>

Pushes(p) == PutPush(p) /\ UNCHANGED <<class, count>>

Pops(c) ==
    /\ pc[c] = IF class = "semaphore" THEN "take_pop" ELSE "take_test"
    /\ queue # <<>>
    /\ Pop(c)
    /\ UNCHANGED <<cnt, class, count>>

\* c goes on within take(), or p within put(), and nothing is put or taken.
Passes(c) ==
    /\ class = "semaphore" /\ Goto(c, "take", "take_lock")
    /\ count > 0 /\ count' = count - 1
    /\ UNCHANGED <<queue, cnt, taken, class>>

Locks(t, a, b) ==
    /\ \/ t \in Producers /\ a = "put_lock" /\ b = "put_push"
       \/ t \in Consumers /\ a = "take_lock" /\ b = "take_pop"
       \/ t \in Consumers /\ class = "condvar"
            /\ a \in {"take", "take_test", "take_wait"} /\ b \in {"take_test", "take_wait"}
    /\ Goto(t, a, b)
    /\ UNCHANGED <<queue, cnt, taken, class, count>>

Stays == UNCHANGED <<queue, pc, cnt, taken, class, count>>

Effect ==
    \/ \E p \in Producers : Notifies(p) \/ Pushes(p)
    \/ \E c \in Consumers : Pops(c) \/ Passes(c)
    \/ \E t \in Threads, a, b \in PutLabels \cup TakeLabels : Locks(t, a, b)
    \/ Stays

LEMMA Effects == ASSUME TypeOK, [Next]_vars PROVE Effect
<1> USE DEF Effect
<1>1. CASE UNCHANGED vars
  BY <1>1 DEF vars, threadVars, Stays
<1>2. CASE class = "condvar" /\ Condvar!Next /\ UNCHANGED <<class, count>>
  <2>1. ASSUME NEW p \in Producers, Condvar!put(p)  PROVE Effect
    <3>1. CASE Condvar!PutSignal(p)
      <4>1. Notifies(p)
        BY <1>2, <3>1 DEF Condvar!PutSignal, Condvar!NextPut, Condvar!Goto,
              Notifies, NextPut, Goto, TypeOK
      <4> QED BY <4>1
    <3>2. CASE Condvar!PutLock(p)
      <4>1. Locks(p, "put_lock", "put_push")
        BY <1>2, <3>2 DEF Condvar!PutLock, Condvar!Goto, Locks, Goto
      <4> QED BY <4>1 DEF Threads, PutLabels
    <3>3. CASE Condvar!PutPush(p)
      <4>1. Pushes(p)
        BY <1>2, <3>3 DEF Condvar!PutPush, Condvar!Goto, Condvar!Item, Pushes,
              PutPush, Goto, Item
      <4> QED BY <4>1
    <3> QED
      BY <2>1, <3>1, <3>2, <3>3 DEF Condvar!put
  <2>2. ASSUME NEW c \in Consumers, Condvar!take(c)  PROVE Effect
    <3> DEFINE L == {"take", "take_test", "take_wait"}
    <3>1. CASE Condvar!TakePop(c)
      <4>1. Pops(c)
        BY <1>2, <3>1 DEF Condvar!TakePop, Condvar!Pop, Pops, Pop
      <4> QED BY <4>1
    <3>2. CASE Condvar!TakeLock(c)
      <4>1. Locks(c, "take", "take_test")
        BY <1>2, <3>2 DEF Condvar!TakeLock, Condvar!Goto, Locks, Goto
      <4> QED BY <4>1 DEF Threads, TakeLabels
    <3>3. CASE Condvar!TakeWait(c)
      <4>1. Locks(c, "take_test", "take_wait")
        BY <1>2, <3>3 DEF Condvar!TakeWait, Condvar!Goto, Locks, Goto
      <4> QED BY <4>1 DEF Threads, TakeLabels
    <3>4. CASE Condvar!TakeWoken(c)
      <4>1. Locks(c, "take_wait", "take_test")
        BY <1>2, <3>4 DEF Condvar!TakeWoken, Condvar!Goto, Locks, Goto
      <4> QED BY <4>1 DEF Threads, TakeLabels
    <3> QED
      BY <2>2, <3>1, <3>2, <3>3, <3>4 DEF Condvar!take
  <2>3. ASSUME NEW c \in Consumers, Condvar!SpuriousWakeup(c)  PROVE Stays
    BY <1>2, <2>3 DEF Condvar!SpuriousWakeup, Condvar!threadVars, Stays
  <2>4. ASSUME Condvar!Main  PROVE Stays
    BY <1>2, <2>4 DEF Condvar!Main, Condvar!MainReturns, Stays
  <2> QED
    BY <1>2, <2>1, <2>2, <2>3, <2>4 DEF Condvar!Next
<1>3. CASE class = "semaphore" /\ Semaphore!Next /\ UNCHANGED <<class, waiting, spurious>>
  <2>1. ASSUME NEW p \in Producers, Semaphore!put(p)  PROVE Effect
    <3>1. CASE Semaphore!PutPost(p)
      <4>1. Notifies(p)
        BY <1>3, <3>1 DEF Semaphore!PutPost, Semaphore!NextPut, Semaphore!Goto,
              Notifies, NextPut, Goto
      <4> QED BY <4>1
    <3>2. CASE Semaphore!PutLock(p) /\ UNCHANGED count
      <4>1. Locks(p, "put_lock", "put_push")
        BY <1>3, <3>2 DEF Semaphore!PutLock, Semaphore!Goto, Locks, Goto
      <4> QED BY <4>1 DEF Threads, PutLabels
    <3>3. CASE Semaphore!PutPush(p) /\ UNCHANGED count
      <4>1. Pushes(p)
        BY <1>3, <3>3 DEF Semaphore!PutPush, Semaphore!Goto, Semaphore!Item, Pushes,
              PutPush, Goto, Item
      <4> QED BY <4>1
    <3> QED
      BY <2>1, <3>1, <3>2, <3>3 DEF Semaphore!put
  <2>2. ASSUME NEW c \in Consumers, Semaphore!take(c)  PROVE Effect
    <3>1. CASE Semaphore!TakePop(c)
      <4>1. Pops(c)
        BY <1>3, <3>1 DEF Semaphore!TakePop, Semaphore!Pop, Pops, Pop
      <4> QED BY <4>1
    <3>2. CASE Semaphore!TakeLock(c)
      <4>1. Locks(c, "take_lock", "take_pop")
        BY <1>3, <3>2 DEF Semaphore!TakeLock, Semaphore!Goto, Locks, Goto
      <4> QED BY <4>1 DEF Threads, TakeLabels
    <3>3. CASE Semaphore!TakeWait(c)
      <4>1. Passes(c)
        BY <1>3, <3>3 DEF Semaphore!TakeWait, Semaphore!Goto, Passes, Goto
      <4> QED BY <4>1
    <3> QED
      BY <2>2, <3>1, <3>2, <3>3 DEF Semaphore!take
  <2>3. ASSUME Semaphore!Main  PROVE Stays
    BY <1>3, <2>3 DEF Semaphore!Main, Semaphore!MainReturns, Stays
  <2> QED
    BY <1>3, <2>1, <2>2, <2>3 DEF Semaphore!Next
<1> QED
  BY <1>1, <1>2, <1>3 DEF Next

------------------------------------------------------------------------------
(* The invariant.                                                          *)

LEMMA Finite ==
    /\ IsFiniteSet(Threads) /\ IsFiniteSet(Producers)
    /\ \A L : IsFiniteSet(At(L)) /\ Cardinality(At(L)) \in Nat
<1>1. IsFiniteSet(Threads)
  BY ThreadsAssumption DEF Threads
<1>2. ASSUME NEW L  PROVE IsFiniteSet(At(L)) /\ Cardinality(At(L)) \in Nat
  <2>1. At(L) \in SUBSET Threads
    BY DEF At
  <2> QED
    BY <1>1, <2>1, FS_Subset, FS_CardinalityType
<1>3. Producers \in SUBSET Threads
  BY DEF Threads
<1> QED
  BY <1>1, <1>2, <1>3, FS_Subset

\* How one thread's step changes the number of threads at some points.
LEMMA StepCount ==
    ASSUME pc \in [Threads -> PutLabels \cup TakeLabels],
           NEW t \in Threads, NEW b, pc' = [pc EXCEPT ![t] = b], NEW L
    PROVE  Cardinality(At(L)') = Cardinality(At(L))
              + (IF b \in L THEN 1 ELSE 0) - (IF pc[t] \in L THEN 1 ELSE 0)
<1>1. IsFiniteSet(At(L)) /\ Cardinality(At(L)) \in Nat
  BY Finite
<1>2. \A s \in Threads : pc'[s] = IF s = t THEN b ELSE pc[s]
  OBVIOUS
<1>3. CASE (pc[t] \in L) = (b \in L)
  <2>1. At(L)' = At(L)
    BY <1>2, <1>3 DEF At
  <2> QED
    BY <1>1, <1>3, <2>1
<1>4. CASE pc[t] \notin L /\ b \in L
  <2>1. At(L)' = At(L) \cup {t} /\ t \notin At(L)
    BY <1>2, <1>4 DEF At
  <2>2. Cardinality(At(L) \cup {t}) = Cardinality(At(L)) + 1
    BY <1>1, <2>1, FS_AddElement
  <2> QED
    BY <1>1, <1>4, <2>1, <2>2
<1>5. CASE pc[t] \in L /\ b \notin L
  <2>1. At(L)' = At(L) \ {t} /\ t \in At(L)
    BY <1>2, <1>5 DEF At
  <2>2. Cardinality(At(L) \ {t}) = Cardinality(At(L)) - 1
    BY <1>1, <2>1, FS_RemoveElement
  <2> QED
    BY <1>1, <1>5, <2>1, <2>2
<1> QED
  BY <1>3, <1>4, <1>5

\* The scripts are so many items long that the channel is never full.
LEMMA QueueRoom ==
    ASSUME TypeOK
    PROVE  /\ IsFiniteSet(Done) /\ Cardinality(Done) \in Nat
           /\ \A p \in Producers : pc[p] # "put_notify" /\ cnt[p] \in 0 .. item_num =>
                Cardinality(Done) < Cardinality(Producers) * (item_num + 1)
<1> DEFINE All == Producers \X (0 .. item_num)
<1>1. IsFiniteSet(0 .. item_num) /\ Cardinality(0 .. item_num) = item_num + 1
  BY FS_Interval, ThreadsAssumption
<1>2. IsFiniteSet(All) /\ Cardinality(All) = Cardinality(Producers) * (item_num + 1)
  BY <1>1, Finite, FS_Product
<1>3. Done \in SUBSET All
  BY DEF Done
<1>4. /\ IsFiniteSet(Done) /\ Cardinality(Done) <= Cardinality(All)
      /\ Cardinality(Done) \in Nat /\ Cardinality(All) \in Nat
      /\ Cardinality(All) = Cardinality(Done) => All = Done
  BY <1>2, <1>3, FS_Subset, FS_CardinalityType
<1>5. ASSUME NEW p \in Producers, pc[p] # "put_notify", cnt[p] \in 0 .. item_num
      PROVE  Cardinality(Done) # Cardinality(All)
  <2>1. <<p, cnt[p]>> \in All
    BY <1>5
  <2>2. <<p, cnt[p]>> \notin Done
    BY <1>5 DEF Done
  <2> QED
    BY <1>4, <2>1, <2>2
<1> QED
  BY <1>2, <1>4, <1>5

LEMMA QueueStart == Init => Inv
<1> SUFFICES ASSUME Init PROVE Inv
  OBVIOUS
<1>1. TypeOK
  BY ThreadsAssumption DEF Init, Condvar!Init, Condvar!ThreadsInit, Semaphore!Init,
        Condvar!Threads, TypeOK, Threads, PutLabels, TakeLabels
<1>2. EndInv
  BY ThreadsAssumption DEF Init, Condvar!Init, Condvar!ThreadsInit, Condvar!Threads,
        EndInv, Threads, Channel!Stopped
<1>3. Len(queue) = 0
  BY DEF Init, Condvar!Init, Condvar!ThreadsInit
<1>4. LengthInv
  BY <1>1, <1>3, QueueRoom DEF LengthInv
<1>5. CreditInv
  <2>1. At(Passed) = {} /\ At(Announcing) = {} /\ count = 0
    BY DEF Passed, Announcing, Init, Condvar!Init, Condvar!ThreadsInit, Condvar!Threads, Semaphore!Init, At, Threads
  <2>2. nPassed = 0 /\ nAnnouncing = 0
    BY <2>1, FS_EmptySet DEF nPassed, nAnnouncing
  <2> QED
    BY <1>3, <2>1, <2>2 DEF CreditInv
<1> QED
  BY <1>1, <1>2, <1>4, <1>5 DEF Inv

\* Done grows by a push and by nothing else.
LEMMA DoneStep ==
    ASSUME TypeOK, EndInv, Effect
    PROVE  /\ (\A p \in Producers : ~Pushes(p)) => Done' = Done
           /\ \A p \in Producers : Pushes(p) =>
                Done' = Done \cup {<<p, cnt[p]>>} /\ <<p, cnt[p]>> \notin Done
<1> DEFINE puts(p) == cnt[p] + (IF pc[p] = "put_notify" THEN 1 ELSE 0)
<1>1. Done = {q \in Producers \X (0 .. item_num) : q[2] < puts(q[1])}
  BY DEF Done
<1>2. Done' = {q \in Producers \X (0 .. item_num) : q[2] < puts(q[1])'}
  BY DEF Done
<1>3. ASSUME NEW p \in Producers, Pushes(p)
      PROVE  /\ \A q \in Producers : puts(q)' = IF q = p THEN puts(q) + 1 ELSE puts(q)
             /\ puts(p) = cnt[p] /\ cnt[p] \in 0 .. item_num
  BY <1>3, ThreadsAssumption DEF Pushes, PutPush, Goto, TypeOK, EndInv, Threads
<1>4. ASSUME \A p \in Producers : ~Pushes(p), NEW q \in Producers
      PROVE  puts(q)' = puts(q)
  <2>1. ASSUME NEW p \in Producers, Notifies(p)  PROVE puts(q)' = puts(q)
    BY <2>1 DEF Notifies, NextPut, Goto, TypeOK, Threads
  <2>2. ASSUME NEW c \in Consumers, Pops(c) \/ Passes(c)  PROVE puts(q)' = puts(q)
    BY <2>2, ThreadsAssumption DEF Pops, Pop, Passes, Goto, TypeOK, Threads
  <2>3. ASSUME NEW t \in Threads, NEW a, NEW b, Locks(t, a, b)  PROVE puts(q)' = puts(q)
    BY <2>3, ThreadsAssumption DEF Locks, Goto, TypeOK, Threads
  <2>4. ASSUME Stays  PROVE puts(q)' = puts(q)
    BY <2>4 DEF Stays
  <2> QED
    BY <1>4, <2>1, <2>2, <2>3, <2>4 DEF Effect
<1> HIDE DEF puts
<1>5. \A q \in Producers : puts(q) \in Nat
  BY DEF puts, TypeOK
<1>6. (\A p \in Producers : ~Pushes(p)) => Done' = Done
  BY <1>1, <1>2, <1>4
<1>7. ASSUME NEW p \in Producers, Pushes(p)
      PROVE  Done' = Done \cup {<<p, cnt[p]>>} /\ <<p, cnt[p]>> \notin Done
  <2>1. <<p, cnt[p]>> \notin Done
    BY <1>1, <1>3, <1>5, <1>7
  <2>2. ASSUME NEW q \in Producers \X (0 .. item_num)
        PROVE  q[2] < puts(q[1])' <=> q[2] < puts(q[1]) \/ q = <<p, cnt[p]>>
    BY <1>3, <1>5, <1>7, ThreadsAssumption
  <2> QED
    BY <1>1, <1>2, <1>3, <1>7, <2>1, <2>2
<1> QED
  BY <1>6, <1>7

LEMMA TypeStep == ASSUME TypeOK, Effect PROVE TypeOK'
<1> USE ThreadsAssumption DEF TypeOK
<1>1. ASSUME NEW p \in Producers, Notifies(p)  PROVE TypeOK'
  BY <1>1 DEF Notifies, NextPut, Goto, Threads, PutLabels
<1>2. ASSUME NEW p \in Producers, Pushes(p)  PROVE TypeOK'
  <2>1. Item(p, cnt[p]) \in Items
    BY DEF Item, Items
  <2>2. queue' \in Seq(Items)
    BY <1>2, <2>1 DEF Pushes, PutPush
  <2> QED
    BY <1>2, <2>2 DEF Pushes, PutPush, Goto, Threads, PutLabels
<1>3. ASSUME NEW c \in Consumers, Pops(c)  PROVE TypeOK'
  <2>1. Head(queue) \in Items /\ Tail(queue) \in Seq(Items)
    BY <1>3 DEF Pops
  <2>2. taken' \in [Consumers -> Seq(Items)]
    BY <1>3, <2>1 DEF Pops, Pop
  <2> QED
    BY <1>3, <2>1, <2>2 DEF Pops, Pop, Threads, TakeLabels
<1>4. ASSUME NEW c \in Consumers, Passes(c)  PROVE TypeOK'
  BY <1>4 DEF Passes, Goto, Threads, TakeLabels
<1>5. ASSUME NEW t \in Threads, NEW a, NEW b, Locks(t, a, b)  PROVE TypeOK'
  BY <1>5 DEF Locks, Goto, Threads, PutLabels, TakeLabels
<1>6. ASSUME Stays  PROVE TypeOK'
  BY <1>6 DEF Stays
<1> QED
  BY <1>1, <1>2, <1>3, <1>4, <1>5, <1>6 DEF Effect

LEMMA EndStep == ASSUME TypeOK, EndInv, Effect PROVE EndInv'
<1> USE ThreadsAssumption DEF TypeOK
<1>1. ASSUME NEW p \in Producers, Notifies(p)  PROVE EndInv'
  BY <1>1 DEF EndInv, Channel!Stopped, Notifies, NextPut, Goto, Threads
<1>2. ASSUME NEW p \in Producers, Pushes(p)  PROVE EndInv'
  BY <1>2 DEF EndInv, Channel!Stopped, Pushes, PutPush, Goto, Threads
<1>3. ASSUME NEW c \in Consumers, Pops(c)  PROVE EndInv'
  <2>1. Head(queue) \in Items
    BY <1>3 DEF Pops
  <2>2. taken'[c][Len(taken'[c])] = Head(queue)
    BY <1>3, <2>1 DEF Pops, Pop
  <2>3. \A d \in Consumers \ {c} : taken'[d] = taken[d] /\ pc'[d] = pc[d]
    BY <1>3 DEF Pops, Pop, Threads
  <2>4. \A p \in Producers : pc'[p] = pc[p] /\ cnt'[p] = cnt[p]
    BY <1>3 DEF Pops, Pop, Threads
  <2>5. Head(queue) = NULL => pc'[c] = "exited"
    BY <1>3 DEF Pops, Pop, Threads
  <2> QED
    BY <2>2, <2>3, <2>4, <2>5 DEF EndInv, Channel!Stopped
<1>4. ASSUME NEW c \in Consumers, Passes(c)  PROVE EndInv'
  BY <1>4 DEF EndInv, Channel!Stopped, Passes, Goto, Threads
<1>5. ASSUME NEW t \in Threads, NEW a, NEW b, Locks(t, a, b)  PROVE EndInv'
  BY <1>5 DEF EndInv, Channel!Stopped, Locks, Goto, Threads
<1>6. ASSUME Stays  PROVE EndInv'
  BY <1>6 DEF EndInv, Channel!Stopped, Stays
<1> QED
  BY <1>1, <1>2, <1>3, <1>4, <1>5, <1>6 DEF Effect

LEMMA LengthStep == ASSUME TypeOK, EndInv, LengthInv, Effect PROVE LengthInv'
<1>1. /\ Len(queue) \in Nat /\ Len(queue) <= Cardinality(Done)
      /\ IsFiniteSet(Done) /\ Cardinality(Done) \in Nat
  BY QueueRoom DEF TypeOK, LengthInv
<1>2. ASSUME NEW p \in Producers, Pushes(p)  PROVE LengthInv'
  <2>1. Cardinality(Done') = Cardinality(Done) + 1
    BY <1>1, <1>2, DoneStep, FS_AddElement
  <2>2. Len(queue') = Len(queue) + 1
    BY <1>2, TypeStep DEF Pushes, PutPush, TypeOK
  <2> QED
    BY <1>1, <2>1, <2>2 DEF LengthInv
<1>3. ASSUME \A p \in Producers : ~Pushes(p)  PROVE LengthInv'
  <2>1. Done' = Done
    BY <1>3, DoneStep
  <2>2. queue' = queue \/ \E c \in Consumers : Pops(c)
    BY <1>3 DEF Effect, Notifies, Passes, Locks, Stays
  <2>3. ASSUME NEW c \in Consumers, Pops(c)  PROVE Len(queue') = Len(queue) - 1
    BY <2>3 DEF Pops, Pop, TypeOK
  <2> QED
    BY <1>1, <2>1, <2>2, <2>3 DEF LengthInv
<1> QED
  BY <1>2, <1>3

LEMMA CreditStep == ASSUME TypeOK, CreditInv, Effect PROVE CreditInv'
<1>1. nPassed \in Nat /\ nAnnouncing \in Nat /\ count \in Nat /\ Len(queue) \in Nat
  BY Finite DEF TypeOK, nPassed, nAnnouncing
<1>2. class' = class
  BY DEF Effect, Notifies, Pushes, Pops, Passes, Locks, Stays
<1> SUFFICES ASSUME class = "semaphore"
             PROVE  nPassed' + count' + nAnnouncing' = Len(queue')
  BY <1>2 DEF CreditInv
<1>3. nPassed + count + nAnnouncing = Len(queue)
  BY DEF CreditInv
<1>4. ASSUME NEW t \in Threads, NEW a, NEW b, Goto(t, a, b)
      PROVE  /\ nPassed' = nPassed + (IF b \in Passed THEN 1 ELSE 0)
                            - (IF a \in Passed THEN 1 ELSE 0)
             /\ nAnnouncing' = nAnnouncing + (IF b \in Announcing THEN 1 ELSE 0)
                            - (IF a \in Announcing THEN 1 ELSE 0)
  <2>1. pc \in [Threads -> PutLabels \cup TakeLabels] /\ pc[t] = a
        /\ pc' = [pc EXCEPT ![t] = b]
    BY <1>4 DEF TypeOK, Goto
  <2> QED
    BY <2>1, StepCount DEF nPassed, nAnnouncing
<1>5. ASSUME NEW p \in Producers, Notifies(p)
      PROVE  nPassed' + count' + nAnnouncing' = Len(queue')
  <2>0. Goto(p, "put_notify", IF cnt[p] < item_num THEN "put_lock" ELSE "exited")
    BY <1>5 DEF Notifies, NextPut
  <2>1. nPassed' = nPassed /\ nAnnouncing' = nAnnouncing - 1
    BY <1>1, <1>4, <1>5, <2>0 DEF Threads, Passed, Announcing
  <2> QED
    BY <1>1, <1>3, <1>5, <2>1 DEF Notifies
<1>6. ASSUME NEW p \in Producers, Pushes(p)
      PROVE  nPassed' + count' + nAnnouncing' = Len(queue')
  <2>0. Goto(p, "put_push", "put_notify")
    BY <1>6 DEF Pushes, PutPush
  <2>1. nPassed' = nPassed /\ nAnnouncing' = nAnnouncing + 1
    BY <1>1, <1>4, <1>6, <2>0 DEF Threads, Passed, Announcing
  <2>2. Len(queue') = Len(queue) + 1
    BY <1>6, TypeStep DEF Pushes, PutPush, TypeOK
  <2> QED
    BY <1>1, <1>3, <1>6, <2>1, <2>2 DEF Pushes
<1>7. ASSUME NEW c \in Consumers, Pops(c)
      PROVE  nPassed' + count' + nAnnouncing' = Len(queue')
  <2>0. Goto(c, "take_pop", IF Head(queue) # NULL THEN "take" ELSE "exited")
    BY <1>7 DEF Pops, Pop, Goto
  <2>1. nPassed' = nPassed - 1 /\ nAnnouncing' = nAnnouncing
    BY <1>1, <1>4, <1>7, <2>0 DEF Threads, Passed, Announcing
  <2>2. Len(queue') = Len(queue) - 1
    BY <1>7 DEF Pops, Pop, TypeOK
  <2> QED
    BY <1>1, <1>3, <1>7, <2>1, <2>2 DEF Pops
<1>8. ASSUME NEW c \in Consumers, Passes(c)
      PROVE  nPassed' + count' + nAnnouncing' = Len(queue')
  <2>0. Goto(c, "take", "take_lock")
    BY <1>8 DEF Passes
  <2>1. nPassed' = nPassed + 1 /\ nAnnouncing' = nAnnouncing
    BY <1>1, <1>4, <1>8, <2>0 DEF Threads, Passed, Announcing
  <2> QED
    BY <1>1, <1>3, <1>8, <2>1 DEF Passes
<1>9. ASSUME NEW t \in Threads, NEW a, NEW b, Locks(t, a, b)
      PROVE  nPassed' + count' + nAnnouncing' = Len(queue')
  <2>0. /\ Goto(t, a, b)
        /\ \/ a = "put_lock" /\ b = "put_push"
           \/ a = "take_lock" /\ b = "take_pop"
           \/ a \in {"take", "take_test", "take_wait"} /\ b \in {"take_test", "take_wait"}
    BY <1>9 DEF Locks
  <2>1. nPassed' = nPassed /\ nAnnouncing' = nAnnouncing
    BY <1>1, <1>4, <1>9, <2>0 DEF Threads, Passed, Announcing
  <2> QED
    BY <1>1, <1>3, <1>9, <2>1 DEF Locks
<1>10. ASSUME Stays  PROVE nPassed' + count' + nAnnouncing' = Len(queue')
  BY <1>3, <1>10 DEF Stays, nPassed, nAnnouncing, At
<1> QED
  BY <1>5, <1>6, <1>7, <1>8, <1>9, <1>10 DEF Effect

\* The invariant, for any number of threads, with either class.
THEOREM Inductive == FairSpec => []Inv
<1>1. Inv /\ [Next]_vars => Inv'
  <2> SUFFICES ASSUME Inv, [Next]_vars PROVE Inv'
    OBVIOUS
  <2>1. Effect
    BY Effects DEF Inv
  <2> QED
    BY <2>1, TypeStep, EndStep, LengthStep, CreditStep DEF Inv
<1> QED
  BY QueueStart, <1>1, PTL DEF FairSpec

------------------------------------------------------------------------------
(* What follows from it.                                                   *)

\* A consumer that sem_wait has let through finds an item when it has the
\* mutex (blocking_queue_semaphore.h pops without a test).
THEOREM PopsFind == FairSpec => []PopNonEmpty
<1>1. ASSUME Inv, class = "semaphore"  PROVE Semaphore!PopNonEmpty
  <2>1. count \in Nat /\ Len(queue) \in Nat /\ nPassed \in Nat /\ nAnnouncing \in Nat
    BY <1>1, Finite DEF Inv, TypeOK, nPassed, nAnnouncing
  <2>2. nPassed <= Len(queue)
    BY <1>1, <2>1 DEF Inv, CreditInv
  <2>3. Semaphore!At({"take_lock", "take_pop"}) = At(Passed)
    BY DEF Semaphore!At, At, Semaphore!Threads, Threads, Passed
  <2> QED
    BY <2>2, <2>3 DEF Semaphore!PopNonEmpty, nPassed, Semaphore!Cardinality, Cardinality
<1>2. Inv => PopNonEmpty
  BY <1>1 DEF PopNonEmpty
<1> QED
  BY <1>2, Inductive, PTL

\* How many items of each producer have reached the queue.
nPut == [p \in Producers |-> cnt[p] + IF pc[p] = "put_notify" THEN 1 ELSE 0]

\* Each step of the program is a put of the channel, a take, or nothing to it.
LEMMA Simulates == ASSUME Inv, [Next]_vars PROVE [Channel!ChanNext]_(Channel!chanVars)
<1>1. TypeOK /\ EndInv /\ LengthInv /\ Effect
  BY Effects DEF Inv
<1> USE ThreadsAssumption DEF Channel!ChanNext
<1>3. ASSUME NEW p \in Producers, Notifies(p)  PROVE UNCHANGED Channel!chanVars
  <2>1. nPut' = nPut
    BY <1>1, <1>3 DEF Notifies, NextPut, Goto, TypeOK, Threads, nPut
  <2> QED
    BY <1>3, <2>1 DEF Notifies, Channel!chanVars, nPut
<1>4. ASSUME NEW p \in Producers, Pushes(p)  PROVE Channel!Put(p)
  <2>1. pc[p] = "put_push" /\ cnt[p] \in 0 .. item_num /\ nPut[p] = cnt[p]
    BY <1>1, <1>4 DEF Pushes, PutPush, Goto, TypeOK, EndInv, nPut
  <2> DEFINE script == [j \in 1 .. item_num + 1 |-> Item(p, j - 1)]
  <2>2. Len(script) = item_num + 1 /\ script[cnt[p] + 1] = Item(p, cnt[p])
    BY <2>1
  <2>3. Len(queue) < Cardinality(Producers) * (item_num + 1)
    <3>1. Cardinality(Done) < Cardinality(Producers) * (item_num + 1)
      BY <1>1, <2>1, QueueRoom
    <3>2. Cardinality(Producers) \in Nat
      BY Finite, FS_CardinalityType
    <3> QED
      BY <1>1, <3>1, <3>2, QueueRoom DEF LengthInv, TypeOK
  <2>4. nPut' = [nPut EXCEPT ![p] = @ + 1]
    BY <1>1, <1>4, <2>1 DEF Pushes, PutPush, Goto, TypeOK, Threads, nPut
  <2> QED
    BY <1>4, <2>1, <2>2, <2>3, <2>4 DEF Channel!Put, Pushes, PutPush, nPut
<1>5. ASSUME NEW c \in Consumers, Pops(c)  PROVE Channel!Take(c)
  <2>1. ~Channel!Stopped(c)
    BY <1>1, <1>5 DEF Pops, EndInv
  <2>2. nPut' = nPut
    BY <1>1, <1>5 DEF Pops, Pop, TypeOK, Threads, nPut
  <2> QED
    BY <1>5, <2>1, <2>2 DEF Channel!Take, Pops, Pop, nPut
<1>6. ASSUME NEW c \in Consumers, Passes(c)  PROVE UNCHANGED Channel!chanVars
  <2>1. nPut' = nPut
    BY <1>1, <1>6 DEF Passes, Goto, TypeOK, Threads, nPut
  <2> QED
    BY <1>6, <2>1 DEF Passes, Channel!chanVars, nPut
<1>7. ASSUME NEW t \in Threads, NEW a, NEW b, Locks(t, a, b)
      PROVE  UNCHANGED Channel!chanVars
  <2>1. nPut' = nPut
    BY <1>1, <1>7 DEF Locks, Goto, TypeOK, Threads, nPut
  <2> QED
    BY <1>7, <2>1 DEF Locks, Channel!chanVars, nPut
<1>8. ASSUME Stays  PROVE UNCHANGED Channel!chanVars
  BY <1>8 DEF Stays, Channel!chanVars
<1> QED
  BY <1>1, <1>3, <1>4, <1>5, <1>6, <1>7, <1>8 DEF Effect

\* put() and take(), with all their steps, are atomic operations of a
\* first-in first-out channel, whichever class the program is built with.
THEOREM Implements == FairSpec => ImplementsChannel
<1>1. Init => Channel!ChanInit
  BY ThreadsAssumption DEF Init, Condvar!Init, Condvar!ThreadsInit, Condvar!Threads, Channel!ChanInit, Threads
<1>2. Inv /\ [Next]_vars => [Channel!ChanNext]_(Channel!chanVars)
  BY Simulates
<1> QED
  BY <1>1, <1>2, Inductive, PTL DEF FairSpec, ImplementsChannel, Channel!ChanSpec

------------------------------------------------------------------------------
(* The benchmark server and its clients.                                   *)

PipeType ==
    /\ sock \in [Sides -> [Conns -> {"none", "open", "closed"}]]
    /\ wire \in [Sides -> [Conns -> Seq(Nat)]]

ClientType ==
    /\ phase \in {"connect", "first", "tick", "join", "end"}
    /\ thread \in {"none", "test", "wait", "dispatch", "recv", "send", "ended"}
    /\ events \subseteq Used
    /\ at \in Used \cup {NoConn}
    /\ left \in 0 .. size
    /\ tx_seq \in [Conns -> 0 .. SeqRange - 1] /\ rx_seq \in [Conns -> 0 .. SeqRange - 1]

ServerType ==
    /\ backlog \subseteq Used
    /\ accepted \in Used \cup {NoConn}
    /\ buf_conns \in [Loops -> Seq(Used \cup {NoConn})]
    /\ conns \in [Loops -> Seq(Used \cup {NoConn})]
    /\ loop \in [Loops -> {"dump", "wait", "pick", "recv", "send"}]
    /\ batch \in [Loops -> SUBSET Nat] /\ cur \in [Loops -> Nat]
    /\ held \in [Loops -> Seq(Nat)]

TypeBench == PipeType /\ ClientType /\ ServerType

\* All that loop l has been given, in order.
Line(l) == conns[l] \o buf_conns[l]

InLine(c) == \E l \in Loops : \E j \in 1 .. Len(Line(l)) : Line(l)[j] = c

\* No connection is given to two loops, or twice to one.
LinesInv ==
    \A l, m \in Loops : \A j \in 1 .. Len(Line(l)), k \in 1 .. Len(Line(m)) :
        Line(l)[j] = Line(m)[k] /\ Line(l)[j] # NoConn => l = m /\ j = k

\* A connection is with the acceptor before it is with a loop, and its socket
\* is open as long as it is with either.
SocketInv ==
    /\ \A c \in backlog : c # accepted /\ ~InLine(c)
    /\ accepted # NoConn => ~InLine(accepted)
    /\ \A c \in Used : sock["server"][c] = "open" <=> c \in backlog \/ c = accepted \/ InLine(c)
    /\ \A c \in Conns : sock["client"][c] = "none" => sock["server"][c] = "none"

\* The indexes that loop l has still to handle, and the one at hand, are those
\* of connections it has not removed.
Live(l, n) == n \in 1 .. Len(conns[l]) /\ conns[l][n] # NoConn

IndexInv ==
    \A l \in Loops :
        /\ \A n \in batch[l] : Live(l, n)
        /\ loop[l] \in {"recv", "send"} => Live(l, cur[l]) /\ cur[l] \notin batch[l]

ServerInv == LinesInv /\ SocketInv /\ IndexInv

\* Loop l of the server has words of c at hand.
Holds(l, c) == loop[l] = "send" /\ conns[l][cur[l]] = c

\* The words w are on their way through a connection of program g, the oldest
\* first, and n are to follow, when tx_seq is t and rx_seq is r: it is a packet
\* at most, and a packet that is all there is the one that was filled last
\* and the next one that the client expects.
InPacket(g, w, n, t, r) ==
    /\ Len(w) + n <= g.size
    /\ Len(w) + n = g.size =>
          /\ \A k \in 1 .. Len(w) : w[k] = (t - g.size + k - 1) % SeqRange
          /\ g.name = "verify" => r = (t - g.size) % SeqRange

\* The words of c that are on their way when the server has h of them at hand.
OnWay(c, h) == (wire["client"][c] \o h) \o wire["server"][c]
Left(c) == IF at = c THEN left ELSE 0
Fine(c, h) == InPacket(program, OnWay(c, h), Left(c), tx_seq[c], rx_seq[c])

Packet(c) ==
    /\ c \notin alarms
    /\ \A l \in Loops : Holds(l, c) => Fine(c, held[l])
    /\ (\A l \in Loops : ~Holds(l, c)) => Fine(c, <<>>)

PacketInv == \A c \in Used \ split : Packet(c)

\* The first packet of c is still to be sent.
Unsent(c) ==
    /\ wire["client"][c] = <<>> /\ wire["server"][c] = <<>>
    /\ \A l \in Loops : ~Holds(l, c)
    /\ Left(c) = 0 /\ tx_seq[c] = 0 /\ rx_seq[c] = 0

\* The next number of c stands for the time stamp of a packet.
Stamped(c) == program.name = "bench" => tx_seq[c] % size = 0

ClientInv ==
    /\ \A c \in Used : Stamped(c)
    /\ phase \in {"connect", "first"} <=> thread = "none"
    /\ left > 0 <=> at # NoConn /\ thread \in {"none", "send"}
    /\ thread = "none" => \A c \in events : Unsent(c)
    /\ at # NoConn => thread \in {"none", "recv", "send"}
    /\ thread = "recv" => at # NoConn

InvBench == TypeBench /\ ServerInv /\ PacketInv /\ ClientInv
InvClients == program \in Programs /\ (Epoll => InvBench)

------------------------------------------------------------------------------
(* Numbers modulo n.                                                       *)

LEMMA Divides ==
    ASSUME NEW n \in Nat \ {0}, NEW a \in Int
    PROVE  \E q \in Int : a = n * q + (a % n) /\ a % n \in 0 .. n - 1
<1> DEFINE q == a \div n
<1>1. q \in Int /\ a = n * q + (a % n) /\ a % n \in 0 .. n - 1
  OBVIOUS
<1> QED
  BY <1>1

LEMMA RemainderOf ==
    ASSUME NEW n \in Nat \ {0}, NEW q \in Int, NEW r \in 0 .. n - 1, NEW a \in Int,
           a = n * q + r
    PROVE  a % n = r
<1>1. PICK p \in Int : a = n * p + (a % n) /\ a % n \in 0 .. n - 1
  BY Divides
<1> DEFINE s == a % n
<1>2. s \in 0 .. n - 1 /\ a = n * p + s
  BY <1>1
<1> HIDE DEF s
<1>3. n * (p - q) = r - s
  BY <1>2
<1>4. ~(p - q >= 1)
  <2>1. SUFFICES ASSUME p - q >= 1 PROVE FALSE
    OBVIOUS
  <2>2. n * (p - q) >= n
    BY <2>1
  <2> QED
    BY <1>2, <1>3, <2>2
<1>5. ~(p - q <= -1)
  <2>1. SUFFICES ASSUME p - q <= -1 PROVE FALSE
    OBVIOUS
  <2>2. n * (p - q) <= -n
    BY <2>1
  <2> QED
    BY <1>2, <1>3, <2>2
<1>6. p = q
  BY <1>4, <1>5
<1>7. s = r
  BY <1>2, <1>6
<1> QED
  BY <1>7 DEF s

LEMMA AddRemainder ==
    ASSUME NEW n \in Nat \ {0}, NEW a \in Int, NEW b \in Int
    PROVE  ((a % n) + b) % n = (a + b) % n
<1>1. PICK p \in Int : a = n * p + (a % n) /\ a % n \in 0 .. n - 1
  BY Divides
<1> DEFINE r == a % n
<1>2. r \in 0 .. n - 1 /\ a = n * p + r
  BY <1>1
<1> HIDE DEF r
<1> DEFINE z == r + b
           s == z % n
<1>z. z \in Int /\ z = r + b
  BY <1>2
<1> HIDE DEF z
<1>3. PICK q \in Int : z = n * q + (z % n) /\ z % n \in 0 .. n - 1
  BY <1>z, Divides
<1>4. s \in 0 .. n - 1 /\ r + b = n * q + s
  BY <1>3, <1>z
<1> HIDE DEF s
<1>5. a + b = n * (p + q) + s
  <2>1. n * (p + q) = n * p + n * q
    OBVIOUS
  <2>2. n * p \in Int /\ n * q \in Int
    OBVIOUS
  <2> QED
    BY <1>2, <1>4, <2>1, <2>2
<1>6. (a + b) % n = s
  <2>1. a + b \in Int /\ p + q \in Int
    OBVIOUS
  <2> DEFINE x == a + b
             y == p + q
  <2>2. x \in Int /\ y \in Int /\ x = n * y + s
    BY <1>5, <2>1
  <2> HIDE DEF x, y
  <2>3. x % n = s
    BY <1>4, <2>2, RemainderOf
  <2> QED
    BY <2>3 DEF x
<1> QED
  BY <1>6 DEF r, s, z

LEMMA SmallRemainder ==
    ASSUME NEW n \in Nat \ {0}, NEW a \in 0 .. n - 1
    PROVE  a % n = a
<1>1. a = n * 0 + a
  OBVIOUS
<1> QED
  BY <1>1, RemainderOf

\* A remainder of multiples of s, modulo one of them, is a multiple of s.
LEMMA MultipleRemainder ==
    ASSUME NEW s \in Nat \ {0}, NEW n \in Nat \ {0}, n % s = 0,
           NEW a \in Int, a % s = 0
    PROVE  (a % n) % s = 0
<1>1. PICK m \in Int : n = s * m
  <2>1. n \in Int
    OBVIOUS
  <2>2. PICK q \in Int : n = s * q + (n % s)
    BY <2>1, Divides
  <2>3. n = s * q
    BY <2>2
  <2> QED
    BY <2>3
<1>2. PICK p \in Int : a = s * p
  <2>1. PICK q \in Int : a = s * q + (a % s)
    BY Divides
  <2>3. a = s * q
    BY <2>1
  <2> QED
    BY <2>3
<1>3. PICK q \in Int : a = n * q + (a % n) /\ a % n \in 0 .. n - 1
  BY Divides
<1> DEFINE r == a % n
<1>4. r \in Nat /\ a = n * q + r
  BY <1>3
<1> HIDE DEF r
<1>5. r = s * (p - m * q) + 0
  <2>1. r = s * p - (s * m) * q
    BY <1>1, <1>2, <1>4
  <2>2. (s * m) * q = s * (m * q) /\ m * q \in Int
    OBVIOUS
  <2> DEFINE z == m * q
  <2>3. z \in Int /\ r = s * p - s * z
    BY <2>1, <2>2
  <2> HIDE DEF z
  <2>4. r = s * (p - z) + 0
    BY <1>4, <2>3
  <2> QED
    BY <2>4 DEF z
<1>6. p - m * q \in Int
  OBVIOUS
<1>7. r % s = 0
  BY <1>4, <1>5, <1>6, RemainderOf
<1> QED
  BY <1>7 DEF r

LEMMA MultipleShift ==
    ASSUME NEW s \in Nat \ {0}, NEW a \in Int, a % s = 0
    PROVE  (a + s) % s = 0 /\ (a - s) % s = 0
<1>1. PICK p \in Int : a = s * p
  <2>1. PICK q \in Int : a = s * q + (a % s)
    BY Divides
  <2>3. a = s * q
    BY <2>1
  <2> QED
    BY <2>3
<1>2. a + s = s * (p + 1) + 0 /\ a - s = s * (p - 1) + 0
  BY <1>1
<1>3. (a + s) % s = 0
  <2>1. a + s \in Int /\ p + 1 \in Int /\ 0 \in 0 .. s - 1
    OBVIOUS
  <2> QED
    BY <1>2, <2>1, RemainderOf
<1>4. (a - s) % s = 0
  <2>1. a - s \in Int /\ p - 1 \in Int /\ 0 \in 0 .. s - 1
    OBVIOUS
  <2> QED
    BY <1>2, <2>1, RemainderOf
<1> QED
  BY <1>3, <1>4

------------------------------------------------------------------------------
(* Words on their way.                                                     *)

LEMMA Halves ==
    ASSUME NEW S, NEW v \in Seq(S), NEW k \in 0 .. Len(v)
    PROVE  /\ SubSeq(v, 1, k) \in Seq(S) /\ Len(SubSeq(v, 1, k)) = k
           /\ \A j \in 1 .. k : SubSeq(v, 1, k)[j] = v[j]
           /\ SubSeq(v, k + 1, Len(v)) \in Seq(S) /\ Len(SubSeq(v, k + 1, Len(v))) = Len(v) - k
           /\ SubSeq(v, 1, k) \o SubSeq(v, k + 1, Len(v)) = v
           /\ k = Len(v) => SubSeq(v, 1, k) = v
<1>1. Len(v) \in Nat /\ \A j \in 1 .. Len(v) : v[j] \in S
  BY LenProperties, ElementOfSeq
<1>2. /\ SubSeq(v, 1, k) \in Seq(S) /\ Len(SubSeq(v, 1, k)) = k
      /\ \A j \in 1 .. k : SubSeq(v, 1, k)[j] = v[j]
  <2>1. \A j \in 1 .. k : v[j] \in S
    BY <1>1
  <2>2. /\ SubSeq(v, 1, k) \in Seq(S)
        /\ Len(SubSeq(v, 1, k)) = IF 1 <= k THEN k - 1 + 1 ELSE 0
        /\ \A j \in 1 .. k - 1 + 1 : SubSeq(v, 1, k)[j] = v[1 + j - 1]
    BY <1>1, <2>1, SubSeqProperties
  <2> QED
    BY <1>1, <2>2
<1>3. SubSeq(v, k + 1, Len(v)) \in Seq(S) /\ Len(SubSeq(v, k + 1, Len(v))) = Len(v) - k
  <2>1. \A j \in k + 1 .. Len(v) : v[j] \in S
    BY <1>1
  <2>2. k + 1 \in Int /\ Len(v) \in Int
    BY <1>1
  <2>3. /\ SubSeq(v, k + 1, Len(v)) \in Seq(S)
        /\ Len(SubSeq(v, k + 1, Len(v))) = IF k + 1 <= Len(v) THEN Len(v) - (k + 1) + 1 ELSE 0
    BY <2>1, <2>2, SubSeqProperties
  <2> QED
    BY <1>1, <2>3
<1>4. SubSeq(v, 1, k) \o SubSeq(v, k + 1, Len(v)) = v
  <2>1. 1 \in 1 .. Len(v) + 1 /\ k \in 1 - 1 .. Len(v) /\ Len(v) \in k .. Len(v)
    BY <1>1
  <2>2. SubSeq(v, 1, k) \o SubSeq(v, k + 1, Len(v)) = SubSeq(v, 1, Len(v))
    BY <2>1, ConcatAdjacentSubSeq
  <2> QED
    BY <2>2, SubSeqFull
<1> QED
  BY <1>2, <1>3, <1>4, SubSeqFull

LEMMA WayLength ==
    ASSUME NEW S, NEW u \in Seq(S), NEW h \in Seq(S), NEW v \in Seq(S)
    PROVE  /\ (u \o h) \o v \in Seq(S)
           /\ Len((u \o h) \o v) = Len(u) + Len(h) + Len(v)
           /\ Len(u) \in Nat /\ Len(h) \in Nat /\ Len(v) \in Nat
<1> DEFINE w == u \o h
<1>1. w \in Seq(S) /\ Len(w) = Len(u) + Len(h)
  BY ConcatProperties
<1> HIDE DEF w
<1>2. w \o v \in Seq(S) /\ Len(w \o v) = Len(w) + Len(v)
  BY <1>1, ConcatProperties
<1> QED
  BY <1>1, <1>2, LenProperties DEF w

\* The server takes k words into its hands.
LEMMA WayRecv ==
    ASSUME NEW S, NEW u \in Seq(S), NEW v \in Seq(S), NEW k \in 0 .. Len(v)
    PROVE  (u \o SubSeq(v, 1, k)) \o SubSeq(v, k + 1, Len(v)) = (u \o <<>>) \o v
<1> DEFINE a == SubSeq(v, 1, k)
           b == SubSeq(v, k + 1, Len(v))
<1>1. a \in Seq(S) /\ b \in Seq(S) /\ a \o b = v
  BY Halves
<1> HIDE DEF a, b
<1>2. (u \o a) \o b = u \o (a \o b)
  <2>1. \A x, y, z \in Seq(S) : (x \o y) \o z = x \o (y \o z)
    BY ConcatAssociative
  <2> QED
    BY <1>1, <2>1
<1>3. u \o <<>> = u
  BY ConcatEmptySeq
<1> QED
  BY <1>1, <1>2, <1>3 DEF a, b

LEMMA Regroup ==
    \A u, v, w \in Seq(Nat) : (u \o v) \o w = u \o (v \o w)
<1> DEFINE S == Nat
<1> HIDE DEF S
<1>1. \A u, v, w \in Seq(S) : (u \o v) \o w = u \o (v \o w)
  BY ConcatAssociative
<1> QED
  BY <1>1 DEF S

\* A packet has arrived as a whole, and there is nothing behind it.
LEMMA WayWhole ==
    ASSUME NEW S, NEW u \in Seq(S), NEW h \in Seq(S), NEW v \in Seq(S), NEW s \in Nat,
           s <= Len(u), Len((u \o h) \o v) <= s
    PROVE  /\ Len(u) = s /\ h = <<>> /\ v = <<>> /\ (u \o h) \o v = u
           /\ SubSeq(u, s + 1, Len(u)) = <<>>
<1>1. \A t \in Seq(S) : Len(t) \in Nat /\ (Len(t) = 0 => t = <<>>)
  BY EmptySeq, LenProperties
<1>2. Len((u \o h) \o v) = Len(u) + Len(h) + Len(v)
  BY WayLength
<1>3. Len(u) = s /\ Len(h) = 0 /\ Len(v) = 0
  BY <1>1, <1>2
<1>4. h = <<>> /\ v = <<>>
  BY <1>1, <1>3
<1>5. u \o <<>> = u
  BY ConcatEmptySeq
<1>6. SubSeq(u, s + 1, Len(u)) = <<>>
  BY <1>3, SubSeqEmpty
<1> QED
  BY <1>3, <1>4, <1>5, <1>6

------------------------------------------------------------------------------
(* A packet on its way.                                                    *)

BenchPrograms == {g \in Programs : g.name \in {"verify", "bench"}}

LEMMA BenchArgs ==
    ASSUME NEW g \in BenchPrograms
    PROVE  /\ g.size \in Nat \ {0} /\ SeqRange \in Nat \ {0} /\ Cap \in Nat \ {0}
           /\ g.name = "bench" => SeqRange % g.size = 0
           /\ g.used \subseteq Conns /\ g.used # {}
           /\ g.loops \subseteq Loops
           /\ NoConn \notin g.used /\ IsFiniteSet(Conns)
           /\ g \in Programs /\ g.name \in {"verify", "bench"}
<1>1. g \in Programs /\ g.name \in {"verify", "bench"}
  BY DEF BenchPrograms
<1>2. /\ g.used \in (SUBSET Conns) \ {{}} /\ g.size \in Nat
      /\ g.size = 0 => g.name \in {"udp", "udp_connect", "udp6"}
  BY <1>1, Zenon, PipeAssumption
<1>3. g.size \in Nat \ {0} /\ g.used \subseteq Conns /\ g.used # {} /\ Cap \in Nat \ {0}
  <2>1. Cap \in Nat \ {0}
    BY PipeAssumption
  <2>2. g.size # 0
    BY <1>1, <1>2
  <2> QED
    BY <1>2, <2>1, <2>2
<1>4. SeqRange \in Nat \ {0} /\ NoConn \notin Conns /\ IsFiniteSet(Conns)
  BY BenchAssumption
<1>5. (g.name = "bench" => SeqRange % g.size = 0) /\ g.loops \subseteq Loops
  BY <1>1, BenchAssumption
<1> QED
  BY <1>1, <1>3, <1>4, <1>5

\* As long as nothing is added, nothing or part of it is lost.
LEMMA PacketLess ==
    ASSUME NEW g \in BenchPrograms, NEW w \in Seq(Nat), NEW z \in Seq(Nat),
           NEW n \in Nat, NEW m \in Nat, NEW t, NEW r, InPacket(g, w, n, t, r),
           Len(z) + m <= Len(w) + n, Len(z) + m = Len(w) + n => z = w
    PROVE  InPacket(g, z, m, t, r)
<1>1. Len(z) \in Nat /\ Len(w) \in Nat /\ g.size \in Nat
  BY BenchArgs, LenProperties
<1>2. Len(z) + m <= g.size
  BY <1>1 DEF InPacket
<1>3. ASSUME Len(z) + m = g.size PROVE Len(w) + n = g.size /\ z = w
  BY <1>1, <1>3 DEF InPacket
<1> QED
  BY <1>2, <1>3 DEF InPacket

LEMMA PacketLost ==
    ASSUME NEW g \in BenchPrograms,
           NEW u \in Seq(Nat), NEW h \in Seq(Nat), NEW v \in Seq(Nat),
           NEW x \in {u, <<>>}, NEW y \in {h, <<>>}, NEW z \in {v, <<>>},
           NEW n \in Nat, NEW m \in Nat, m <= n, NEW t, NEW r,
           InPacket(g, (u \o h) \o v, n, t, r)
    PROVE  InPacket(g, (x \o y) \o z, m, t, r)
<1> DEFINE a == (u \o h) \o v
           b == (x \o y) \o z
<1>1. <<>> \in Seq(Nat) /\ Len(<<>>) = 0
  BY EmptySeq
<1>2. b \in Seq(Nat) /\ a \in Seq(Nat) /\ Len(b) <= Len(a) /\ (Len(b) = Len(a) => b = a)
  <2>1. \A s \in Seq(Nat) : Len(s) \in Nat /\ (Len(s) = 0 => s = <<>>)
    BY EmptySeq, LenProperties
  <2>2. x \in Seq(Nat) /\ y \in Seq(Nat) /\ z \in Seq(Nat)
    BY <1>1
  <2>3. /\ Len(x) <= Len(u) /\ (Len(x) = Len(u) => x = u)
        /\ Len(y) <= Len(h) /\ (Len(y) = Len(h) => y = h)
        /\ Len(z) <= Len(v) /\ (Len(z) = Len(v) => z = v)
    BY <1>1, <2>1
  <2>4. a \in Seq(Nat) /\ Len(a) = Len(u) + Len(h) + Len(v)
    BY WayLength
  <2>5. b \in Seq(Nat) /\ Len(b) = Len(x) + Len(y) + Len(z)
    BY <2>2, WayLength
  <2>6. Len(b) <= Len(a)
    BY <2>1, <2>2, <2>3, <2>4, <2>5
  <2>7. ASSUME Len(b) = Len(a) PROVE b = a
    <3>1. Len(x) = Len(u) /\ Len(y) = Len(h) /\ Len(z) = Len(v)
      <4> DEFINE lx == Len(x)
                 ly == Len(y)
                 lz == Len(z)
                 lu == Len(u)
                 lh == Len(h)
                 lv == Len(v)
      <4>1. /\ lx \in Nat /\ ly \in Nat /\ lz \in Nat /\ lu \in Nat /\ lh \in Nat /\ lv \in Nat
            /\ lx <= lu /\ ly <= lh /\ lz <= lv
        BY <2>1, <2>2, <2>3
      <4>2. lx + ly + lz = lu + lh + lv
        BY <2>4, <2>5, <2>7
      <4> HIDE DEF lx, ly, lz, lu, lh, lv
      <4>3. lx = lu /\ ly = lh /\ lz = lv
        BY <4>1, <4>2
      <4> QED
        BY <4>3 DEF lx, ly, lz, lu, lh, lv
    <3> QED
      BY <2>3, <3>1
  <2> QED
    BY <2>4, <2>5, <2>6, <2>7
<1>3. InPacket(g, a, n, t, r)
  OBVIOUS
<1> HIDE DEF a, b
<1>4. Len(b) \in Nat /\ Len(a) \in Nat
  BY <1>2, LenProperties
<1>5. Len(b) + m <= Len(a) + n /\ (Len(b) + m = Len(a) + n => b = a)
  BY <1>2, <1>4
<1>6. InPacket(g, b, m, t, r)
  BY <1>2, <1>3, <1>5, PacketLess
<1> QED
  BY <1>6 DEF b

\* send_full sends k of the n words that are left.
LEMMA PacketSends ==
    ASSUME NEW g \in BenchPrograms, NEW w \in Seq(Nat), NEW n \in Nat, NEW t \in Nat, NEW r,
           InPacket(g, w, n, t, r), NEW k \in 0 .. n, NEW x \in [1 .. k -> Nat],
           \A j \in 1 .. k : x[j] = (t - n + j - 1) % SeqRange
    PROVE  InPacket(g, w \o x, n - k, t, r)
<1> DEFINE s == g.size
           l == Len(w)
           z == w \o x
<1>1. s \in Nat /\ l \in Nat
  BY BenchArgs, LenProperties
<1>2. x \in Seq(Nat) /\ Len(x) = k
  OBVIOUS
<1>3. Len(z) = l + k /\ \A j \in 1 .. l + k : z[j] = IF j <= l THEN w[j] ELSE x[j - l]
  BY <1>2, ConcatProperties
<1>4. /\ l + n <= s
      /\ l + n = s => /\ \A j \in 1 .. l : w[j] = (t - s + j - 1) % SeqRange
                      /\ g.name = "verify" => r = (t - s) % SeqRange
  BY DEF InPacket
<1> HIDE DEF s, l, z
<1>5. Len(z) + (n - k) = l + n
  BY <1>1, <1>3
<1>6. ASSUME l + n = s, NEW j \in 1 .. l + k PROVE z[j] = (t - s + j - 1) % SeqRange
  <2>1. CASE j <= l
    BY <1>1, <1>3, <1>4, <1>6, <2>1
  <2>2. CASE ~(j <= l)
    <3>1. j - l \in 1 .. k /\ z[j] = x[j - l]
      BY <1>1, <1>3, <1>6, <2>2
    <3>2. t - n + (j - l) - 1 = t - s + j - 1
      BY <1>1, <1>6
    <3> QED
      BY <3>1, <3>2
  <2> QED
    BY <2>1, <2>2
<1>7. /\ Len(z) + (n - k) <= s
      /\ Len(z) + (n - k) = s => /\ \A j \in 1 .. Len(z) : z[j] = (t - s + j - 1) % SeqRange
                                 /\ g.name = "verify" => r = (t - s) % SeqRange
  BY <1>3, <1>4, <1>5, <1>6
<1> QED
  BY <1>7 DEF InPacket, s, z

\* The next packet is filled when the last one was received.
LEMMA PacketFilled ==
    ASSUME NEW g \in BenchPrograms, NEW t \in 0 .. SeqRange - 1, NEW r,
           g.name = "verify" => r = t
    PROVE  InPacket(g, <<>>, g.size, (t + g.size) % SeqRange, r)
<1> DEFINE s == g.size
           a == t + s
<1>1. s \in Nat \ {0} /\ SeqRange \in Nat \ {0}
  BY BenchArgs
<1>2. a \in Int /\ -s \in Int /\ a + (-s) = t
  BY <1>1
<1> HIDE DEF s, a
<1>3. ((a % SeqRange) + (-s)) % SeqRange = t
  BY <1>1, <1>2, AddRemainder, SmallRemainder
<1>4. (a % SeqRange) \in Int
  BY <1>1, <1>2
<1>5. ((a % SeqRange) - s) % SeqRange = t
  <2> DEFINE b == a % SeqRange
  <2>1. b - s = b + (-s)
    BY <1>1, <1>4
  <2> QED
    BY <1>3, <2>1
<1>6. Len(<<>>) = 0 /\ \A k \in 1 .. Len(<<>>) : FALSE
  OBVIOUS
<1> QED
  BY <1>1, <1>5, <1>6 DEF InPacket, s, a

\* recv() of the client gets a whole packet: it raises no alarm.
LEMMA PacketArrives ==
    ASSUME NEW g \in BenchPrograms, NEW w \in Seq(Nat), NEW t \in 0 .. SeqRange - 1,
           NEW r \in 0 .. SeqRange - 1, InPacket(g, w, 0, t, r), Len(w) = g.size,
           g.name = "bench" => t % g.size = 0
    PROVE  /\ g.name = "verify" =>
                /\ (r + g.size) % SeqRange = t
                /\ \A k \in 1 .. g.size : w[k] = (r + k - 1) % SeqRange
           /\ g.name = "bench" => w[1] % g.size = 0
<1> DEFINE s == g.size
           R == SeqRange
           a == t - s
<1>1. /\ s \in Nat \ {0} /\ R \in Nat \ {0} /\ a \in Int /\ t \in 0 .. R - 1
      /\ g.name = "bench" => R % s = 0 /\ t % s = 0
  BY BenchArgs
<1>2. /\ \A k \in 1 .. s : w[k] = (a + k - 1) % R
      /\ g.name = "verify" => r = a % R
  BY <1>1 DEF InPacket
<1>a. a = t - s
  OBVIOUS
<1> HIDE DEF s, R, a
<1>3. ASSUME g.name = "verify" PROVE (r + s) % R = t
  <2>1. ((a % R) + s) % R = (a + s) % R
    <3>1. s \in Int
      BY <1>1
    <3> QED
      BY <1>1, <3>1, AddRemainder
  <2>2. a + s = t
    BY <1>1, <1>a
  <2> QED
    BY <1>1, <1>2, <1>3, <2>1, <2>2, SmallRemainder
<1>4. ASSUME g.name = "verify", NEW k \in 1 .. s PROVE w[k] = (r + k - 1) % R
  <2> DEFINE b == k - 1
  <2>1. b \in Int /\ a + k - 1 = a + b
    BY <1>1
  <2> HIDE DEF b
  <2>2. ((a % R) + b) % R = (a + b) % R
    BY <1>1, <2>1, AddRemainder
  <2>3. r + k - 1 = r + b
    BY <1>1 DEF b
  <2> QED
    BY <1>2, <1>4, <2>1, <2>2, <2>3
<1>5. ASSUME g.name = "bench" PROVE w[1] % s = 0
  <2>0. R % s = 0 /\ t % s = 0
    BY <1>1, <1>5
  <2>1. w[1] = a % R
    <3>1. 1 \in 1 .. s /\ a + 1 - 1 = a
      BY <1>1
    <3> QED
      BY <1>2, <3>1
  <2>2. a % s = 0
    <3>1. t \in Int
      BY <1>1
    <3> QED
      BY <1>1, <1>a, <2>0, <3>1, MultipleShift
  <2>3. (a % R) % s = 0
    BY <1>1, <2>0, <2>2, MultipleRemainder
  <2> QED
    BY <2>1, <2>3
<1> QED
  BY <1>3, <1>4, <1>5 DEF s, R

------------------------------------------------------------------------------
(* What the calls of TcpPipe do.                                           *)

LEMMA Establishes ==
    ASSUME PipeType, NEW c \in Conns, Establish(c)
    PROVE  /\ PipeType' /\ program' = program /\ wire' = wire
           /\ \A s \in Sides, d \in Conns : sock'[s][d] = IF d = c THEN "open" ELSE sock[s][d]
BY DEF PipeType, Establish

LEMMA Receives ==
    ASSUME PipeType, NEW s \in Sides, NEW c \in Conns, NEW n \in Nat, NEW k \in Arrived(s, c, n),
           Receive(s, c, k)
    PROVE  /\ PipeType' /\ program' = program /\ sock' = sock
           /\ k \in 1 .. Len(wire[s][c]) /\ k <= n /\ wire[s][c] \in Seq(Nat)
           /\ wire'[s][c] = SubSeq(wire[s][c], k + 1, Len(wire[s][c]))
           /\ \A r \in Sides, d \in Conns : r # s \/ d # c => wire'[r][d] = wire[r][d]
<1> DEFINE w == wire[s][c]
           rest == SubSeq(w, k + 1, Len(w))
<1>1. w \in Seq(Nat) /\ Len(w) \in Nat
  <2>1. w \in Seq(Nat)
    BY DEF PipeType
  <2> HIDE DEF w
  <2> QED
    BY <2>1, LenProperties
<1>2. k \in 1 .. Len(w) /\ k <= n
  BY <1>1 DEF Arrived
<1>3. rest \in Seq(Nat)
  <2>1. k \in 0 .. Len(w)
    BY <1>1, <1>2
  <2> HIDE DEF w
  <2> QED
    BY <1>1, <2>1, Halves
<1>4. wire' = [wire EXCEPT ![s][c] = rest]
  BY DEF Receive
<1> HIDE DEF rest
<1>5. /\ wire' \in [Sides -> [Conns -> Seq(Nat)]]
      /\ wire'[s][c] = rest
      /\ \A r \in Sides, d \in Conns : r # s \/ d # c => wire'[r][d] = wire[r][d]
  BY <1>3, <1>4 DEF PipeType
<1> QED
  BY <1>1, <1>2, <1>5 DEF PipeType, Receive, rest

LEMMA Transmits ==
    ASSUME PipeType, NEW s \in Sides, NEW c \in Conns, NEW x \in Seq(Nat), Transmit(s, c, x)
    PROVE  /\ PipeType' /\ program' = program /\ sock' = sock
           /\ wire'[Far(s)][c] \in {wire[Far(s)][c], wire[Far(s)][c] \o x}
           /\ \A r \in Sides, d \in Conns : r # Far(s) \/ d # c => wire'[r][d] = wire[r][d]
<1> DEFINE w == wire[Far(s)][c]
           more == w \o x
<1>0. Far(s) \in Sides
  BY DEF Far, Sides
<1>1. w \in Seq(Nat)
  BY <1>0 DEF PipeType
<1>2. more \in Seq(Nat)
  <2> HIDE DEF w
  <2> QED
    BY <1>1, ConcatProperties
<1>3. wire' = wire \/ wire' = [wire EXCEPT ![Far(s)][c] = more]
  BY DEF Transmit
<1> HIDE DEF more
<1>4. /\ wire' \in [Sides -> [Conns -> Seq(Nat)]]
      /\ wire'[Far(s)][c] \in {w, more}
      /\ \A r \in Sides, d \in Conns : r # Far(s) \/ d # c => wire'[r][d] = wire[r][d]
  <2> DEFINE f == Far(s)
  <2>1. /\ f \in Sides /\ wire \in [Sides -> [Conns -> Seq(Nat)]]
        /\ wire' = wire \/ wire' = [wire EXCEPT ![f][c] = more]
    BY <1>0, <1>3 DEF PipeType
  <2> HIDE DEF f
  <2>2. /\ wire' \in [Sides -> [Conns -> Seq(Nat)]]
        /\ wire'[f][c] \in {wire[f][c], more}
        /\ \A r \in Sides, d \in Conns : r # f \/ d # c => wire'[r][d] = wire[r][d]
    <3>1. CASE wire' = wire
      BY <2>1, <3>1
    <3>2. CASE wire' = [wire EXCEPT ![f][c] = more]
      BY <1>2, <2>1, <3>2
    <3> QED
      BY <2>1, <3>1, <3>2
  <2> QED
    BY <2>2 DEF f
<1> QED
  BY <1>4 DEF PipeType, Transmit, more

LEMMA Closes ==
    ASSUME PipeType, NEW s \in Sides, NEW S, CloseAll(s, S)
    PROVE  /\ PipeType' /\ program' = program
           /\ \A r \in Sides, d \in Conns :
                /\ sock'[r][d] = IF r = s /\ d \in S THEN "closed" ELSE sock[r][d]
                /\ wire'[r][d] = IF r = s /\ d \in S THEN <<>> ELSE wire[r][d]
<1>1. <<>> \in Seq(Nat)
  BY EmptySeq
<1>2. /\ sock' = [sock EXCEPT ![s] = [c \in Conns |-> IF c \in S THEN "closed" ELSE sock[s][c]]]
      /\ wire' = [wire EXCEPT ![s] = [c \in Conns |-> IF c \in S THEN <<>> ELSE wire[s][c]]]
      /\ program' = program
  BY DEF CloseAll, Shut, Unread
<1>3. /\ sock' \in [Sides -> [Conns -> {"none", "open", "closed"}]]
      /\ \A r \in Sides, d \in Conns :
            sock'[r][d] = IF r = s /\ d \in S THEN "closed" ELSE sock[r][d]
  BY <1>2 DEF PipeType
<1>4. /\ wire' \in [Sides -> [Conns -> Seq(Nat)]]
      /\ \A r \in Sides, d \in Conns :
            wire'[r][d] = IF r = s /\ d \in S THEN <<>> ELSE wire[r][d]
  BY <1>1, <1>2 DEF PipeType
<1> QED
  BY <1>2, <1>3, <1>4 DEF PipeType

------------------------------------------------------------------------------
(* Steps that leave a part of the state alone.                             *)

\* Steps of the client neither open nor close a socket of the server.
LEMMA ServerSame ==
    ASSUME ServerInv, UNCHANGED <<program, serverVars>>,
           \A c \in Conns : sock'["server"][c] = sock["server"][c],
           \A c \in Conns : sock'["client"][c] = "none" => sock["client"][c] = "none",
           Used \subseteq Conns
    PROVE  ServerInv'
<1>1. \A l \in Loops : Line(l)' = Line(l)
  BY DEF Line, serverVars
<1>2. Used' = Used /\ backlog' = backlog /\ accepted' = accepted
  BY DEF Used, serverVars
<1>3. \A c : InLine(c)' <=> InLine(c)
  BY <1>1 DEF InLine
<1>4. LinesInv'
  BY <1>1 DEF ServerInv, LinesInv
<1>5. SocketInv'
  BY <1>2, <1>3 DEF ServerInv, SocketInv
<1>6. IndexInv'
  BY DEF ServerInv, IndexInv, Live, serverVars
<1> QED
  BY <1>4, <1>5, <1>6 DEF ServerInv

SameHands(c) ==
    \A l \in Loops : (Holds(l, c)' <=> Holds(l, c)) /\ (Holds(l, c) => held'[l] = held[l])

\* Nothing is added to what is on its way.
LEMMA PacketFrame ==
    ASSUME program \in BenchPrograms, PipeType, ServerType, NEW c \in Conns, Packet(c),
           program' = program, SameHands(c), c \notin alarms',
           tx_seq'[c] = tx_seq[c], rx_seq'[c] = rx_seq[c],
           wire'["client"][c] \in {wire["client"][c], <<>>},
           wire'["server"][c] \in {wire["server"][c], <<>>},
           Left(c) \in Nat, Left(c)' \in Nat, Left(c)' <= Left(c)
    PROVE  Packet(c)'
<1>1. wire["client"][c] \in Seq(Nat) /\ wire["server"][c] \in Seq(Nat)
  BY DEF PipeType, Sides
<1>2. ASSUME NEW h \in Seq(Nat), Fine(c, h)
      PROVE  InPacket(program, (wire'["client"][c] \o h) \o wire'["server"][c], Left(c)', tx_seq'[c], rx_seq'[c])
  <2> DEFINE u == wire["client"][c]
             v == wire["server"][c]
             x == wire'["client"][c]
             z == wire'["server"][c]
             n == Left(c)
             m == Left(c)'
  <2>1. InPacket(program, (u \o h) \o v, n, tx_seq[c], rx_seq[c])
    BY <1>2 DEF Fine, OnWay
  <2>2. /\ u \in Seq(Nat) /\ v \in Seq(Nat) /\ x \in {u, <<>>} /\ z \in {v, <<>>}
        /\ n \in Nat /\ m \in Nat /\ m <= n
    BY <1>1
  <2> HIDE DEF u, v, x, z, n, m
  <2>3. InPacket(program, (x \o h) \o z, m, tx_seq[c], rx_seq[c])
    <3>1. h \in {h, <<>>} /\ h \in Seq(Nat)
      OBVIOUS
    <3> DEFINE t == tx_seq[c]
               r == rx_seq[c]
    <3>2. InPacket(program, (u \o h) \o v, n, t, r)
      BY <2>1
    <3> HIDE DEF t, r
    <3>3. InPacket(program, (x \o h) \o z, m, t, r)
      BY <2>2, <3>1, <3>2, PacketLost
    <3> QED
      BY <3>3 DEF t, r
  <2> QED
    BY <2>3 DEF x, z, m
<1>3. ASSUME NEW l \in Loops, Holds(l, c)' PROVE Fine(c, held[l])'
  <2>1. Holds(l, c) /\ held'[l] = held[l]
    BY <1>3 DEF SameHands
  <2>2. Fine(c, held[l]) /\ held[l] \in Seq(Nat)
    BY <2>1 DEF Packet, ServerType
  <2>3. InPacket(program, (wire'["client"][c] \o held[l]) \o wire'["server"][c], Left(c)', tx_seq'[c], rx_seq'[c])
    BY <1>2, <2>2
  <2> QED
    BY <2>1, <2>3 DEF Fine, OnWay
<1>4. ASSUME \A l \in Loops : ~Holds(l, c)' PROVE Fine(c, <<>>)'
  <2>1. \A l \in Loops : ~Holds(l, c)
    BY <1>4 DEF SameHands
  <2>2. Fine(c, <<>>) /\ <<>> \in Seq(Nat)
    BY <2>1, EmptySeq DEF Packet
  <2>3. InPacket(program, (wire'["client"][c] \o <<>>) \o wire'["server"][c], Left(c)', tx_seq'[c], rx_seq'[c])
    BY <1>2, <2>2
  <2> QED
    BY <2>3 DEF Fine, OnWay
<1> QED
  BY <1>3, <1>4 DEF Packet

LEMMA LeftNat == ASSUME ClientType, program \in BenchPrograms, NEW c PROVE Left(c) \in Nat
<1>1. size \in Nat
  BY BenchArgs DEF size
<1>2. left \in Nat
  BY <1>1 DEF ClientType
<1> QED
  BY <1>2 DEF Left

LEMMA SameUnsent ==
    ASSUME NEW c, Unsent(c), wire' = wire, SameHands(c), Left(c)' = Left(c),
           tx_seq' = tx_seq, rx_seq' = rx_seq
    PROVE  Unsent(c)'
BY DEF Unsent, SameHands

LEMMA ServerTypeSame ==
    ASSUME ServerType, UNCHANGED <<program, serverVars>>
    PROVE  ServerType'
BY DEF ServerType, serverVars, Used

LEMMA HandsSame == ASSUME NEW c, UNCHANGED serverVars PROVE SameHands(c)
BY DEF SameHands, Holds, serverVars

------------------------------------------------------------------------------
(* Steps of the client.                                                    *)

\* Steps that neither send nor receive.
LEMMA QuietStep ==
    ASSUME program \in BenchPrograms, InvBench, ClientType',
           UNCHANGED <<pipeVars, left, tx_seq, rx_seq, alarms, split, serverVars>>,
           left = 0 \/ UNCHANGED at
    PROVE  /\ PipeType' /\ ServerType' /\ ServerInv' /\ PacketInv'
           /\ \A c \in Used : Stamped(c)' /\ (Unsent(c) => Unsent(c)')
<1>1. program' = program /\ sock' = sock /\ wire' = wire /\ Used' = Used /\ size' = size
  BY DEF pipeVars, Used, size
<1>2. PipeType /\ ClientType /\ ServerType /\ ServerInv /\ PacketInv /\ ClientInv
  BY DEF InvBench, TypeBench
<1>3. Used \subseteq Conns
  BY BenchArgs DEF Used
<1>4. PipeType' /\ ServerType'
  BY <1>1, <1>2, ServerTypeSame DEF PipeType
<1>5. ServerInv'
  BY <1>1, <1>2, <1>3, ServerSame
<1>6. ASSUME NEW c \in Used PROVE Left(c)' = Left(c) /\ SameHands(c)
  BY HandsSame DEF Left
<1>7. PacketInv'
  <2>1. SUFFICES ASSUME NEW c \in Used \ split PROVE Packet(c)'
    BY <1>1 DEF PacketInv
  <2>2. Packet(c)
    BY <1>2 DEF PacketInv
  <2>3. Left(c) \in Nat /\ Left(c)' = Left(c) /\ SameHands(c) /\ c \in Conns
    BY <1>2, <1>3, <1>6, LeftNat
  <2>4. c \notin alarms'
    BY <2>2 DEF Packet
  <2> QED
    BY <1>1, <1>2, <2>2, <2>3, <2>4, PacketFrame
<1>8. ASSUME NEW c \in Used PROVE Stamped(c)' /\ (Unsent(c) => Unsent(c)')
  BY <1>1, <1>2, <1>6, SameUnsent DEF ClientInv, Stamped
<1> QED
  BY <1>4, <1>5, <1>7, <1>8

Quiet == 
    StartThread \/ TestRunning \/ EpollWait \/ Dispatch \/ Tick \/ Stop
        \/ \E c \in Used : HandleFails(c)

LEMMA QuietSteps ==
    ASSUME program \in BenchPrograms, InvBench, Quiet
    PROVE  InvBench' /\ program' = program
<1>1. PipeType /\ ClientType /\ ServerType /\ ServerInv /\ PacketInv /\ ClientInv
  BY DEF InvBench, TypeBench
<1>2. UNCHANGED <<pipeVars, left, tx_seq, rx_seq, alarms, split, serverVars>>
  BY DEF Quiet, StartThread, TestRunning, EpollWait, Dispatch, Tick, Stop, HandleFails, RecvFails
<1>3. program' = program /\ Used' = Used /\ size' = size
  BY <1>2 DEF pipeVars, Used, size
<1>4. size \in Nat \ {0} /\ left \in 0 .. size
  BY <1>1, BenchArgs DEF ClientType, size
<1>5. /\ left' = left /\ tx_seq' = tx_seq /\ rx_seq' = rx_seq
      /\ phase' \in {"connect", "first", "tick", "join", "end"}
      /\ thread' \in {"none", "test", "wait", "dispatch", "recv", "send", "ended"}
      /\ events' \subseteq Used /\ at' \in Used \cup {NoConn}
      /\ left = 0 \/ at' = at
      /\ phase' \in {"connect", "first"} <=> thread' = "none"
      /\ left > 0 <=> at' # NoConn /\ thread' \in {"none", "send"}
      /\ thread' = "none" => thread = "none" /\ events' \subseteq events
      /\ at' # NoConn => thread' \in {"none", "recv", "send"}
      /\ thread' = "recv" => at' # NoConn
  <2>0. NoConn \notin Used
    BY BenchArgs DEF Used
  <2>1. CASE StartThread
    BY <1>1, <1>4, <2>1 DEF StartThread, ClientType, ClientInv
  <2>2. CASE TestRunning
    BY <1>1, <1>4, <2>2 DEF TestRunning, ClientType, ClientInv
  <2>3. CASE EpollWait
    BY <1>1, <1>4, <2>3 DEF EpollWait, ClientType, ClientInv
  <2>4. CASE Dispatch
    BY <1>1, <1>4, <2>0, <2>4 DEF Dispatch, ClientType, ClientInv
  <2>5. CASE Tick
    BY <1>1, <1>4, <2>5 DEF Tick, ClientType, ClientInv
  <2>6. CASE Stop
    BY <1>1, <1>4, <2>6 DEF Stop, ClientType, ClientInv
  <2>7. CASE \E c \in Used : HandleFails(c)
    BY <1>1, <1>4, <2>7 DEF HandleFails, ClientType, ClientInv
  <2> QED
    BY <2>1, <2>2, <2>3, <2>4, <2>5, <2>6, <2>7 DEF Quiet
<1>6. ClientType'
  BY <1>1, <1>3, <1>5 DEF ClientType
<1>7. /\ PipeType' /\ ServerType' /\ ServerInv' /\ PacketInv'
      /\ \A c \in Used : Stamped(c)' /\ (Unsent(c) => Unsent(c)')
  BY <1>2, <1>5, <1>6, QuietStep
<1>8. ClientInv'
  <2>1. thread' = "none" => \A c \in events' : Unsent(c)'
    BY <1>1, <1>5, <1>7 DEF ClientInv, ClientType
  <2> QED
    BY <1>3, <1>5, <1>7, <2>1 DEF ClientInv
<1> QED
  BY <1>3, <1>6, <1>7, <1>8 DEF InvBench, TypeBench

\* The destructors close the sockets of the client: what was on its way to it
\* is lost.
LEMMA JoinStep ==
    ASSUME program \in BenchPrograms, InvBench, Join
    PROVE  InvBench' /\ program' = program
<1>1. PipeType /\ ClientType /\ ServerType /\ ServerInv /\ PacketInv /\ ClientInv
  BY DEF InvBench, TypeBench
<1>2. "client" \in Sides /\ "server" \in Sides /\ CloseAll("client", Used)
  BY DEF Sides, Join
<1>3. /\ PipeType' /\ program' = program
      /\ \A r \in Sides, d \in Conns :
            /\ sock'[r][d] = IF r = "client" /\ d \in Used THEN "closed" ELSE sock[r][d]
            /\ wire'[r][d] = IF r = "client" /\ d \in Used THEN <<>> ELSE wire[r][d]
  BY <1>1, <1>2, Closes
<1>4. /\ Used' = Used /\ size' = size /\ Used \subseteq Conns
      /\ phase' = "end" /\ thread' = thread /\ thread = "ended"
      /\ UNCHANGED <<events, at, left, tx_seq, rx_seq, alarms, split, serverVars>>
  BY <1>3, BenchArgs DEF Used, size, Join
<1>5. ClientType' /\ ServerType'
  BY <1>1, <1>3, <1>4, ServerTypeSame DEF ClientType
<1>6. ServerInv'
  <2>1. \A c \in Conns : sock'["server"][c] = sock["server"][c]
    BY <1>2, <1>3
  <2>2. \A c \in Conns : sock'["client"][c] = "none" => sock["client"][c] = "none"
    BY <1>2, <1>3
  <2>3. UNCHANGED <<program, serverVars>>
    BY <1>3, <1>4
  <2> QED
    BY <1>1, <1>4, <2>1, <2>2, <2>3, ServerSame
<1>7. PacketInv'
  <2>1. SUFFICES ASSUME NEW c \in Used \ split PROVE Packet(c)'
    BY <1>4 DEF PacketInv
  <2>2. Packet(c) /\ c \in Conns
    BY <1>1, <1>4 DEF PacketInv
  <2>3. Left(c) \in Nat /\ Left(c)' = Left(c) /\ SameHands(c)
    BY <1>1, <1>4, LeftNat, HandsSame DEF Left
  <2>4. c \notin alarms'
    BY <1>4, <2>2 DEF Packet
  <2>5. wire'["client"][c] = <<>> /\ wire'["server"][c] = wire["server"][c]
    BY <1>2, <1>3, <2>2
  <2> QED
    BY <1>1, <1>3, <1>4, <2>2, <2>3, <2>4, <2>5, PacketFrame
<1>8. ClientInv'
  BY <1>1, <1>3, <1>4 DEF ClientInv, Stamped
<1> QED
  BY <1>3, <1>5, <1>6, <1>7, <1>8 DEF InvBench, TypeBench

\* A connection is established: the server may accept it.
LEMMA ConnectStep ==
    ASSUME program \in BenchPrograms, InvBench, NEW c \in Used, Connect(c)
    PROVE  InvBench' /\ program' = program
<1>1. PipeType /\ ClientType /\ ServerType /\ ServerInv /\ PacketInv /\ ClientInv
  BY DEF InvBench, TypeBench
<1>2. "client" \in Sides /\ "server" \in Sides /\ c \in Conns /\ Used \subseteq Conns /\ NoConn \notin Used
  BY BenchArgs DEF Sides, Used
<1>3. /\ PipeType' /\ program' = program /\ wire' = wire
      /\ \A s \in Sides, d \in Conns : sock'[s][d] = IF d = c THEN "open" ELSE sock[s][d]
  BY <1>1, <1>2, Establishes DEF Connect
<1>4. /\ Used' = Used /\ size' = size
      /\ phase = "connect" /\ phase' \in {"connect", "first"} /\ sock["client"][c] = "none"
      /\ backlog' = backlog \cup {c}
      /\ UNCHANGED <<thread, events, at, left, tx_seq, rx_seq, alarms, split,
                     accepted, buf_conns, conns, loop, batch, cur, held>>
  BY <1>3 DEF Used, size, Connect
<1>5. ClientType' /\ ServerType'
  <2>1. ClientType'
    BY <1>1, <1>4 DEF ClientType
  <2>2. ServerType'
    BY <1>1, <1>4 DEF ServerType
  <2> QED
    BY <2>1, <2>2
<1>6. ServerInv'
  <2>1. sock["server"][c] = "none"
    BY <1>1, <1>2, <1>4 DEF ServerInv, SocketInv
  <2>2. c \notin backlog /\ c # accepted /\ ~InLine(c)
    BY <1>1, <2>1 DEF ServerInv, SocketInv
  <2>3. \A l \in Loops : Line(l)' = Line(l)
    BY <1>4 DEF Line
  <2>4. \A d : InLine(d)' <=> InLine(d)
    BY <2>3 DEF InLine
  <2>5. LinesInv'
    BY <1>1, <2>3 DEF ServerInv, LinesInv
  <2>6. SocketInv'
    <3>1. \A d \in backlog' : d # accepted' /\ ~InLine(d)'
      BY <1>1, <1>4, <2>2, <2>4 DEF ServerInv, SocketInv
    <3>2. accepted' # NoConn => ~InLine(accepted)'
      <4>1. accepted # NoConn => ~InLine(accepted)
        BY <1>1 DEF ServerInv, SocketInv
      <4> QED
        BY <1>4, <2>3, <4>1 DEF InLine
    <3>3. \A d \in Used : sock'["server"][d] = "open" <=> d \in backlog' \/ d = accepted' \/ InLine(d)'
      BY <1>1, <1>2, <1>3, <1>4, <2>4 DEF ServerInv, SocketInv
    <3>4. \A d \in Conns : sock'["client"][d] = "none" => sock'["server"][d] = "none"
      BY <1>1, <1>2, <1>3 DEF ServerInv, SocketInv
    <3> QED
      BY <1>4, <3>1, <3>2, <3>3, <3>4 DEF SocketInv
  <2>7. IndexInv'
    BY <1>1, <1>4 DEF ServerInv, IndexInv, Live
  <2> QED
    BY <2>5, <2>6, <2>7 DEF ServerInv
<1>7. ASSUME NEW d \in Used PROVE Left(d)' = Left(d) /\ SameHands(d)
  BY <1>4 DEF Left, SameHands, Holds
<1>8. PacketInv'
  <2>1. SUFFICES ASSUME NEW d \in Used \ split PROVE Packet(d)'
    BY <1>4 DEF PacketInv
  <2>2. Packet(d) /\ d \in Conns
    BY <1>1, <1>2 DEF PacketInv
  <2>3. Left(d) \in Nat /\ Left(d)' = Left(d) /\ SameHands(d)
    BY <1>1, <1>7, LeftNat
  <2>4. d \notin alarms'
    BY <1>4, <2>2 DEF Packet
  <2> QED
    BY <1>1, <1>3, <1>4, <2>2, <2>3, <2>4, PacketFrame
<1>9. ClientInv'
  <2>1. \A d \in Used : Unsent(d) => Unsent(d)'
    BY <1>3, <1>4, <1>7, SameUnsent
  <2>2. thread' = "none" => \A d \in events' : Unsent(d)'
    BY <1>1, <1>4, <2>1 DEF ClientInv, ClientType
  <2> QED
    BY <1>1, <1>3, <1>4, <2>2 DEF ClientInv, Stamped
<1> QED
  BY <1>3, <1>5, <1>6, <1>8, <1>9 DEF InvBench, TypeBench

\* send() of the first packet of c.
LEMMA FirstSendStep ==
    ASSUME program \in BenchPrograms, InvBench, NEW c \in Used, FirstSend(c)
    PROVE  InvBench' /\ program' = program
<1>1. PipeType /\ ClientType /\ ServerType /\ ServerInv /\ PacketInv /\ ClientInv
  BY DEF InvBench, TypeBench
<1>2. /\ c \in Conns /\ Used \subseteq Conns /\ NoConn \notin Used
      /\ size \in Nat \ {0} /\ SeqRange \in Nat \ {0}
      /\ program.name = "bench" => SeqRange % size = 0
  BY BenchArgs DEF Used, size
<1>3. /\ program' = program /\ sock' = sock /\ wire' = wire
      /\ Used' = Used /\ size' = size
      /\ phase = "first" /\ thread = "none" /\ at = NoConn /\ left = 0 /\ c \in events
      /\ events' = events \ {c} /\ at' = c /\ left' = size
      /\ tx_seq' = [tx_seq EXCEPT ![c] = (@ + size) % SeqRange]
      /\ UNCHANGED <<phase, thread, rx_seq, alarms, split, serverVars>>
  <2>1. thread = "none" /\ left = 0
    BY <1>1, <1>2 DEF FirstSend, ClientInv, ClientType
  <2> QED
    BY <2>1 DEF FirstSend, Fill, pipeVars, Used, size
<1>4. /\ Unsent(c) /\ tx_seq[c] = 0
      /\ tx_seq'[c] = (0 + size) % SeqRange /\ tx_seq'[c] \in 0 .. SeqRange - 1
      /\ tx_seq' \in [Conns -> 0 .. SeqRange - 1]
      /\ \A d \in Conns : d # c => tx_seq'[d] = tx_seq[d]
  <2>1. Unsent(c) /\ tx_seq[c] = 0
    BY <1>1, <1>3 DEF ClientInv, Unsent
  <2>2. (0 + size) % SeqRange \in 0 .. SeqRange - 1
    BY <1>2
  <2> QED
    BY <1>1, <1>2, <1>3, <2>1, <2>2 DEF ClientType
<1>5. PipeType' /\ ClientType' /\ ServerType' /\ ServerInv'
  <2>1. PipeType' /\ ServerType'
    BY <1>1, <1>3, ServerTypeSame DEF PipeType
  <2>2. ClientType'
    BY <1>1, <1>2, <1>3, <1>4 DEF ClientType
  <2>3. ServerInv'
    BY <1>1, <1>2, <1>3, ServerSame
  <2> QED
    BY <2>1, <2>2, <2>3
<1>6. ASSUME NEW d \in Used, d # c PROVE Left(d)' = 0 /\ Left(d) = 0
  BY <1>2, <1>3, <1>6 DEF Left
<1>7. ASSUME NEW d \in Used \ split PROVE Packet(d)'
  <2>1. Packet(d) /\ d \in Conns /\ SameHands(d) /\ d \notin alarms'
    BY <1>1, <1>2, <1>3, <1>7, HandsSame DEF PacketInv, Packet
  <2>2. CASE d # c
    BY <1>1, <1>3, <1>4, <1>6, <2>1, <2>2, PacketFrame
  <2>3. CASE d = c
    <3>1. \A l \in Loops : ~Holds(l, d)'
      BY <1>4, <2>1, <2>3 DEF Unsent, SameHands
    <3>2. OnWay(d, <<>>)' = <<>>
      <4>1. wire'["client"][d] = <<>> /\ wire'["server"][d] = <<>>
        BY <1>3, <1>4, <2>3 DEF Unsent
      <4>2. (<<>> \o <<>>) \o <<>> = <<>>
        OBVIOUS
      <4> QED
        BY <4>1, <4>2 DEF OnWay
    <3>3. InPacket(program, <<>>, program.size, (0 + program.size) % SeqRange, rx_seq[c])
      <4>1. 0 \in 0 .. SeqRange - 1 /\ rx_seq[c] = 0
        BY <1>2, <1>4 DEF Unsent
      <4> QED
        BY <4>1, PacketFilled
    <3>4. Left(d)' = program.size /\ tx_seq'[d] = (0 + program.size) % SeqRange /\ rx_seq'[d] = rx_seq[c]
      BY <1>3, <1>4, <2>3 DEF Left, size
    <3>5. Fine(d, <<>>)'
      BY <1>3, <3>2, <3>3, <3>4 DEF Fine
    <3> QED
      BY <2>1, <3>1, <3>5 DEF Packet
  <2> QED
    BY <2>2, <2>3
<1>8. ClientInv'
  <2>1. \A d \in Used : Stamped(d)'
    <3>1. ASSUME program.name = "bench" PROVE tx_seq'[c] % size = 0
      <4>1. (0 + size) % size = 0
        <5>1. 0 % size = 0 /\ 0 \in Int
          BY <1>2
        <5> QED
          BY <1>2, <5>1, MultipleShift
      <4>2. 0 + size \in Int
        BY <1>2
      <4>3. SeqRange % size = 0
        BY <1>2, <3>1
      <4> QED
        BY <1>2, <1>4, <4>1, <4>2, <4>3, MultipleRemainder
    <3> QED
      BY <1>1, <1>2, <1>3, <1>4, <3>1 DEF ClientInv, Stamped
  <2>2. ASSUME NEW d \in events' PROVE Unsent(d)'
    <3>1. d \in Used /\ d # c /\ Unsent(d)
      BY <1>1, <1>3, <2>2 DEF ClientInv, ClientType
    <3>2. SameHands(d) /\ Left(d)' = Left(d)
      BY <1>3, <1>6, <3>1, HandsSame
    <3> QED
      BY <1>2, <1>3, <1>4, <3>1, <3>2 DEF Unsent, SameHands
  <2> QED
    BY <1>1, <1>2, <1>3, <2>1, <2>2 DEF ClientInv
<1>9. PacketInv'
  BY <1>3, <1>7 DEF PacketInv
<1> QED
  BY <1>3, <1>5, <1>8, <1>9 DEF InvBench, TypeBench

\* The words that send_full sends next.
LEMMA NextWords ==
    ASSUME program \in BenchPrograms, ClientType, at \in Used, NEW n \in 1 .. left
    PROVE  LET x == [k \in 1 .. n |-> (tx_seq[at] - left + k - 1) % SeqRange]
           IN  x \in [1 .. n -> Nat] /\ x \in Seq(Nat)
<1> DEFINE x == [k \in 1 .. n |-> (tx_seq[at] - left + k - 1) % SeqRange]
<1>1. tx_seq[at] \in Int /\ left \in Int /\ SeqRange \in Nat \ {0} /\ n \in Nat
  BY BenchArgs DEF ClientType, Used, size
<1>2. ASSUME NEW k \in 1 .. n PROVE (tx_seq[at] - left + k - 1) % SeqRange \in Nat
  <2> DEFINE a == tx_seq[at] - left + k - 1
  <2>1. a \in Int
    BY <1>1
  <2> HIDE DEF a
  <2>2. a % SeqRange \in Nat
    BY <1>1, <2>1
  <2> QED
    BY <2>2 DEF a
<1>3. x \in [1 .. n -> Nat]
  BY <1>2
<1> HIDE DEF x
<1>4. x \in Seq(Nat)
  BY <1>1, <1>3
<1> QED
  BY <1>3, <1>4 DEF x

\* send_full sends some words, which are lost if the server closed; or it
\* gives up.
LEMMA SendFullStep ==
    ASSUME program \in BenchPrograms, InvBench, SendFull
    PROVE  InvBench' /\ program' = program
<1>1. PipeType /\ ClientType /\ ServerType /\ ServerInv /\ PacketInv /\ ClientInv
  BY DEF InvBench, TypeBench
<1>2. /\ Used \subseteq Conns /\ NoConn \notin Used /\ size \in Nat \ {0}
      /\ "client" \in Sides /\ "server" \in Sides /\ Far("client") = "server"
  BY BenchArgs DEF Used, size, Sides, Far
<1>3. at \in Used /\ at \in Conns /\ thread \in {"none", "send"} /\ left \in 1 .. size
  BY <1>1, <1>2 DEF SendFull, ClientInv, ClientType
<1> DEFINE words(n) == [k \in 1 .. n |-> (tx_seq[at] - left + k - 1) % SeqRange]
<1>4. PICK n \in 1 .. left :
         /\ program' = program /\ sock' = sock /\ PipeType'
         /\ \A d \in Conns : wire'["client"][d] = wire["client"][d]
         /\ \A d \in Conns : d # at => wire'["server"][d] = wire["server"][d]
         /\ \/ wire'["server"][at] = wire["server"][at] /\ left' \in 0 .. left - 1
            \/ wire'["server"][at] = wire["server"][at] \o words(n) /\ left' = left - n
  <2>1. CASE left' = 0 /\ UNCHANGED pipeVars
    <3>1. 1 \in 1 .. left /\ left' \in 0 .. left - 1
      BY <1>2, <1>3, <2>1
    <3>2. program' = program /\ sock' = sock /\ wire' = wire /\ PipeType'
      BY <1>1, <2>1 DEF pipeVars, PipeType
    <3> QED
      BY <3>1, <3>2
  <2>2. CASE /\ Room("client", at) > 0
             /\ LET n == IF left < Room("client", at) THEN left ELSE Room("client", at)
                IN  Transmit("client", at, words(n)) /\ left' = left - n
    <3> DEFINE n == IF left < Room("client", at) THEN left ELSE Room("client", at)
    <3>1. Room("client", at) \in Int
      <4>1. wire["server"][at] \in Seq(Nat)
        BY <1>1, <1>2, <1>3 DEF PipeType
      <4>2. Len(wire["server"][at]) \in Nat /\ Cap \in Nat
        BY <4>1, LenProperties, PipeAssumption
      <4> QED
        BY <1>2, <4>2 DEF Room
    <3>2. n \in 1 .. left
      BY <1>2, <1>3, <2>2, <3>1
    <3>3. Transmit("client", at, words(n)) /\ left' = left - n
      BY <2>2
    <3> HIDE DEF n
    <3>4. words(n) \in Seq(Nat)
      BY <1>1, <1>3, <3>2, NextWords
    <3> DEFINE x == words(n)
    <3> HIDE DEF words
    <3>a. x \in Seq(Nat) /\ Transmit("client", at, x)
      BY <3>3, <3>4
    <3> HIDE DEF x
    <3>b. /\ PipeType' /\ program' = program /\ sock' = sock
          /\ wire'[Far("client")][at] \in {wire[Far("client")][at], wire[Far("client")][at] \o x}
          /\ \A r \in Sides, d \in Conns : r # Far("client") \/ d # at => wire'[r][d] = wire[r][d]
      BY <1>1, <1>2, <1>3, <3>a, Transmits
    <3>5. /\ PipeType' /\ program' = program /\ sock' = sock
          /\ wire'["server"][at] \in {wire["server"][at], wire["server"][at] \o words(n)}
          /\ \A r \in Sides, d \in Conns : r # "server" \/ d # at => wire'[r][d] = wire[r][d]
      BY <1>2, <3>b DEF x
    <3>6. \A d \in Conns : wire'["client"][d] = wire["client"][d]
      BY <1>2, <3>5
    <3>7. left' \in 0 .. left - 1
      BY <1>2, <1>3, <3>2, <3>3
    <3> QED
      BY <1>2, <3>2, <3>3, <3>5, <3>6, <3>7
  <2> QED
    BY <2>1, <2>2 DEF SendFull
<1>5. /\ Used' = Used /\ size' = size /\ left' \in 0 .. size
      /\ at' = IF left' = 0 THEN NoConn ELSE at
      /\ thread' = IF left' = 0 /\ thread = "send" THEN "dispatch" ELSE thread
      /\ UNCHANGED <<phase, events, tx_seq, rx_seq, alarms, split, serverVars>>
  BY <1>2, <1>3, <1>4 DEF Used, size, SendFull
<1>6. ClientType' /\ ServerType'
  BY <1>1, <1>3, <1>4, <1>5, ServerTypeSame DEF ClientType
<1>7. ServerInv'
  BY <1>1, <1>2, <1>4, <1>5, ServerSame
<1>8. Left(at) = left /\ Left(at)' = left' /\ left' \in Nat
  BY <1>2, <1>3, <1>5 DEF Left
<1>9. ASSUME NEW d \in Used, d # at PROVE Left(d)' = 0 /\ Left(d) = 0
  BY <1>2, <1>5, <1>9 DEF Left
<1>10. ASSUME NEW c \in Used \ split PROVE Packet(c)'
  <2>1. Packet(c) /\ c \in Conns /\ SameHands(c) /\ c \notin alarms'
    BY <1>1, <1>2, <1>5, <1>10, HandsSame DEF PacketInv, Packet
  <2>2. wire'["client"][c] = wire["client"][c]
    BY <1>4, <2>1
  <2>3. CASE c # at
    BY <1>1, <1>4, <1>5, <1>9, <2>1, <2>2, <2>3, PacketFrame
  <2>4. CASE c = at /\ wire'["server"][at] = wire["server"][at] /\ left' \in 0 .. left - 1
    <3>1. Left(c) \in Nat /\ Left(c)' \in Nat /\ Left(c)' <= Left(c)
      BY <1>2, <1>3, <1>5, <2>4 DEF Left
    <3> QED
      BY <1>1, <1>4, <1>5, <2>1, <2>2, <2>4, <3>1, PacketFrame
  <2>5. CASE c = at /\ wire'["server"][at] = wire["server"][at] \o words(n) /\ left' = left - n
    <3> DEFINE x == words(n)
               u == wire["client"][c]
               v == wire["server"][c]
    <3>1. /\ x \in Seq(Nat) /\ x \in [1 .. n -> Nat]
          /\ \A j \in 1 .. n : x[j] = (tx_seq[c] - left + j - 1) % SeqRange
      BY <1>1, <1>3, <2>5, NextWords
    <3>2. u \in Seq(Nat) /\ v \in Seq(Nat)
      BY <1>1, <1>2, <2>1 DEF PipeType
    <3>3. tx_seq[c] \in Nat /\ left \in Nat /\ n \in 0 .. left
      BY <1>1, <1>2, <1>3, <2>1 DEF ClientType
    <3>4. ASSUME NEW h \in Seq(Nat), Fine(c, h)
          PROVE  InPacket(program, (wire'["client"][c] \o h) \o wire'["server"][c], Left(c)', tx_seq'[c], rx_seq'[c])
      <4>1. InPacket(program, (u \o h) \o v, left, tx_seq[c], rx_seq[c])
        BY <2>5, <3>4 DEF Fine, OnWay, Left
      <4> HIDE DEF x, u, v
      <4> DEFINE w == (u \o h) \o v
      <4>2. w \in Seq(Nat)
        BY <3>2, <3>4, WayLength
      <4>3. (u \o h) \o (v \o x) = w \o x
        <5> DEFINE y == u \o h
        <5>1. y \in Seq(Nat)
          BY <3>2, <3>4, ConcatProperties
        <5> HIDE DEF y
        <5>2. (y \o v) \o x = y \o (v \o x)
          BY <3>1, <3>2, <5>1, Regroup
        <5> QED
          BY <5>2 DEF y
      <4>4. InPacket(program, w, left, tx_seq[c], rx_seq[c])
        BY <4>1
      <4> HIDE DEF w
      <4>5. InPacket(program, w \o x, left - n, tx_seq[c], rx_seq[c])
        BY <3>1, <3>3, <4>2, <4>4, PacketSends
      <4>6. wire'["client"][c] = u /\ wire'["server"][c] = v \o x /\ Left(c)' = left - n
        <5>1. Left(c)' = left - n
          BY <1>2, <1>3, <1>5, <2>5 DEF Left
        <5> QED
          BY <2>2, <2>5, <5>1 DEF u, v, x
      <4> QED
        BY <1>5, <4>3, <4>5, <4>6
    <3>5. ASSUME NEW l \in Loops, Holds(l, c)' PROVE Fine(c, held[l])'
      <4>1. Holds(l, c) /\ held'[l] = held[l]
        BY <2>1, <3>5 DEF SameHands
      <4>2. Fine(c, held[l]) /\ held[l] \in Seq(Nat)
        BY <1>1, <2>1, <4>1 DEF Packet, ServerType
      <4> QED
        BY <1>4, <3>4, <4>1, <4>2 DEF Fine, OnWay
    <3>6. ASSUME \A l \in Loops : ~Holds(l, c)' PROVE Fine(c, <<>>)'
      <4>1. \A l \in Loops : ~Holds(l, c)
        BY <2>1, <3>6 DEF SameHands
      <4>2. Fine(c, <<>>) /\ <<>> \in Seq(Nat)
        BY <2>1, <4>1, EmptySeq DEF Packet
      <4> QED
        BY <1>4, <3>4, <4>2 DEF Fine, OnWay
    <3> QED
      BY <2>1, <3>5, <3>6 DEF Packet
  <2> QED
    BY <1>4, <2>3, <2>4, <2>5
<1>11. ClientInv'
  <2>1. ASSUME thread = "none", NEW c \in events PROVE Unsent(c)'
    <3>1. c \in Used /\ Unsent(c) /\ c # at
      BY <1>1, <1>3, <1>8, <2>1 DEF ClientInv, ClientType, Unsent
    <3>2. SameHands(c) /\ Left(c)' = 0
      BY <1>5, <1>9, <3>1, HandsSame
    <3> QED
      BY <1>2, <1>4, <1>5, <3>1, <3>2 DEF Unsent, SameHands
  <2>2. left' > 0 <=> at' # NoConn /\ thread' \in {"none", "send"}
    BY <1>2, <1>3, <1>5
  <2> QED
    BY <1>1, <1>2, <1>3, <1>4, <1>5, <2>1, <2>2 DEF ClientInv, Stamped
<1>12. PacketInv'
  BY <1>5, <1>10 DEF PacketInv
<1> QED
  BY <1>4, <1>6, <1>7, <1>11, <1>12 DEF InvBench, TypeBench

\* A whole packet of c was received: it is what recv() expects, and there is
\* nothing else on its way.
LEMMA WholePacket ==
    ASSUME program \in BenchPrograms, PipeType, ClientType, NEW c \in Conns, NEW h \in Seq(Nat),
           Fine(c, h), Left(c) = 0, Stamped(c), size <= Len(wire["client"][c])
    PROVE  /\ wire["server"][c] = <<>> /\ h = <<>> /\ Len(wire["client"][c]) = size
           /\ SubSeq(wire["client"][c], size + 1, Len(wire["client"][c])) = <<>>
           /\ program.name = "verify" =>
                /\ (rx_seq[c] + size) % SeqRange = tx_seq[c]
                /\ \A k \in 1 .. size : wire["client"][c][k] = (rx_seq[c] + k - 1) % SeqRange
           /\ program.name = "bench" => wire["client"][c][1] % size = 0
<1> DEFINE u == wire["client"][c]
           v == wire["server"][c]
           s == program.size
           t == tx_seq[c]
           r == rx_seq[c]
<1>1. /\ u \in Seq(Nat) /\ v \in Seq(Nat) /\ s \in Nat /\ s <= Len(u)
      /\ t \in 0 .. SeqRange - 1 /\ r \in 0 .. SeqRange - 1
      /\ program.name = "bench" => t % s = 0
  BY BenchArgs DEF PipeType, ClientType, Sides, Stamped, size
<1>2. InPacket(program, (u \o h) \o v, 0, t, r)
  BY DEF Fine, OnWay
<1> HIDE DEF u, v, s, t, r
<1> DEFINE w == (u \o h) \o v
<1>3. w \in Seq(Nat) /\ Len(w) \in Nat
  BY <1>1, WayLength, LenProperties
<1>4. Len(w) <= s
  <2> HIDE DEF w
  <2>1. Len(w) + 0 <= s
    BY <1>2 DEF InPacket, w, s
  <2> QED
    BY <1>3, <2>1
<1>5. Len(u) = s /\ h = <<>> /\ v = <<>> /\ w = u /\ SubSeq(u, s + 1, Len(u)) = <<>>
  BY <1>1, <1>4, WayWhole
<1>6. InPacket(program, u, 0, t, r)
  BY <1>2, <1>5
<1>7. /\ program.name = "verify" =>
           /\ (r + program.size) % SeqRange = t
           /\ \A k \in 1 .. program.size : u[k] = (r + k - 1) % SeqRange
      /\ program.name = "bench" => u[1] % program.size = 0
  <2>1. Len(u) = program.size /\ (program.name = "bench" => t % program.size = 0)
    BY <1>1, <1>5 DEF s
  <2> QED
    BY <1>1, <1>6, <2>1, PacketArrives
<1> QED
  BY <1>5, <1>7 DEF u, v, s, t, r, size

\* recv() of the client, and send() of the next packet.
LEMMA RecvStep ==
    ASSUME program \in BenchPrograms, InvBench, NEW c \in Used, Recv(c)
    PROVE  InvBench' /\ program' = program
<1>1. PipeType /\ ClientType /\ ServerType /\ ServerInv /\ PacketInv /\ ClientInv
  BY DEF InvBench, TypeBench
<1>2. /\ c \in Conns /\ Used \subseteq Conns /\ NoConn \notin Used /\ size = program.size
      /\ size \in Nat \ {0} /\ SeqRange \in Nat \ {0}
      /\ program.name = "bench" => SeqRange % size = 0
      /\ "client" \in Sides /\ "server" \in Sides
  BY BenchArgs DEF Used, size, Sides
<1> DEFINE u == wire["client"][c]
<1>3. PICK k \in Arrived("client", c, size) :
         /\ Receive("client", c, k)
         /\ Inspect(c, SubSeq(u, 1, k))
         /\ split' = IF k < size THEN split \cup {c} ELSE split
  BY DEF Recv
<1>4. /\ PipeType' /\ program' = program /\ sock' = sock
      /\ k \in 1 .. Len(u) /\ k <= size /\ u \in Seq(Nat)
      /\ wire'["client"][c] = SubSeq(u, k + 1, Len(u))
      /\ \A r \in Sides, d \in Conns : r # "client" \/ d # c => wire'[r][d] = wire[r][d]
  <2>1. size \in Nat
    BY <1>2
  <2> QED
    BY <1>1, <1>2, <1>3, <2>1, Receives
<1>5. /\ Used' = Used /\ size' = size
      /\ thread = "recv" /\ thread' = "send" /\ at = c /\ at' = c /\ left = 0 /\ left' = size
      /\ tx_seq' = [tx_seq EXCEPT ![c] = (@ + size) % SeqRange]
      /\ UNCHANGED <<phase, events, serverVars>>
  <2>1. thread = "recv" /\ left = 0
    BY <1>1, <1>2 DEF Recv, ClientInv, ClientType
  <2> QED
    BY <1>4, <2>1 DEF Recv, Fill, Used, size
<1>6. /\ SubSeq(u, 1, k) \in Seq(Nat) /\ Len(SubSeq(u, 1, k)) = k
      /\ \A j \in 1 .. k : SubSeq(u, 1, k)[j] = u[j]
  <2>1. k \in 0 .. Len(u)
    BY <1>4
  <2> HIDE DEF u
  <2> QED
    BY <1>4, <2>1, Halves
<1>7. /\ tx_seq'[c] = (tx_seq[c] + size) % SeqRange
      /\ tx_seq' \in [Conns -> 0 .. SeqRange - 1]
      /\ \A d \in Conns : d # c => tx_seq'[d] = tx_seq[d]
      /\ tx_seq[c] \in 0 .. SeqRange - 1 /\ tx_seq[c] \in Int /\ Stamped(c)
  <2>1. tx_seq[c] \in 0 .. SeqRange - 1 /\ Stamped(c)
    BY <1>1, <1>2 DEF ClientType, ClientInv
  <2>2. (tx_seq[c] + size) % SeqRange \in 0 .. SeqRange - 1
    BY <1>2, <2>1
  <2> QED
    BY <1>1, <1>2, <1>5, <2>1, <2>2 DEF ClientType
<1>8. /\ rx_seq' \in [Conns -> 0 .. SeqRange - 1]
      /\ \A d \in Conns : d # c => rx_seq'[d] = rx_seq[d]
      /\ \A d : d # c /\ d \notin alarms => d \notin alarms'
  <2>1. rx_seq[c] \in 0 .. SeqRange - 1
    BY <1>1, <1>2 DEF ClientType
  <2>2. (rx_seq[c] + size) % SeqRange \in 0 .. SeqRange - 1
    BY <1>2, <2>1
  <2>3. /\ rx_seq' = rx_seq \/ rx_seq' = [rx_seq EXCEPT ![c] = (@ + size) % SeqRange]
        /\ alarms' = alarms \/ alarms' = alarms \cup {c}
    BY <1>3 DEF Inspect, TakeStamp
  <2> QED
    BY <1>1, <1>2, <2>2, <2>3 DEF ClientType
<1>9. ClientType' /\ ServerType'
  <2>1. ClientType'
    BY <1>1, <1>2, <1>5, <1>7, <1>8 DEF ClientType
  <2>2. ServerType'
    BY <1>1, <1>4, <1>5, ServerTypeSame
  <2> QED
    BY <2>1, <2>2
<1>10. ServerInv'
  BY <1>1, <1>2, <1>4, <1>5, ServerSame
<1>11. ASSUME NEW d \in Used \ split' PROVE Packet(d)'
  <2>1. Packet(d) /\ d \in Conns /\ d \in Used \ split /\ SameHands(d) /\ (d # c => d \notin alarms')
    <3>1. d \in Used \ split
      BY <1>3, <1>11
    <3> QED
      BY <1>1, <1>2, <1>5, <1>8, <3>1, HandsSame DEF PacketInv, Packet
  <2>2. CASE d # c
    <3>1. wire'["client"][d] = wire["client"][d] /\ wire'["server"][d] = wire["server"][d]
      BY <1>2, <1>4, <2>1, <2>2
    <3>2. Left(d) \in Nat /\ Left(d)' \in Nat /\ Left(d)' <= Left(d)
      BY <1>5, <2>2 DEF Left
    <3>3. tx_seq'[d] = tx_seq[d] /\ rx_seq'[d] = rx_seq[d] /\ d \notin alarms' /\ program' = program
      BY <1>4, <1>7, <1>8, <2>1, <2>2
    <3>4. /\ wire'["client"][d] \in {wire["client"][d], <<>>}
          /\ wire'["server"][d] \in {wire["server"][d], <<>>}
      BY <3>1
    <3> QED
      BY <1>1, <2>1, <3>2, <3>3, <3>4, PacketFrame
  <2>3. CASE d = c
    <3>1. k = size /\ size <= Len(u) /\ Left(c) = 0
      BY <1>2, <1>3, <1>4, <1>5, <1>11, <2>3 DEF Left
    <3>2. ASSUME NEW h \in Seq(Nat), Fine(c, h)
          PROVE  /\ wire["server"][c] = <<>> /\ h = <<>> /\ SubSeq(u, k + 1, Len(u)) = <<>>
                 /\ program.name = "verify" =>
                      /\ (rx_seq[c] + size) % SeqRange = tx_seq[c]
                      /\ \A j \in 1 .. size : u[j] = (rx_seq[c] + j - 1) % SeqRange
                 /\ program.name = "bench" => u[1] % size = 0
      BY <1>1, <1>2, <1>7, <3>1, <3>2, WholePacket
    <3>3. /\ wire["server"][c] = <<>> /\ SubSeq(u, k + 1, Len(u)) = <<>>
          /\ program.name = "verify" =>
               /\ (rx_seq[c] + size) % SeqRange = tx_seq[c]
               /\ \A j \in 1 .. size : u[j] = (rx_seq[c] + j - 1) % SeqRange
          /\ program.name = "bench" => u[1] % size = 0
          /\ \A l \in Loops : Holds(l, c) => held[l] = <<>>
      <4>1. ASSUME NEW l \in Loops, Holds(l, c) PROVE Fine(c, held[l]) /\ held[l] \in Seq(Nat)
        BY <1>1, <2>1, <2>3, <4>1 DEF Packet, ServerType
      <4>2. \E h \in Seq(Nat) : Fine(c, h)
        <5>1. CASE \E l \in Loops : Holds(l, c)
          BY <4>1, <5>1
        <5>2. CASE \A l \in Loops : ~Holds(l, c)
          BY <2>1, <2>3, <5>2, EmptySeq DEF Packet
        <5> QED
          BY <5>1, <5>2
      <4>3. \A l \in Loops : Holds(l, c) => held[l] = <<>>
        BY <3>2, <4>1
      <4> QED
        BY <3>2, <4>2, <4>3
    <3>4. c \notin alarms' /\ (program.name = "verify" => rx_seq'[c] = tx_seq[c])
      <4>1. c \notin alarms /\ rx_seq[c] \in 0 .. SeqRange - 1 /\ k \in Nat /\ ~(k < size) /\ 1 \in 1 .. k
        BY <1>1, <1>2, <1>4, <2>1, <2>3, <3>1 DEF Packet, ClientType
      <4> DEFINE x == SubSeq(u, 1, k)
      <4>2. Inspect(c, x) /\ Len(x) = size /\ \A j \in 1 .. size : x[j] = u[j]
        BY <1>3, <1>6, <3>1
      <4> HIDE DEF x, u
      <4>3. CASE program.name = "verify"
        <5>1. \A j \in 1 .. size : x[j] = (rx_seq[c] + j - 1) % SeqRange
          BY <3>3, <4>2, <4>3
        <5>2. alarms' = alarms /\ rx_seq' = [rx_seq EXCEPT ![c] = (@ + size) % SeqRange]
          BY <1>2, <4>2, <4>3, <5>1 DEF Inspect, TakeStamp
        <5> QED
          BY <1>1, <1>2, <3>3, <4>1, <4>3, <5>2 DEF ClientType
      <4>4. CASE program.name # "verify"
        <5>0. program.name = "bench"
          BY <4>4 DEF BenchPrograms
        <5>1. x[1] % size = 0
          BY <1>2, <3>1, <3>3, <4>1, <4>2, <5>0
        <5>2. alarms' = alarms
          BY <1>2, <4>2, <4>4, <5>1 DEF Inspect, TakeStamp
        <5> QED
          BY <4>1, <4>4, <5>2
      <4> QED
        BY <4>3, <4>4
    <3>5. InPacket(program, <<>>, program.size, (tx_seq[c] + program.size) % SeqRange, rx_seq'[c])
      BY <1>7, <3>4, PacketFilled
    <3>6. OnWay(c, <<>>)' = <<>>
      <4>1. wire'["client"][c] = <<>> /\ wire'["server"][c] = <<>>
        BY <1>2, <1>4, <3>3
      <4>2. (<<>> \o <<>>) \o <<>> = <<>>
        OBVIOUS
      <4> QED
        BY <4>1, <4>2 DEF OnWay
    <3>7. Fine(c, <<>>)'
      <4>1. Left(c)' = program.size
        BY <1>2, <1>5 DEF Left
      <4> QED
        BY <1>2, <1>4, <1>7, <3>5, <3>6, <4>1 DEF Fine
    <3>8. ASSUME NEW l \in Loops, Holds(l, c)' PROVE Fine(c, held[l])'
      <4>1. held'[l] = <<>>
        BY <2>1, <2>3, <3>3, <3>8 DEF SameHands
      <4> QED
        BY <3>7, <4>1 DEF Fine, OnWay
    <3> QED
      BY <2>3, <3>4, <3>7, <3>8 DEF Packet
  <2> QED
    BY <2>2, <2>3
<1>12. PacketInv'
  BY <1>5, <1>11 DEF PacketInv
<1>13. ClientInv'
  <2>1. ASSUME program.name = "bench" PROVE tx_seq'[c] % size = 0
    <3>1. tx_seq[c] % size = 0 /\ SeqRange % size = 0
      BY <1>2, <1>7, <2>1 DEF Stamped
    <3>2. (tx_seq[c] + size) % size = 0 /\ tx_seq[c] + size \in Int
      BY <1>2, <1>7, <3>1, MultipleShift
    <3> QED
      BY <1>2, <1>7, <3>1, <3>2, MultipleRemainder
  <2>2. \A d \in Used : Stamped(d)'
    BY <1>1, <1>2, <1>4, <1>5, <1>7, <2>1 DEF ClientInv, Stamped
  <2> QED
    BY <1>1, <1>2, <1>5, <2>2 DEF ClientInv
<1> QED
  BY <1>4, <1>9, <1>10, <1>12, <1>13 DEF InvBench, TypeBench

------------------------------------------------------------------------------
(* Steps of the server.                                                    *)

LEMMA LineType ==
    ASSUME ServerType, NEW l \in Loops
    PROVE  /\ conns[l] \in Seq(Used \cup {NoConn}) /\ buf_conns[l] \in Seq(Used \cup {NoConn})
           /\ Line(l) \in Seq(Used \cup {NoConn})
           /\ Len(conns[l]) \in Nat /\ Len(buf_conns[l]) \in Nat
           /\ Len(Line(l)) = Len(conns[l]) + Len(buf_conns[l])
           /\ \A j \in 1 .. Len(Line(l)) :
                Line(l)[j] = IF j <= Len(conns[l]) THEN conns[l][j] ELSE buf_conns[l][j - Len(conns[l])]
           /\ \A j \in 1 .. Len(conns[l]) : j \in 1 .. Len(Line(l)) /\ Line(l)[j] = conns[l][j]
<1> DEFINE S == Used \cup {NoConn}
           a == conns[l]
           b == buf_conns[l]
<1>1. a \in Seq(S) /\ b \in Seq(S)
  BY DEF ServerType
<1> HIDE DEF S, a, b
<1>2. Len(a) \in Nat /\ Len(b) \in Nat
  BY <1>1, LenProperties
<1>3. /\ a \o b \in Seq(S) /\ Len(a \o b) = Len(a) + Len(b)
      /\ \A j \in 1 .. Len(a) + Len(b) : (a \o b)[j] = IF j <= Len(a) THEN a[j] ELSE b[j - Len(a)]
  BY <1>1, ConcatProperties
<1>4. \A j \in 1 .. Len(a) : j \in 1 .. Len(a \o b) /\ (a \o b)[j] = a[j]
  BY <1>2, <1>3
<1> QED
  BY <1>1, <1>2, <1>3, <1>4 DEF Line, S, a, b

\* The server's threads leave the client's state alone.
LEMMA ClientTypeSame ==
    ASSUME ClientType, UNCHANGED <<program, clientVars>>
    PROVE  ClientType'
BY DEF ClientType, clientVars, Used, size

LEMMA ClientInvSame ==
    ASSUME ClientInv, ClientType, UNCHANGED <<program, clientVars>>,
           \A c \in Used : Unsent(c) => Unsent(c)'
    PROVE  ClientInv'
<1>1. Used' = Used /\ size' = size
  BY DEF Used, size
<1>2. thread' = "none" => \A c \in events' : Unsent(c)'
  BY DEF ClientInv, ClientType, clientVars
<1> QED
  BY <1>1, <1>2 DEF ClientInv, Stamped, clientVars

\* Steps that neither receive nor send.
LEMMA ServerQuiet ==
    ASSUME program \in BenchPrograms, InvBench, UNCHANGED <<pipeVars, clientVars>>,
           \A c \in Used : SameHands(c)
    PROVE  PipeType' /\ ClientType' /\ PacketInv' /\ ClientInv'
<1>1. PipeType /\ ClientType /\ ServerType /\ PacketInv /\ ClientInv
  BY DEF InvBench, TypeBench
<1>2. /\ program' = program /\ sock' = sock /\ wire' = wire /\ Used' = Used /\ Used \subseteq Conns
      /\ UNCHANGED <<at, left, tx_seq, rx_seq, alarms, split>>
  BY BenchArgs DEF pipeVars, clientVars, Used
<1>3. ASSUME NEW c \in Used PROVE Left(c)' = Left(c)
  BY <1>2 DEF Left
<1>4. PacketInv'
  <2>1. SUFFICES ASSUME NEW c \in Used \ split PROVE Packet(c)'
    BY <1>2 DEF PacketInv
  <2>2. Packet(c) /\ c \in Conns
    BY <1>1, <1>2 DEF PacketInv
  <2>3. Left(c) \in Nat /\ Left(c)' = Left(c)
    BY <1>1, <1>3, LeftNat
  <2>4. c \notin alarms'
    BY <1>2, <2>2 DEF Packet
  <2> QED
    BY <1>1, <1>2, <2>2, <2>3, <2>4, PacketFrame
<1>5. \A c \in Used : Unsent(c) => Unsent(c)'
  BY <1>2, <1>3, SameUnsent
<1> QED
  BY <1>1, <1>2, <1>4, <1>5, ClientTypeSame, ClientInvSame DEF PipeType

LEMMA AcceptStep ==
    ASSUME program \in BenchPrograms, InvBench, NEW c \in Used, Accept(c)
    PROVE  InvBench' /\ program' = program
<1>1. PipeType /\ ClientType /\ ServerType /\ ServerInv
  BY DEF InvBench, TypeBench
<1>2. /\ program' = program /\ sock' = sock /\ Used' = Used
      /\ c \in backlog /\ accepted = NoConn /\ backlog' = backlog \ {c} /\ accepted' = c
      /\ UNCHANGED <<pipeVars, clientVars, buf_conns, conns, loop, batch, cur, held>>
  BY DEF Accept, pipeVars, Used
<1>3. c \in Conns /\ Used \subseteq Conns /\ NoConn \notin Conns
  BY BenchArgs, BenchAssumption DEF Used
<1>4. ServerType'
  BY <1>1, <1>2 DEF ServerType
<1>5. \A d \in Used : SameHands(d)
  BY <1>2 DEF SameHands, Holds
<1>6. \A l \in Loops : Line(l)' = Line(l)
  BY <1>2 DEF Line
<1>7. \A d : InLine(d)' <=> InLine(d)
  BY <1>6 DEF InLine
<1>8. LinesInv'
  BY <1>1, <1>6 DEF ServerInv, LinesInv
<1>9. SocketInv'
  <2>1. ~InLine(c)
    BY <1>1, <1>2 DEF ServerInv, SocketInv
  <2>2. \A d \in backlog' : d # accepted' /\ ~InLine(d)'
    BY <1>1, <1>2, <1>7 DEF ServerInv, SocketInv
  <2>3. ~InLine(accepted)'
    <3>1. ~InLine(c)'
      BY <1>7, <2>1
    <3> QED
      BY <1>2, <3>1 DEF InLine
  <2>4. \A d \in Used : sock'["server"][d] = "open" <=> d \in backlog' \/ d = accepted' \/ InLine(d)'
    BY <1>1, <1>2, <1>3, <1>7 DEF ServerInv, SocketInv
  <2>5. \A d \in Conns : sock'["client"][d] = "none" => sock'["server"][d] = "none"
    BY <1>1, <1>2 DEF ServerInv, SocketInv
  <2> QED
    BY <1>2, <2>2, <2>3, <2>4, <2>5 DEF SocketInv
<1>10. IndexInv'
  BY <1>1, <1>2 DEF ServerInv, IndexInv, Live
<1> QED
  BY <1>2, <1>4, <1>5, <1>8, <1>9, <1>10, ServerQuiet DEF InvBench, TypeBench, ServerInv

\* The line of loop m grows by a connection that is in no line, or by one on
\* the descriptor -1.
LEMMA LineGrows ==
    ASSUME ServerType, NEW m \in Loops, NEW c \in Used \cup {NoConn}, conns' = conns,
           buf_conns' = [buf_conns EXCEPT ![m] = Append(@, c)]
    PROVE  /\ buf_conns' \in [Loops -> Seq(Used \cup {NoConn})]
           /\ Len(Line(m)) \in Nat /\ Len(Line(m)') = Len(Line(m)) + 1
           /\ \A j \in 1 .. Len(Line(m)) + 1 :
                 Line(m)'[j] = IF j <= Len(Line(m)) THEN Line(m)[j] ELSE c
           /\ \A l \in Loops : l # m => Line(l)' = Line(l)
<1> DEFINE L == Len(Line(m))
<1>1. buf_conns' \in [Loops -> Seq(Used \cup {NoConn})]
  <2> DEFINE b == buf_conns[m]
             S == Used \cup {NoConn}
  <2>1. b \in Seq(S) /\ c \in S
    BY DEF ServerType
  <2>2. Append(b, c) \in Seq(S)
    <3> HIDE DEF b, S
    <3> QED
      BY <2>1, AppendProperties
  <2> QED
    BY <2>2 DEF ServerType
<1>2. L \in Nat
  BY LineType
<1>3. /\ Len(Line(m)') = L + 1
      /\ \A j \in 1 .. L + 1 : Line(m)'[j] = IF j <= L THEN Line(m)[j] ELSE c
  <2> DEFINE a == conns[m]
             b == buf_conns[m]
             S == Used \cup {NoConn}
  <2>1. a \in Seq(S) /\ b \in Seq(S) /\ c \in S /\ Line(m) = a \o b /\ Line(m)' = a \o Append(b, c)
    BY LineType DEF Line, ServerType
  <2> HIDE DEF a, b, S, L
  <2>2. Append(b, c) = b \o <<c>> /\ <<c>> \in Seq(S)
    BY <2>1, AppendIsConcat
  <2>3. a \o (b \o <<c>>) = (a \o b) \o <<c>>
    <3>1. \A x, y, z \in Seq(S) : (x \o y) \o z = x \o (y \o z)
      BY ConcatAssociative
    <3> QED
      BY <2>1, <2>2, <3>1
  <2>4. a \o b \in Seq(S)
    BY <2>1, ConcatProperties
  <2>5. (a \o b) \o <<c>> = Append(a \o b, c)
    BY <2>1, <2>4, AppendIsConcat
  <2>6. Line(m)' = Append(Line(m), c) /\ Line(m) \in Seq(S)
    BY <2>1, <2>2, <2>3, <2>4, <2>5
  <2>7. /\ Len(Append(Line(m), c)) = Len(Line(m)) + 1
        /\ \A j \in 1 .. Len(Line(m)) + 1 :
              Append(Line(m), c)[j] = IF j <= Len(Line(m)) THEN Line(m)[j] ELSE c
    BY <2>1, <2>6, AppendProperties
  <2> QED
    BY <2>6, <2>7 DEF L
<1>4. \A l \in Loops : l # m => Line(l)' = Line(l)
  BY DEF Line, ServerType
<1> QED
  BY <1>1, <1>2, <1>3, <1>4

\* It is in the line then, and whatever else was.
LEMMA InGrownLine ==
    ASSUME ServerType, NEW m \in Loops, NEW c \in Used \cup {NoConn}, conns' = conns,
           buf_conns' = [buf_conns EXCEPT ![m] = Append(@, c)], NEW d
    PROVE  InLine(d)' <=> InLine(d) \/ d = c
<1> DEFINE L == Len(Line(m))
<1>1. L \in Nat
  BY LineGrows
<1>2. /\ Len(Line(m)') = L + 1
      /\ \A j \in 1 .. L + 1 : Line(m)'[j] = IF j <= L THEN Line(m)[j] ELSE c
  BY LineGrows
<1>3. \A l \in Loops : l # m => Line(l)' = Line(l)
  BY LineGrows
<1> HIDE DEF L
<1>4. ASSUME InLine(d)' PROVE InLine(d) \/ d = c
  <2>1. PICK l \in Loops : \E j \in 1 .. Len(Line(l)') : Line(l)'[j] = d
    BY <1>4 DEF InLine
  <2>2. CASE l = m
    <3>1. PICK j \in 1 .. L + 1 : Line(m)'[j] = d
      BY <1>2, <2>1, <2>2
    <3>2. CASE j <= L
      <4>1. j \in 1 .. L /\ Line(m)[j] = d
        BY <1>1, <1>2, <3>1, <3>2
      <4> QED
        BY <4>1 DEF InLine, L
    <3>3. CASE ~(j <= L)
      BY <1>2, <3>1, <3>3
    <3> QED
      BY <3>2, <3>3
  <2>3. CASE l # m
    BY <1>3, <2>1, <2>3 DEF InLine
  <2> QED
    BY <2>2, <2>3
<1>5. ASSUME InLine(d) \/ d = c PROVE InLine(d)'
  <2>1. CASE d = c
    <3>1. L + 1 \in 1 .. L + 1 /\ Line(m)'[L + 1] = c
      BY <1>1, <1>2
    <3>2. L + 1 \in 1 .. Len(Line(m)')
      BY <1>2, <3>1
    <3> QED
      BY <2>1, <3>1, <3>2 DEF InLine
  <2>2. CASE InLine(d)
    <3>1. PICK l \in Loops : \E j \in 1 .. Len(Line(l)) : Line(l)[j] = d
      BY <2>2 DEF InLine
    <3>2. CASE l = m
      <4>1. PICK j \in 1 .. L : Line(m)[j] = d
        BY <3>1, <3>2 DEF L
      <4>2. j \in 1 .. Len(Line(m)') /\ Line(m)'[j] = d
        BY <1>1, <1>2, <4>1
      <4> QED
        BY <4>2 DEF InLine
    <3>3. CASE l # m
      BY <1>3, <3>1, <3>3 DEF InLine
    <3> QED
      BY <3>2, <3>3
  <2> QED
    BY <1>5, <2>1, <2>2
<1> QED
  BY <1>4, <1>5

\* No connection is in the lines twice then.
LEMMA GrownLines ==
    ASSUME ServerType, ServerInv, NEW m \in Loops, NEW c \in Used \cup {NoConn}, conns' = conns,
           buf_conns' = [buf_conns EXCEPT ![m] = Append(@, c)],
           c = NoConn \/ ~InLine(c)
    PROVE  LinesInv'
<1> DEFINE L == Len(Line(m))
<1>1. L \in Nat
  BY LineGrows
<1>2. /\ Len(Line(m)') = L + 1
      /\ \A j \in 1 .. L + 1 : Line(m)'[j] = IF j <= L THEN Line(m)[j] ELSE c
  BY LineGrows
<1>3. \A l \in Loops : l # m => Line(l)' = Line(l)
  BY LineGrows
<1> HIDE DEF L
<1>4. LinesInv
  BY DEF ServerInv
<1>5. SUFFICES ASSUME NEW l \in Loops, NEW n \in Loops,
                      NEW j \in 1 .. Len(Line(l)'), NEW k \in 1 .. Len(Line(n)'),
                      Line(l)'[j] = Line(n)'[k], Line(l)'[j] # NoConn
               PROVE  l = n /\ j = k
  BY DEF LinesInv
<1>6. ASSUME NEW p \in Loops, NEW i1 \in 1 .. Len(Line(p)')
      PROVE  \/ p = m /\ i1 = L + 1 /\ Line(p)'[i1] = c
             \/ i1 \in 1 .. Len(Line(p)) /\ Line(p)'[i1] = Line(p)[i1] /\ (c = NoConn \/ Line(p)[i1] # c)
  <2>1. CASE p = m /\ i1 <= L
    <3>1. i1 \in 1 .. L /\ Line(p)'[i1] = Line(p)[i1]
      BY <1>1, <1>2, <1>6, <2>1
    <3> QED
      BY <2>1, <3>1 DEF InLine, L
  <2>2. CASE p = m /\ ~(i1 <= L)
    <3>1. i1 = L + 1
      BY <1>1, <1>2, <1>6, <2>2
    <3> QED
      BY <1>1, <1>2, <1>6, <2>2, <3>1
  <2>3. CASE p # m
    <3>1. i1 \in 1 .. Len(Line(p)) /\ Line(p)'[i1] = Line(p)[i1]
      BY <1>3, <1>6, <2>3
    <3> QED
      BY <3>1 DEF InLine
  <2> QED
    BY <2>1, <2>2, <2>3
<1>7. \/ l = m /\ j = L + 1 /\ Line(l)'[j] = c
      \/ j \in 1 .. Len(Line(l)) /\ Line(l)'[j] = Line(l)[j] /\ (c = NoConn \/ Line(l)[j] # c)
  BY <1>6
<1>8. \/ n = m /\ k = L + 1 /\ Line(n)'[k] = c
      \/ k \in 1 .. Len(Line(n)) /\ Line(n)'[k] = Line(n)[k] /\ (c = NoConn \/ Line(n)[k] # c)
  BY <1>6
<1>9. CASE l = m /\ j = L + 1 /\ Line(l)'[j] = c
  BY <1>5, <1>8, <1>9
<1>10. CASE j \in 1 .. Len(Line(l)) /\ Line(l)'[j] = Line(l)[j] /\ (c = NoConn \/ Line(l)[j] # c)
  <2>1. k \in 1 .. Len(Line(n)) /\ Line(n)'[k] = Line(n)[k]
    BY <1>5, <1>8, <1>10
  <2>2. Line(l)[j] = Line(n)[k] /\ Line(l)[j] # NoConn
    BY <1>5, <1>10, <2>1
  <2>3. j \in 1 .. Len(Line(l))
    BY <1>10
  <2>4. \A q \in 1 .. Len(Line(l)), r \in 1 .. Len(Line(n)) :
           Line(l)[q] = Line(n)[r] /\ Line(l)[q] # NoConn => l = n /\ q = r
    BY <1>4, Zenon DEF LinesInv
  <2> QED
    BY <2>1, <2>2, <2>3, <2>4, Zenon
<1> QED
  BY <1>7, <1>9, <1>10

\* accept4 has failed: nothing is known of the connection that loop m is given.
LEMMA AcceptFailsStep ==
    ASSUME program \in BenchPrograms, InvBench, NEW m \in program.loops, AcceptFails(m)
    PROVE  InvBench' /\ program' = program
<1>1. PipeType /\ ClientType /\ ServerType /\ ServerInv
  BY DEF InvBench, TypeBench
<1>2. /\ program' = program /\ sock' = sock /\ Used' = Used
      /\ buf_conns' = [buf_conns EXCEPT ![m] = Append(@, NoConn)]
      /\ UNCHANGED <<pipeVars, clientVars, backlog, accepted, conns, loop, batch, cur, held>>
  BY DEF AcceptFails, pipeVars, Used
<1>3. NoConn \notin Used /\ m \in Loops
  BY BenchArgs, BenchAssumption DEF Used
<1>4. /\ buf_conns' \in [Loops -> Seq(Used \cup {NoConn})]
      /\ LinesInv'
      /\ \A d : InLine(d)' <=> InLine(d) \/ d = NoConn
  <2>1. NoConn \in Used \cup {NoConn} /\ conns' = conns
    BY <1>2
  <2>2. buf_conns' = [buf_conns EXCEPT ![m] = Append(@, NoConn)]
    BY <1>2
  <2>3. ASSUME NEW d PROVE InLine(d)' <=> InLine(d) \/ d = NoConn
    BY <1>1, <1>3, <2>1, <2>2, InGrownLine
  <2> QED
    BY <1>1, <1>3, <2>1, <2>2, <2>3, LineGrows, GrownLines
<1>5. ServerType'
  BY <1>1, <1>2, <1>4 DEF ServerType
<1>6. \A d \in Used : SameHands(d)
  BY <1>2 DEF SameHands, Holds
<1>7. SocketInv'
  <2>1. \A d \in backlog' : d # accepted' /\ ~InLine(d)'
    BY <1>1, <1>2, <1>3, <1>4 DEF ServerInv, SocketInv, ServerType
  <2>2. accepted' # NoConn => ~InLine(accepted)'
    <3>1. accepted # NoConn => ~\E l \in Loops : \E j \in 1 .. Len(Line(l)') : Line(l)'[j] = accepted
      BY <1>1, <1>4 DEF ServerInv, SocketInv, InLine
    <3> QED
      BY <1>2, <3>1 DEF InLine
  <2>3. \A d \in Used : sock'["server"][d] = "open" <=> d \in backlog' \/ d = accepted' \/ InLine(d)'
    BY <1>1, <1>2, <1>3, <1>4 DEF ServerInv, SocketInv
  <2>4. \A d \in Conns : sock'["client"][d] = "none" => sock'["server"][d] = "none"
    BY <1>1, <1>2 DEF ServerInv, SocketInv
  <2> QED
    BY <1>2, <2>1, <2>2, <2>3, <2>4 DEF SocketInv
<1>8. IndexInv'
  BY <1>1, <1>2 DEF ServerInv, IndexInv, Live
<1> QED
  BY <1>2, <1>4, <1>5, <1>6, <1>7, <1>8, ServerQuiet DEF InvBench, TypeBench, ServerInv

\* The connection at hand is put to the end of the line of loop m.
LEMMA AddStep ==
    ASSUME program \in BenchPrograms, InvBench, NEW m \in program.loops, add_conn(m)
    PROVE  InvBench' /\ program' = program
<1>1. PipeType /\ ClientType /\ ServerType /\ ServerInv
  BY DEF InvBench, TypeBench
<1>2. PICK c : c = accepted
  OBVIOUS
<1>3. /\ program' = program /\ sock' = sock /\ Used' = Used
      /\ c # NoConn /\ accepted' = NoConn
      /\ buf_conns' = [buf_conns EXCEPT ![m] = Append(@, c)]
      /\ UNCHANGED <<pipeVars, clientVars, backlog, conns, loop, batch, cur, held>>
  BY <1>2 DEF add_conn, pipeVars, Used
<1>4. Used \subseteq Conns /\ NoConn \notin Conns /\ m \in Loops /\ c \in Used
  BY <1>1, <1>2, <1>3, BenchArgs, BenchAssumption DEF Used, ServerType
<1>5. c \notin backlog /\ ~InLine(c)
  <2>1. accepted # NoConn => \A l \in Loops : \A j \in 1 .. Len(Line(l)) : Line(l)[j] # accepted
    BY <1>1 DEF ServerInv, SocketInv, InLine
  <2>2. c \notin backlog
    BY <1>1, <1>2 DEF ServerInv, SocketInv
  <2> QED
    BY <1>2, <1>3, <2>1, <2>2 DEF InLine
<1>6. /\ buf_conns' \in [Loops -> Seq(Used \cup {NoConn})]
      /\ LinesInv'
      /\ \A d : InLine(d)' <=> InLine(d) \/ d = c
  <2>1. c \in Used \cup {NoConn} /\ conns' = conns
    BY <1>3, <1>4
  <2>2. buf_conns' = [buf_conns EXCEPT ![m] = Append(@, c)]
    BY <1>3
  <2>3. ASSUME NEW d PROVE InLine(d)' <=> InLine(d) \/ d = c
    BY <1>1, <1>4, <2>1, <2>2, InGrownLine
  <2> QED
    BY <1>1, <1>4, <1>5, <2>1, <2>2, <2>3, LineGrows, GrownLines
<1>7. ServerType'
  BY <1>1, <1>3, <1>6 DEF ServerType
<1>8. \A d \in Used : SameHands(d)
  BY <1>3 DEF SameHands, Holds
<1>9. SocketInv'
  <2>1. \A d \in backlog' : d # accepted' /\ ~InLine(d)'
    BY <1>1, <1>3, <1>4, <1>5, <1>6 DEF ServerInv, SocketInv, ServerType
  <2>2. \A d \in Used : sock'["server"][d] = "open" <=> d \in backlog' \/ d = accepted' \/ InLine(d)'
    BY <1>1, <1>2, <1>3, <1>4, <1>6 DEF ServerInv, SocketInv
  <2>3. \A d \in Conns : sock'["client"][d] = "none" => sock'["server"][d] = "none"
    BY <1>1, <1>3 DEF ServerInv, SocketInv
  <2> QED
    BY <1>3, <2>1, <2>2, <2>3 DEF SocketInv
<1>10. IndexInv'
  BY <1>1, <1>3 DEF ServerInv, IndexInv, Live
<1> QED
  BY <1>3, <1>6, <1>7, <1>8, <1>9, <1>10, ServerQuiet DEF InvBench, TypeBench, ServerInv

LEMMA DumpStep ==
    ASSUME program \in BenchPrograms, InvBench, NEW m \in program.loops, dump_conn(m)
    PROVE  InvBench' /\ program' = program
<1>1. PipeType /\ ClientType /\ ServerType /\ ServerInv
  BY DEF InvBench, TypeBench
<1>2. /\ program' = program /\ sock' = sock /\ Used' = Used /\ m \in Loops
      /\ loop[m] = "dump" /\ loop' = [loop EXCEPT ![m] = "wait"]
      /\ conns' = [conns EXCEPT ![m] = Line(m)]
      /\ buf_conns' = [buf_conns EXCEPT ![m] = <<>>]
      /\ UNCHANGED <<pipeVars, clientVars, backlog, accepted, batch, cur, held>>
  BY BenchArgs DEF dump_conn, pipeVars, Used, Line
<1>3. /\ Line(m) \in Seq(Used \cup {NoConn}) /\ <<>> \in Seq(Used \cup {NoConn})
      /\ \A j \in 1 .. Len(conns[m]) : j \in 1 .. Len(Line(m)) /\ Line(m)[j] = conns[m][j]
  <2>1. <<>> \in Seq(Used \cup {NoConn})
    BY EmptySeq
  <2> QED
    BY <1>1, <1>2, <2>1, LineType
<1>4. ServerType'
  BY <1>1, <1>2, <1>3 DEF ServerType
<1>5. conns'[m] = Line(m) /\ buf_conns'[m] = <<>> /\ loop'[m] = "wait"
      /\ \A l \in Loops : l # m => /\ conns'[l] = conns[l] /\ buf_conns'[l] = buf_conns[l]
                                   /\ loop'[l] = loop[l]
  BY <1>1, <1>2 DEF ServerType
<1>6. \A d \in Used : SameHands(d)
  BY <1>2, <1>5 DEF SameHands, Holds
<1>7. \A l \in Loops : Line(l)' = Line(l)
  <2>1. Line(m)' = Line(m)
    <3>1. Line(m) \o <<>> = Line(m)
      BY <1>3, ConcatEmptySeq
    <3> QED
      BY <1>5, <3>1 DEF Line
  <2>2. ASSUME NEW l \in Loops, l # m PROVE Line(l)' = Line(l)
    BY <1>5, <2>2 DEF Line
  <2> QED
    BY <2>1, <2>2
<1>8. \A d : InLine(d)' <=> InLine(d)
  BY <1>7 DEF InLine
<1>9. LinesInv'
  BY <1>1, <1>7 DEF ServerInv, LinesInv
<1>10. SocketInv'
  <2>1. accepted' # NoConn => ~InLine(accepted)'
    BY <1>1, <1>2, <1>7 DEF ServerInv, SocketInv, InLine
  <2> QED
    BY <1>1, <1>2, <1>8, <2>1 DEF ServerInv, SocketInv
<1>11. IndexInv'
  <2>1. ASSUME NEW l \in Loops, NEW n, Live(l, n)
        PROVE  n \in 1 .. Len(conns'[l]) /\ conns'[l][n] # NoConn
    <3>1. CASE l = m
      <4>1. n \in 1 .. Len(conns[m]) /\ conns[m][n] # NoConn
        BY <2>1, <3>1 DEF Live
      <4>2. n \in 1 .. Len(Line(m)) /\ Line(m)[n] # NoConn
        BY <1>3, <4>1
      <4> QED
        BY <1>5, <3>1, <4>2 DEF Live
    <3>2. CASE l # m
      BY <1>5, <2>1, <3>2 DEF Live
    <3> QED
      BY <3>1, <3>2
  <2>2. ASSUME NEW l \in Loops
        PROVE  /\ \A n \in batch'[l] : n \in 1 .. Len(conns'[l]) /\ conns'[l][n] # NoConn
               /\ loop'[l] \in {"recv", "send"} =>
                     /\ cur[l] \in 1 .. Len(conns'[l]) /\ conns'[l][cur[l]] # NoConn
                     /\ cur[l] \notin batch'[l]
    <3>1. /\ \A n \in batch[l] : Live(l, n)
          /\ loop[l] \in {"recv", "send"} => Live(l, cur[l]) /\ cur[l] \notin batch[l]
      BY <1>1 DEF ServerInv, IndexInv
    <3>2. loop'[l] \in {"recv", "send"} => loop[l] \in {"recv", "send"}
      BY <1>5
    <3>3. \A n : Live(l, n) => n \in 1 .. Len(conns'[l]) /\ conns'[l][n] # NoConn
      BY <2>1
    <3> QED
      BY <1>2, <3>1, <3>2, <3>3
  <2> QED
    BY <1>2, <2>2 DEF IndexInv, Live
<1> QED
  BY <1>2, <1>4, <1>6, <1>9, <1>10, <1>11, ServerQuiet DEF InvBench, TypeBench, ServerInv

\* Steps that leave the lines and the acceptor alone.
LEMMA SameLines ==
    ASSUME ServerInv, UNCHANGED <<program, sock, backlog, accepted, buf_conns, conns>>
    PROVE  LinesInv' /\ SocketInv'
<1>1. Used' = Used /\ \A l \in Loops : Line(l)' = Line(l)
  BY DEF Line, Used
<1>2. \A d : InLine(d)' <=> InLine(d)
  BY <1>1 DEF InLine
<1>3. accepted' # NoConn => ~InLine(accepted)'
  BY <1>1 DEF ServerInv, SocketInv, InLine
<1> QED
  BY <1>1, <1>2, <1>3 DEF ServerInv, LinesInv, SocketInv

LEMMA ServerWaitStep ==
    ASSUME program \in BenchPrograms, InvBench, NEW m \in program.loops, ServerWait(m)
    PROVE  InvBench' /\ program' = program
<1>1. PipeType /\ ClientType /\ ServerType /\ ServerInv
  BY DEF InvBench, TypeBench
<1> DEFINE B == {n \in 1 .. Len(conns[m]) : conns[m][n] # NoConn /\ Readable("server", conns[m][n])}
<1>2. /\ program' = program /\ sock' = sock /\ Used' = Used /\ m \in Loops
      /\ loop[m] = "wait"
      /\ batch' = [batch EXCEPT ![m] = B]
      /\ loop' = [loop EXCEPT ![m] = IF batch'[m] = {} THEN "dump" ELSE "pick"]
      /\ UNCHANGED <<pipeVars, clientVars, backlog, accepted, buf_conns, conns, cur, held>>
  BY BenchArgs DEF ServerWait, pipeVars, Used
<1>3. B \in SUBSET Nat /\ \A n \in B : Live(m, n)
  <2>1. Len(conns[m]) \in Nat
    BY <1>1, <1>2, LineType
  <2> QED
    BY <2>1 DEF Live
<1> HIDE DEF B
<1>4. /\ batch'[m] = B /\ loop'[m] \in {"dump", "pick"}
      /\ \A l \in Loops : l # m => batch'[l] = batch[l] /\ loop'[l] = loop[l]
      /\ loop' \in [Loops -> {"dump", "wait", "pick", "recv", "send"}]
  BY <1>1, <1>2 DEF ServerType
<1>5. ServerType'
  BY <1>1, <1>2, <1>3, <1>4 DEF ServerType
<1>6. \A d \in Used : SameHands(d)
  BY <1>2, <1>4 DEF SameHands, Holds
<1>7. IndexInv'
  <2>1. ASSUME NEW l \in Loops
        PROVE  /\ \A n \in batch'[l] : Live(l, n)
               /\ loop'[l] \in {"recv", "send"} => Live(l, cur[l]) /\ cur[l] \notin batch'[l]
    <3>1. CASE l = m
      BY <1>3, <1>4, <3>1
    <3>2. CASE l # m
      BY <1>1, <1>4, <3>2 DEF ServerInv, IndexInv
    <3> QED
      BY <3>1, <3>2
  <2> QED
    BY <1>2, <2>1 DEF IndexInv, Live
<1> QED
  BY <1>1, <1>2, <1>5, <1>6, <1>7, SameLines, ServerQuiet DEF InvBench, TypeBench, ServerInv

LEMMA PickStep ==
    ASSUME program \in BenchPrograms, InvBench, NEW m \in program.loops, Pick(m)
    PROVE  InvBench' /\ program' = program
<1>1. PipeType /\ ClientType /\ ServerType /\ ServerInv
  BY DEF InvBench, TypeBench
<1>2. PICK n \in batch[m] :
         /\ cur' = [cur EXCEPT ![m] = n]
         /\ batch' = [batch EXCEPT ![m] = @ \ {n}]
  BY DEF Pick
<1>3. /\ program' = program /\ sock' = sock /\ Used' = Used /\ m \in Loops
      /\ loop[m] = "pick" /\ loop' = [loop EXCEPT ![m] = "recv"]
      /\ UNCHANGED <<pipeVars, clientVars, backlog, accepted, buf_conns, conns, held>>
  BY BenchArgs DEF Pick, pipeVars, Used
<1>4. /\ n \in Nat /\ batch[m] \in SUBSET Nat
      /\ cur'[m] = n /\ batch'[m] = batch[m] \ {n} /\ loop'[m] = "recv"
      /\ \A l \in Loops : l # m => /\ batch'[l] = batch[l] /\ loop'[l] = loop[l]
                                   /\ cur'[l] = cur[l]
  BY <1>1, <1>2, <1>3 DEF ServerType
<1>5. ServerType'
  BY <1>1, <1>2, <1>3, <1>4 DEF ServerType
<1>6. \A d \in Used : SameHands(d)
  BY <1>3, <1>4 DEF SameHands, Holds
<1>7. IndexInv'
  <2>1. ASSUME NEW l \in Loops
        PROVE  /\ \A k \in batch'[l] : Live(l, k)
               /\ loop'[l] \in {"recv", "send"} => Live(l, cur'[l]) /\ cur'[l] \notin batch'[l]
    <3>1. CASE l = m
      <4>1. \A k \in batch[m] : Live(m, k)
        BY <1>1, <1>3 DEF ServerInv, IndexInv
      <4> QED
        BY <1>2, <1>4, <3>1, <4>1
    <3>2. CASE l # m
      BY <1>1, <1>4, <3>2 DEF ServerInv, IndexInv
    <3> QED
      BY <3>1, <3>2
  <2> QED
    BY <1>3, <2>1 DEF IndexInv, Live
<1> QED
  BY <1>1, <1>3, <1>5, <1>6, <1>7, SameLines, ServerQuiet DEF InvBench, TypeBench, ServerInv

\* One loop at most handles a connection.
LEMMA Sole ==
    ASSUME ServerType, LinesInv, IndexInv, NEW l \in Loops, NEW m \in Loops,
           loop[l] \in {"recv", "send"}, loop[m] \in {"recv", "send"},
           conns[l][cur[l]] = conns[m][cur[m]]
    PROVE  l = m
<1>1. /\ cur[l] \in 1 .. Len(conns[l]) /\ conns[l][cur[l]] # NoConn
      /\ cur[m] \in 1 .. Len(conns[m])
  BY DEF IndexInv, Live
<1>2. cur[l] \in 1 .. Len(Line(l)) /\ Line(l)[cur[l]] = conns[l][cur[l]]
  BY <1>1, LineType
<1>3. cur[m] \in 1 .. Len(Line(m)) /\ Line(m)[cur[m]] = conns[m][cur[m]]
  BY <1>1, LineType
<1>4. Line(l)[cur[l]] = Line(m)[cur[m]] /\ Line(l)[cur[l]] # NoConn
  BY <1>1, <1>2, <1>3
<1> QED
  BY <1>2, <1>3, <1>4, Zenon DEF LinesInv

\* The connection that loop m handles is open, and nobody else's.
LEMMA AtHand ==
    ASSUME program \in BenchPrograms, ServerType, ServerInv, NEW m \in Loops,
           loop[m] \in {"recv", "send"}
    PROVE  LET c == conns[m][cur[m]]
           IN  /\ c \in Used /\ c \in Conns /\ c # NoConn /\ cur[m] \in 1 .. Len(conns[m])
               /\ sock["server"][c] = "open" /\ c \notin backlog /\ c # accepted
               /\ \A l \in Loops : l # m => ~Holds(l, c)
<1> DEFINE c == conns[m][cur[m]]
<1>1. cur[m] \in 1 .. Len(conns[m]) /\ c # NoConn
  BY DEF ServerInv, IndexInv, Live
<1>2. conns[m] \in Seq(Used \cup {NoConn}) /\ Used \subseteq Conns
  BY BenchArgs DEF ServerType, Used
<1>3. c \in Used
  <2> DEFINE S == Used \cup {NoConn}
  <2>1. c \in S
    <3> HIDE DEF S
    <3> QED
      BY <1>1, <1>2, ElementOfSeq DEF S
  <2> QED
    BY <1>1, <2>1
<1>4. cur[m] \in 1 .. Len(Line(m)) /\ Line(m)[cur[m]] = c
  BY <1>1, LineType
<1>5. InLine(c)
  BY <1>4 DEF InLine
<1>6. sock["server"][c] = "open" /\ c \notin backlog /\ c # accepted
  BY <1>1, <1>3, <1>5 DEF ServerInv, SocketInv
<1>7. \A l \in Loops : l # m => ~Holds(l, c)
  BY Sole DEF ServerInv, Holds
<1> QED
  BY <1>1, <1>2, <1>3, <1>6, <1>7

\* A handler returns and leaves the connections alone.
LEMMA HandledIndex ==
    ASSUME ServerType, ServerInv, NEW m \in Loops, Handled(m),
           NEW j \in Nat, loop[m] \in {"recv", "send"}, j = cur[m],
           \A l \in Loops : Len(conns'[l]) = Len(conns[l]),
           \A l \in Loops : \A n \in 1 .. Len(conns[l]) :
                ~(l = m /\ n = j) => conns'[l][n] = conns[l][n]
    PROVE  /\ IndexInv'
           /\ loop'[m] \in {"dump", "pick"} /\ held'[m] = <<>>
           /\ \A l \in Loops : l # m => loop'[l] = loop[l] /\ held'[l] = held[l] /\ cur'[l] = cur[l]
           /\ loop' \in [Loops -> {"dump", "wait", "pick", "recv", "send"}]
           /\ batch' = batch /\ cur' \in [Loops -> Nat] /\ held' \in [Loops -> Seq(Nat)]
<1>1. /\ loop' = [loop EXCEPT ![m] = IF batch[m] = {} THEN "dump" ELSE "pick"]
      /\ held' = [held EXCEPT ![m] = <<>>] /\ cur' = [cur EXCEPT ![m] = 0] /\ batch' = batch
      /\ <<>> \in Seq(Nat)
  BY EmptySeq DEF Handled
<1>2. /\ loop'[m] \in {"dump", "pick"} /\ held'[m] = <<>>
      /\ \A l \in Loops : l # m => loop'[l] = loop[l] /\ held'[l] = held[l] /\ cur'[l] = cur[l]
      /\ loop' \in [Loops -> {"dump", "wait", "pick", "recv", "send"}]
      /\ cur' \in [Loops -> Nat] /\ held' \in [Loops -> Seq(Nat)]
  BY <1>1 DEF ServerType
<1>3. ASSUME NEW l \in Loops
      PROVE  /\ \A n \in batch'[l] : n \in 1 .. Len(conns'[l]) /\ conns'[l][n] # NoConn
             /\ loop'[l] \in {"recv", "send"} =>
                   /\ cur'[l] \in 1 .. Len(conns'[l]) /\ conns'[l][cur'[l]] # NoConn
                   /\ cur'[l] \notin batch'[l]
  <2>1. /\ \A n \in batch[l] : n \in 1 .. Len(conns[l]) /\ conns[l][n] # NoConn
        /\ loop[l] \in {"recv", "send"} =>
              /\ cur[l] \in 1 .. Len(conns[l]) /\ conns[l][cur[l]] # NoConn
              /\ cur[l] \notin batch[l]
    BY DEF ServerInv, IndexInv, Live
  <2>2. CASE l = m
    BY <1>1, <1>2, <2>1, <2>2
  <2>3. CASE l # m
    BY <1>1, <1>2, <2>1, <2>3
  <2> QED
    BY <2>2, <2>3
<1>4. IndexInv'
  BY <1>3 DEF IndexInv, Live
<1> QED
  BY <1>1, <1>2, <1>4

\* rm_conn, at the end of a handler.
LEMMA RemoveStep ==
    ASSUME program \in BenchPrograms, PipeType, ServerType, ServerInv, NEW m \in Loops,
           loop[m] \in {"recv", "send"}, rm_conn(m), Handled(m),
           UNCHANGED <<backlog, accepted, buf_conns>>
    PROVE  /\ PipeType' /\ ServerType' /\ ServerInv' /\ program' = program
           /\ \A d \in Conns : /\ wire'["client"][d] = wire["client"][d]
                               /\ wire'["server"][d] \in {wire["server"][d], <<>>}
           /\ \A d \in Used : d # conns[m][cur[m]] => SameHands(d)
           /\ \A l \in Loops : l # m => /\ loop'[l] = loop[l] /\ cur'[l] = cur[l]
                                        /\ held'[l] = held[l] /\ conns'[l] = conns[l]
           /\ loop'[m] \in {"dump", "pick"}
<1> DEFINE c == conns[m][cur[m]]
           j == cur[m]
<1>1. /\ c \in Used /\ c \in Conns /\ c # NoConn /\ j \in 1 .. Len(conns[m])
      /\ sock["server"][c] = "open" /\ c \notin backlog /\ c # accepted
      /\ \A l \in Loops : l # m => ~Holds(l, c)
  BY AtHand
<1>2. /\ Used \subseteq Conns /\ NoConn \notin Conns /\ "client" \in Sides /\ "server" \in Sides
      /\ j \in Nat /\ c = conns[m][j]
  BY BenchArgs, BenchAssumption DEF Used, Sides, ServerType
<1>3. CloseAll("server", {c}) /\ conns' = [conns EXCEPT ![m] = [conns[m] EXCEPT ![j] = NoConn]]
  BY DEF rm_conn
<1>a. j = cur[m] /\ c = conns[m][cur[m]]
  OBVIOUS
<1> HIDE DEF c, j
<1>4. /\ PipeType' /\ program' = program
      /\ \A r \in Sides, d \in Conns :
            /\ sock'[r][d] = IF r = "server" /\ d \in {c} THEN "closed" ELSE sock[r][d]
            /\ wire'[r][d] = IF r = "server" /\ d \in {c} THEN <<>> ELSE wire[r][d]
  BY <1>2, <1>3, Closes
<1>5. Used' = Used
  BY <1>4 DEF Used
<1>6. /\ conns'[m] \in Seq(Used \cup {NoConn}) /\ Len(conns'[m]) = Len(conns[m])
      /\ conns'[m][j] = NoConn
      /\ \A n \in 1 .. Len(conns[m]) : n # j => conns'[m][n] = conns[m][n]
      /\ \A l \in Loops : l # m => conns'[l] = conns[l]
  <2> DEFINE S == Used \cup {NoConn}
             a == conns[m]
  <2>1. a \in Seq(S) /\ NoConn \in S /\ j \in 1 .. Len(a)
    BY <1>1 DEF ServerType
  <2>2. conns'[m] = [a EXCEPT ![j] = NoConn] /\ \A l \in Loops : l # m => conns'[l] = conns[l]
    BY <1>3 DEF ServerType
  <2> HIDE DEF S, a
  <2>3. /\ [a EXCEPT ![j] = NoConn] \in Seq(S) /\ Len([a EXCEPT ![j] = NoConn]) = Len(a)
        /\ \A n \in 1 .. Len(a) : [a EXCEPT ![j] = NoConn][n] = IF n = j THEN NoConn ELSE a[n]
    BY <2>1, ExceptSeq
  <2> QED
    BY <2>1, <2>2, <2>3 DEF S, a
<1>7. /\ IndexInv'
      /\ loop'[m] \in {"dump", "pick"} /\ held'[m] = <<>>
      /\ \A l \in Loops : l # m => loop'[l] = loop[l] /\ held'[l] = held[l] /\ cur'[l] = cur[l]
      /\ loop' \in [Loops -> {"dump", "wait", "pick", "recv", "send"}]
      /\ batch' = batch /\ cur' \in [Loops -> Nat] /\ held' \in [Loops -> Seq(Nat)]
  <2>1. \A l \in Loops : Len(conns'[l]) = Len(conns[l])
    BY <1>6
  <2>2. \A l \in Loops : \A n \in 1 .. Len(conns[l]) :
            ~(l = m /\ n = j) => conns'[l][n] = conns[l][n]
    BY <1>6
  <2> QED
    BY <1>2, <1>a, <2>1, <2>2, HandledIndex
<1>8. ServerType'
  <2>1. conns' \in [Loops -> Seq(Used \cup {NoConn})]
    BY <1>3, <1>6 DEF ServerType
  <2> QED
    BY <1>5, <1>7, <2>1 DEF ServerType
<1>9. ASSUME NEW l \in Loops
      PROVE  /\ Len(Line(l)') = Len(Line(l))
             /\ \A n \in 1 .. Len(Line(l)) :
                  Line(l)'[n] = IF l = m /\ n = j THEN NoConn ELSE Line(l)[n]
  <2> DEFINE S == Used \cup {NoConn}
             a == conns[l]
             b == buf_conns[l]
             x == conns'[l]
  <2>1. /\ a \in Seq(S) /\ x \in Seq(S) /\ b \in Seq(S) /\ Len(x) = Len(a) /\ Len(a) \in Nat
        /\ \A n \in 1 .. Len(a) : x[n] = IF l = m /\ n = j THEN NoConn ELSE a[n]
    BY <1>6, LineType
  <2>2. Line(l) = a \o b /\ Line(l)' = x \o b
    BY DEF Line
  <2>3. l = m => j <= Len(a)
    BY <1>1, <2>1
  <2> HIDE DEF S, a, b, x
  <2>4. /\ Len(a \o b) = Len(a) + Len(b)
        /\ \A n \in 1 .. Len(a) + Len(b) : (a \o b)[n] = IF n <= Len(a) THEN a[n] ELSE b[n - Len(a)]
    BY <2>1, ConcatProperties
  <2>5. /\ Len(x \o b) = Len(x) + Len(b)
        /\ \A n \in 1 .. Len(x) + Len(b) : (x \o b)[n] = IF n <= Len(x) THEN x[n] ELSE b[n - Len(x)]
    <3>1. x \in Seq(S) /\ b \in Seq(S)
      BY <2>1
    <3> QED
      BY <3>1, ConcatProperties
  <2>6. ASSUME NEW n \in 1 .. Len(a) + Len(b)
        PROVE  (x \o b)[n] = IF l = m /\ n = j THEN NoConn ELSE (a \o b)[n]
    <3>1. CASE n <= Len(a)
      <4>1. n \in 1 .. Len(a)
        BY <3>1
      <4>2. (a \o b)[n] = a[n] /\ (x \o b)[n] = x[n]
        BY <2>1, <2>4, <2>5, <3>1
      <4> QED
        BY <2>1, <4>1, <4>2
    <3>2. CASE ~(n <= Len(a))
      <4>1. (a \o b)[n] = b[n - Len(a)] /\ (x \o b)[n] = b[n - Len(a)]
        BY <2>1, <2>4, <2>5, <3>2
      <4>2. ~(l = m /\ n = j)
        BY <2>3, <3>2
      <4> QED
        BY <4>1, <4>2
    <3> QED
      BY <3>1, <3>2
  <2>7. /\ Len(x \o b) = Len(a \o b)
        /\ \A n \in 1 .. Len(a \o b) : (x \o b)[n] = IF l = m /\ n = j THEN NoConn ELSE (a \o b)[n]
    BY <2>1, <2>4, <2>5, <2>6
  <2> QED
    BY <2>2, <2>7
<1>10. j \in 1 .. Len(Line(m)) /\ Line(m)[j] = c
  BY <1>1, <1>2, LineType
<1>11. LinesInv'
  <2>0. LinesInv
    BY DEF ServerInv
  <2>1. SUFFICES ASSUME NEW l \in Loops, NEW n \in Loops,
                        NEW p \in 1 .. Len(Line(l)'), NEW k \in 1 .. Len(Line(n)'),
                        Line(l)'[p] = Line(n)'[k], Line(l)'[p] # NoConn
                 PROVE  l = n /\ p = k
    BY DEF LinesInv
  <2>2. p \in 1 .. Len(Line(l)) /\ Line(l)'[p] = Line(l)[p]
    BY <1>9, <2>1
  <2>3. k \in 1 .. Len(Line(n)) /\ Line(n)'[k] = Line(n)[k]
    BY <1>9, <2>1
  <2>4. Line(l)[p] = Line(n)[k] /\ Line(l)[p] # NoConn
    BY <2>1, <2>2, <2>3
  <2>5. p \in 1 .. Len(Line(l))
    BY <2>2
  <2>6. k \in 1 .. Len(Line(n))
    BY <2>3
  <2>7. \A x \in 1 .. Len(Line(l)), y \in 1 .. Len(Line(n)) :
            Line(l)[x] = Line(n)[y] /\ Line(l)[x] # NoConn => l = n /\ x = y
    BY <2>0 DEF LinesInv
  <2> QED
    BY <2>4, <2>5, <2>6, <2>7
<1>12. \A d \in Used : InLine(d)' <=> InLine(d) /\ d # c
  <2>1. ASSUME NEW d \in Used, InLine(d)' PROVE InLine(d) /\ d # c
    <3>1. PICK l \in Loops : \E n \in 1 .. Len(Line(l)') : Line(l)'[n] = d
      BY <2>1 DEF InLine
    <3>2. PICK n \in 1 .. Len(Line(l)') : Line(l)'[n] = d
      BY <3>1
    <3>3. n \in 1 .. Len(Line(l)) /\ Line(l)[n] = d /\ ~(l = m /\ n = j)
      BY <1>2, <1>9, <3>2
    <3>4. d # c
      <4>1. SUFFICES ASSUME d = c PROVE FALSE
        OBVIOUS
      <4>2. Line(l)[n] = Line(m)[j] /\ Line(l)[n] # NoConn
        BY <1>2, <1>10, <3>3, <4>1
      <4>3. l = m /\ n = j
        BY <1>10, <3>3, <4>2, Zenon DEF ServerInv, LinesInv
      <4> QED
        BY <3>3, <4>3
    <3> QED
      BY <3>3, <3>4 DEF InLine
  <2>2. ASSUME NEW d \in Used, InLine(d), d # c PROVE InLine(d)'
    <3>1. PICK l \in Loops : \E n \in 1 .. Len(Line(l)) : Line(l)[n] = d
      BY <2>2 DEF InLine
    <3>2. PICK n \in 1 .. Len(Line(l)) : Line(l)[n] = d
      BY <3>1
    <3>3. ~(l = m /\ n = j)
      BY <1>10, <2>2, <3>2
    <3>4. n \in 1 .. Len(Line(l)') /\ Line(l)'[n] = d
      BY <1>9, <3>2, <3>3
    <3> QED
      BY <3>4 DEF InLine
  <2> QED
    BY <2>1, <2>2
<1>13. SocketInv'
  <2>1. \A d \in backlog' : d # accepted' /\ ~InLine(d)'
    BY <1>12 DEF ServerInv, SocketInv, ServerType
  <2>2. accepted' # NoConn => ~InLine(accepted)'
    <3>1. accepted # NoConn => ~InLine(accepted) /\ accepted \in Used
      BY DEF ServerInv, SocketInv, ServerType
    <3>2. InLine(accepted)' <=> \E l \in Loops : \E n \in 1 .. Len(Line(l)') : Line(l)'[n] = accepted
      BY DEF InLine
    <3>3. accepted # NoConn => ~\E l \in Loops : \E n \in 1 .. Len(Line(l)') : Line(l)'[n] = accepted
      BY <1>12, <3>1 DEF InLine
    <3> QED
      BY <3>2, <3>3
  <2>3. \A d \in Used : sock'["server"][d] = "open" <=> d \in backlog' \/ d = accepted' \/ InLine(d)'
    BY <1>1, <1>2, <1>4, <1>12 DEF ServerInv, SocketInv
  <2>4. \A d \in Conns : sock'["client"][d] = "none" => sock'["server"][d] = "none"
    BY <1>1, <1>2, <1>4 DEF ServerInv, SocketInv
  <2> QED
    BY <1>5, <2>1, <2>2, <2>3, <2>4 DEF SocketInv
<1>14. \A d \in Used : d # c => SameHands(d)
  BY <1>6, <1>7, <1>a DEF SameHands, Holds
<1>15. \A d \in Conns : /\ wire'["client"][d] = wire["client"][d]
                        /\ wire'["server"][d] \in {wire["server"][d], <<>>}
  BY <1>2, <1>4
<1> QED
  BY <1>4, <1>6, <1>7, <1>8, <1>11, <1>13, <1>14, <1>15, <1>a DEF ServerInv

\* A step of loop m that concerns connection c: the others are not concerned.
LEMMA OthersKeep ==
    ASSUME program \in BenchPrograms, InvBench, NEW c, UNCHANGED <<program, clientVars>>,
           \A d \in Used : d # c => SameHands(d),
           \A d \in Used : d # c => /\ wire'["client"][d] = wire["client"][d]
                                    /\ wire'["server"][d] \in {wire["server"][d], <<>>},
           c \in Used \ split => Packet(c)',
           c \in Used => (Unsent(c) => Unsent(c)')
    PROVE  ClientType' /\ PacketInv' /\ ClientInv'
<1>1. PipeType /\ ClientType /\ ServerType /\ PacketInv /\ ClientInv
  BY DEF InvBench, TypeBench
<1>2. /\ Used' = Used /\ Used \subseteq Conns
      /\ UNCHANGED <<at, left, tx_seq, rx_seq, alarms, split>>
  BY BenchArgs DEF clientVars, Used
<1>3. ASSUME NEW d \in Used PROVE Left(d)' = Left(d)
  BY <1>2 DEF Left
<1>4. PacketInv'
  <2>1. SUFFICES ASSUME NEW d \in Used \ split, d # c PROVE Packet(d)'
    BY <1>2 DEF PacketInv
  <2>2. Packet(d) /\ d \in Conns
    BY <1>1, <1>2 DEF PacketInv
  <2>3. Left(d) \in Nat /\ Left(d)' = Left(d)
    BY <1>1, <1>3, LeftNat
  <2>4. d \notin alarms'
    BY <1>2, <2>2 DEF Packet
  <2>5. wire'["client"][d] = wire["client"][d] /\ wire'["server"][d] \in {wire["server"][d], <<>>}
    BY <2>1
  <2>6. SameHands(d)
    BY <2>1
  <2> QED
    BY <1>1, <1>2, <2>2, <2>3, <2>4, <2>5, <2>6, PacketFrame
<1>5. ASSUME NEW d \in Used, Unsent(d) PROVE Unsent(d)'
  <2>1. CASE d = c
    BY <1>5, <2>1
  <2>2. CASE d # c
    BY <1>2, <1>3, <1>5, <2>2 DEF Unsent, SameHands
  <2> QED
    BY <2>1, <2>2
<1> QED
  BY <1>1, <1>4, <1>5, ClientTypeSame, ClientInvSame

LEMMA ServerRecvStep ==
    ASSUME program \in BenchPrograms, InvBench, NEW m \in program.loops, ServerRecv(m)
    PROVE  InvBench' /\ program' = program
<1>1. PipeType /\ ClientType /\ ServerType /\ ServerInv /\ PacketInv /\ ClientInv
  BY DEF InvBench, TypeBench
<1>2. /\ m \in Loops /\ loop[m] = "recv" /\ Used \subseteq Conns
      /\ "client" \in Sides /\ "server" \in Sides
      /\ UNCHANGED <<clientVars, backlog, accepted, buf_conns>>
      /\ UNCHANGED <<at, left, tx_seq, rx_seq, alarms, split>>
  BY BenchArgs DEF ServerRecv, Sides, Used, clientVars
<1>3. PICK c \in Used : c = conns[m][cur[m]]
  BY <1>1, <1>2, AtHand
<1> DEFINE u == wire["client"][c]
           v == wire["server"][c]
<1>4. /\ c \in Conns /\ u \in Seq(Nat) /\ v \in Seq(Nat)
      /\ \A l \in Loops : ~Holds(l, c)
  <2>1. \A l \in Loops : l # m => ~Holds(l, c)
    BY <1>1, <1>2, <1>3, AtHand
  <2>2. ~Holds(m, c)
    BY <1>2 DEF Holds
  <2> QED
    BY <1>1, <1>2, <2>1, <2>2 DEF PipeType
<1>5. ASSUME NEW k \in Arrived("server", c, Cap), Receive("server", c, k),
             held' = [held EXCEPT ![m] = SubSeq(v, 1, k)],
             loop' = [loop EXCEPT ![m] = "send"],
             UNCHANGED <<conns, batch, cur>>
      PROVE  InvBench' /\ program' = program
  <2>1. /\ PipeType' /\ program' = program /\ sock' = sock
        /\ k \in 1 .. Len(v)
        /\ wire'["server"][c] = SubSeq(v, k + 1, Len(v))
        /\ \A r \in Sides, d \in Conns : r # "server" \/ d # c => wire'[r][d] = wire[r][d]
    <3>1. Cap \in Nat
      BY PipeAssumption
    <3> QED
      BY <1>1, <1>2, <1>4, <1>5, <3>1, Receives
  <2>2. wire'["client"][c] = u /\ k \in 0 .. Len(v) /\ v # <<>>
    <3>1. wire'["client"][c] = u
      BY <1>2, <1>4, <2>1
    <3> HIDE DEF v
    <3>2. Len(v) \in Nat /\ (v = <<>> => Len(v) = 0)
      BY <1>4, LenProperties, EmptySeq
    <3>3. k \in 0 .. Len(v) /\ v # <<>>
      BY <2>1, <3>2
    <3> QED
      BY <3>1, <3>3
  <2>3. SubSeq(v, 1, k) \in Seq(Nat)
    <3> HIDE DEF v
    <3> QED
      BY <1>4, <2>2, Halves
  <2>4. /\ loop'[m] = "send" /\ held'[m] = SubSeq(v, 1, k)
        /\ \A l \in Loops : l # m => loop'[l] = loop[l] /\ held'[l] = held[l]
    BY <1>1, <1>2, <1>5 DEF ServerType
  <2>5. ServerType'
    BY <1>1, <1>2, <1>5, <2>1, <2>3 DEF ServerType, Used
  <2>6. ServerInv'
    <3>1. IndexInv'
      <4>1. ASSUME NEW l \in Loops
            PROVE  /\ \A n \in batch[l] : Live(l, n)
                   /\ loop'[l] \in {"recv", "send"} => Live(l, cur[l]) /\ cur[l] \notin batch[l]
        BY <1>1, <1>2, <2>4 DEF ServerInv, IndexInv
      <4> QED
        BY <1>5, <4>1 DEF IndexInv, Live
    <3> QED
      BY <1>1, <1>2, <1>5, <2>1, <3>1, SameLines DEF ServerInv
  <2>7. \A d \in Used : d # c => SameHands(d)
    BY <1>2, <1>3, <1>5, <2>4 DEF SameHands, Holds
  <2>8. \A d \in Used : d # c => /\ wire'["client"][d] = wire["client"][d]
                                 /\ wire'["server"][d] \in {wire["server"][d], <<>>}
    BY <1>2, <2>1
  <2>9. ASSUME c \in Used \ split PROVE Packet(c)'
    <3>1. Fine(c, <<>>) /\ c \notin alarms
      BY <1>1, <1>4, <2>9 DEF PacketInv, Packet
    <3>2. (u \o SubSeq(v, 1, k)) \o SubSeq(v, k + 1, Len(v)) = (u \o <<>>) \o v
      <4> HIDE DEF u, v
      <4> QED
        BY <1>4, <2>2, WayRecv
    <3>3. InPacket(program, (u \o SubSeq(v, 1, k)) \o SubSeq(v, k + 1, Len(v)), Left(c), tx_seq[c], rx_seq[c])
      BY <3>1, <3>2 DEF Fine, OnWay
    <3>4. Left(c)' = Left(c)
      BY <1>2 DEF Left
    <3>5. Fine(c, held[m])'
      BY <1>2, <2>1, <2>2, <2>4, <3>3, <3>4 DEF Fine, OnWay
    <3>6. \A l \in Loops : Holds(l, c)' <=> l = m
      BY <1>2, <1>3, <1>4, <1>5, <2>4 DEF Holds
    <3> QED
      BY <1>2, <3>1, <3>5, <3>6 DEF Packet
  <2>10. Unsent(c) => Unsent(c)'
    BY <2>2 DEF Unsent
  <2>11. ClientType' /\ PacketInv' /\ ClientInv'
    <3>1. UNCHANGED <<program, clientVars>>
      BY <1>2, <2>1
    <3> QED
      BY <2>7, <2>8, <2>9, <2>10, <3>1, OthersKeep
  <2> QED
    BY <2>1, <2>5, <2>6, <2>11 DEF InvBench, TypeBench
<1>6. ASSUME rm_conn(m), Handled(m)
      PROVE  InvBench' /\ program' = program
  <2>1. /\ PipeType' /\ ServerType' /\ ServerInv' /\ program' = program
        /\ \A d \in Conns : /\ wire'["client"][d] = wire["client"][d]
                            /\ wire'["server"][d] \in {wire["server"][d], <<>>}
        /\ \A d \in Used : d # conns[m][cur[m]] => SameHands(d)
        /\ \A l \in Loops : l # m => /\ loop'[l] = loop[l] /\ cur'[l] = cur[l]
                                     /\ held'[l] = held[l] /\ conns'[l] = conns[l]
        /\ loop'[m] \in {"dump", "pick"}
    BY <1>1, <1>2, <1>6, RemoveStep
  <2>2. SameHands(c)
    BY <1>2, <1>4, <2>1 DEF SameHands, Holds
  <2>3. \A d \in Used : SameHands(d)
    BY <1>3, <2>1, <2>2
  <2>4. Left(c)' = Left(c) /\ Left(c) \in Nat
    BY <1>1, <1>2, LeftNat DEF Left
  <2>5. ASSUME c \in Used \ split PROVE Packet(c)'
    <3>1. Packet(c) /\ c \notin alarms'
      BY <1>1, <1>2, <2>5 DEF PacketInv, Packet
    <3>2. wire'["client"][c] = u /\ wire'["server"][c] \in {v, <<>>}
      BY <1>4, <2>1
    <3> QED
      BY <1>1, <1>2, <1>4, <2>1, <2>2, <2>4, <3>1, <3>2, PacketFrame
  <2>6. Unsent(c) => Unsent(c)'
    BY <1>2, <1>4, <2>1, <2>2, <2>4 DEF Unsent, SameHands
  <2>7. ClientType' /\ PacketInv' /\ ClientInv'
    <3>1. UNCHANGED <<program, clientVars>>
      BY <1>2, <2>1
    <3>2. \A d \in Used : d # c => /\ wire'["client"][d] = wire["client"][d]
                                   /\ wire'["server"][d] \in {wire["server"][d], <<>>}
      BY <1>2, <2>1
    <3> QED
      BY <2>3, <2>5, <2>6, <3>1, <3>2, OthersKeep
  <2> QED
    BY <2>1, <2>7 DEF InvBench, TypeBench
<1> QED
  BY <1>3, <1>5, <1>6 DEF ServerRecv

\* The server sends what there is room for of what it has of c; the rest is lost.
LEMMA PacketForwarded ==
    ASSUME NEW g \in BenchPrograms, NEW u \in Seq(Nat), NEW h \in Seq(Nat), NEW v \in Seq(Nat),
           NEW k \in 0 .. Len(h), NEW n \in Nat, NEW t, NEW r,
           InPacket(g, (u \o h) \o v, n, t, r)
    PROVE  InPacket(g, ((u \o SubSeq(h, 1, k)) \o <<>>) \o v, n, t, r)
<1>1. Len(u) \in Nat /\ Len(h) \in Nat /\ Len(v) \in Nat
  BY LenProperties
<1>2. /\ ((u \o SubSeq(h, 1, k)) \o <<>>) \o v \in Seq(Nat)
      /\ Len(((u \o SubSeq(h, 1, k)) \o <<>>) \o v) = Len(u) + k + Len(v)
      /\ k = Len(h) => ((u \o SubSeq(h, 1, k)) \o <<>>) \o v = (u \o h) \o v
  <2> DEFINE x == SubSeq(h, 1, k)
  <2>1. x \in Seq(Nat) /\ Len(x) = k /\ (k = Len(h) => x = h)
    BY Halves
  <2> HIDE DEF x
  <2> DEFINE y == u \o x
  <2>2. y \in Seq(Nat) /\ Len(y) = Len(u) + k
    BY <2>1, ConcatProperties
  <2> HIDE DEF y
  <2>3. y \o <<>> = y
    BY <2>2, ConcatEmptySeq
  <2>4. y \o v \in Seq(Nat) /\ Len(y \o v) = Len(y) + Len(v)
    BY <2>2, ConcatProperties
  <2> QED
    BY <2>1, <2>2, <2>3, <2>4 DEF x, y
<1> DEFINE a == (u \o h) \o v
           b == ((u \o SubSeq(h, 1, k)) \o <<>>) \o v
<1>3. b \in Seq(Nat) /\ Len(b) = Len(u) + k + Len(v) /\ (k = Len(h) => b = a)
  BY <1>2
<1>4. a \in Seq(Nat) /\ Len(a) = Len(u) + Len(h) + Len(v)
  BY WayLength
<1>5. InPacket(g, a, n, t, r)
  OBVIOUS
<1> HIDE DEF a, b
<1>6. Len(b) + n <= Len(a) + n /\ (Len(b) + n = Len(a) + n => b = a)
  BY <1>1, <1>3, <1>4
<1>7. InPacket(g, b, n, t, r)
  BY <1>3, <1>4, <1>5, <1>6, PacketLess
<1> QED
  BY <1>7 DEF b

LEMMA ServerSendStep ==
    ASSUME program \in BenchPrograms, InvBench, NEW m \in program.loops, ServerSend(m)
    PROVE  InvBench' /\ program' = program
<1>1. PipeType /\ ClientType /\ ServerType /\ ServerInv /\ PacketInv /\ ClientInv
  BY DEF InvBench, TypeBench
<1>2. /\ m \in Loops /\ loop[m] = "send" /\ Used \subseteq Conns
      /\ "client" \in Sides /\ "server" \in Sides /\ Far("server") = "client"
      /\ Handled(m)
      /\ UNCHANGED <<clientVars, backlog, accepted, buf_conns>>
      /\ UNCHANGED <<at, left, tx_seq, rx_seq, alarms, split>>
  BY BenchArgs DEF ServerSend, Sides, Far, Used, clientVars
<1>3. PICK c \in Used : c = conns[m][cur[m]]
  BY <1>1, <1>2, AtHand
<1>4. PICK h \in Seq(Nat) : h = held[m]
  BY <1>1, <1>2 DEF ServerType
<1> DEFINE u == wire["client"][c]
           v == wire["server"][c]
<1>5. /\ c \in Conns /\ u \in Seq(Nat) /\ v \in Seq(Nat) /\ Len(h) \in Nat /\ Len(u) \in Nat
      /\ Holds(m, c) /\ \A l \in Loops : l # m => ~Holds(l, c)
  <2>1. \A l \in Loops : l # m => ~Holds(l, c)
    BY <1>1, <1>2, <1>3, AtHand
  <2>2. Holds(m, c)
    BY <1>2, <1>3 DEF Holds
  <2>3. c \in Conns /\ u \in Seq(Nat) /\ v \in Seq(Nat)
    BY <1>1, <1>2 DEF PipeType
  <2> HIDE DEF u, v
  <2>4. Len(h) \in Nat /\ Len(u) \in Nat
    BY <2>3, LenProperties
  <2> QED
    BY <2>1, <2>2, <2>3, <2>4
<1>6. Left(c)' = Left(c) /\ Left(c) \in Nat
  BY <1>1, <1>2, LeftNat DEF Left
<1>7. ~Unsent(c)
  BY <1>2, <1>5 DEF Unsent
<1>8. ASSUME c \in Used \ split
      PROVE  InPacket(program, (u \o h) \o v, Left(c), tx_seq[c], rx_seq[c]) /\ c \notin alarms
  BY <1>1, <1>2, <1>4, <1>5, <1>8 DEF PacketInv, Packet, Fine, OnWay
<1>9. ASSUME NEW k \in 0 .. Len(h), Transmit("server", c, SubSeq(h, 1, k)), UNCHANGED conns
      PROVE  InvBench' /\ program' = program
  <2> DEFINE x == SubSeq(h, 1, k)
  <2>1. x \in Seq(Nat)
    BY Halves
  <2> HIDE DEF x
  <2>2. /\ PipeType' /\ program' = program /\ sock' = sock
        /\ wire'[Far("server")][c] \in {wire[Far("server")][c], wire[Far("server")][c] \o x}
        /\ \A r \in Sides, d \in Conns : r # Far("server") \/ d # c => wire'[r][d] = wire[r][d]
    <3>1. Transmit("server", c, x)
      BY <1>9 DEF x
    <3> QED
      BY <1>1, <1>2, <1>5, <2>1, <3>1, Transmits
  <2>3. wire'["client"][c] \in {u, u \o x} /\ wire'["server"][c] = v
    BY <1>2, <1>5, <2>2
  <2>4. /\ IndexInv'
        /\ loop'[m] \in {"dump", "pick"} /\ held'[m] = <<>>
        /\ \A l \in Loops : l # m => loop'[l] = loop[l] /\ held'[l] = held[l] /\ cur'[l] = cur[l]
        /\ loop' \in [Loops -> {"dump", "wait", "pick", "recv", "send"}]
        /\ batch' = batch /\ cur' \in [Loops -> Nat] /\ held' \in [Loops -> Seq(Nat)]
    <3>1. PICK j \in Nat : j = cur[m]
      BY <1>1, <1>2 DEF ServerType
    <3> QED
      BY <1>1, <1>2, <1>9, <3>1, HandledIndex
  <2>5. ServerType'
    BY <1>1, <1>2, <1>9, <2>2, <2>4 DEF ServerType, Used
  <2>6. ServerInv'
    BY <1>1, <1>2, <1>9, <2>2, <2>4, SameLines DEF ServerInv
  <2>7. \A d \in Used : d # c => SameHands(d)
    BY <1>2, <1>3, <1>9, <2>4 DEF SameHands, Holds
  <2>8. \A d \in Used : d # c => /\ wire'["client"][d] = wire["client"][d]
                                 /\ wire'["server"][d] \in {wire["server"][d], <<>>}
    BY <1>2, <2>2
  <2>9. ASSUME c \in Used \ split PROVE Packet(c)'
    <3>1. InPacket(program, (u \o h) \o v, Left(c), tx_seq[c], rx_seq[c])
      BY <1>8, <2>9
    <3>2. \A l \in Loops : ~Holds(l, c)'
      BY <1>2, <1>5, <1>9, <2>4 DEF Holds
    <3>3. InPacket(program, ((u \o x) \o <<>>) \o v, Left(c), tx_seq[c], rx_seq[c])
      <4> HIDE DEF u, v
      <4> QED
        BY <1>5, <1>6, <3>1, PacketForwarded DEF x
    <3>4. InPacket(program, (u \o <<>>) \o v, Left(c), tx_seq[c], rx_seq[c])
      <4> HIDE DEF u, v
      <4> QED
        BY <1>5, <1>6, <3>1, PacketLost
    <3>5. Fine(c, <<>>)'
      BY <1>2, <1>6, <2>2, <2>3, <3>3, <3>4 DEF Fine, OnWay
    <3> QED
      BY <1>2, <1>8, <2>9, <3>2, <3>5 DEF Packet
  <2>10. ClientType' /\ PacketInv' /\ ClientInv'
    <3>1. UNCHANGED <<program, clientVars>>
      BY <1>2, <2>2
    <3> QED
      BY <1>7, <2>7, <2>8, <2>9, <3>1, OthersKeep
  <2> QED
    BY <2>2, <2>5, <2>6, <2>10 DEF InvBench, TypeBench
<1>10. ASSUME rm_conn(m)
       PROVE  InvBench' /\ program' = program
  <2>1. /\ PipeType' /\ ServerType' /\ ServerInv' /\ program' = program
        /\ \A d \in Conns : /\ wire'["client"][d] = wire["client"][d]
                            /\ wire'["server"][d] \in {wire["server"][d], <<>>}
        /\ \A d \in Used : d # conns[m][cur[m]] => SameHands(d)
        /\ \A l \in Loops : l # m => /\ loop'[l] = loop[l] /\ cur'[l] = cur[l]
                                     /\ held'[l] = held[l] /\ conns'[l] = conns[l]
        /\ loop'[m] \in {"dump", "pick"}
    BY <1>1, <1>2, <1>10, RemoveStep
  <2>2. wire'["client"][c] = u /\ wire'["server"][c] \in {v, <<>>}
    BY <1>5, <2>1
  <2>3. ASSUME c \in Used \ split PROVE Packet(c)'
    <3>1. InPacket(program, (u \o h) \o v, Left(c), tx_seq[c], rx_seq[c])
      BY <1>8, <2>3
    <3>2. \A l \in Loops : ~Holds(l, c)'
      BY <1>2, <1>5, <2>1 DEF Holds
    <3>3. InPacket(program, (u \o <<>>) \o v, Left(c), tx_seq[c], rx_seq[c])
      <4> HIDE DEF u, v
      <4> QED
        BY <1>5, <1>6, <3>1, PacketLost
    <3>4. InPacket(program, (u \o <<>>) \o <<>>, Left(c), tx_seq[c], rx_seq[c])
      <4> HIDE DEF u, v
      <4> QED
        BY <1>5, <1>6, <3>1, PacketLost
    <3>5. Fine(c, <<>>)'
      BY <1>2, <1>6, <2>1, <2>2, <3>3, <3>4 DEF Fine, OnWay
    <3> QED
      BY <1>2, <1>8, <2>3, <3>2, <3>5 DEF Packet
  <2>4. ClientType' /\ PacketInv' /\ ClientInv'
    <3>1. UNCHANGED <<program, clientVars>>
      BY <1>2, <2>1
    <3>2. \A d \in Used : d # c => /\ wire'["client"][d] = wire["client"][d]
                                   /\ wire'["server"][d] \in {wire["server"][d], <<>>}
      BY <1>2, <2>1
    <3>3. \A d \in Used : d # c => SameHands(d)
      BY <1>3, <2>1
    <3> QED
      BY <1>7, <2>3, <3>1, <3>2, <3>3, OthersKeep
  <2> QED
    BY <2>1, <2>4 DEF InvBench, TypeBench
<1>11. ASSUME NEW k, k = IF Len(h) < Room("server", c) THEN Len(h) ELSE Room("server", c), k > 0
       PROVE  k \in 0 .. Len(h)
  <2>1. Room("server", c) \in Int
    BY <1>2, <1>5, PipeAssumption DEF Room
  <2> QED
    BY <1>5, <1>11, <2>1
<1> QED
  BY <1>3, <1>4, <1>9, <1>10, <1>11 DEF ServerSend

------------------------------------------------------------------------------
\* At first no connection is established, and every packet is still to be sent.
LEMMA InitHolds == ASSUME InitClients PROVE InvClients
<1>1. program \in Programs
  BY DEF InitClients, InitBench, PipeInit
<1>2. SUFFICES ASSUME Epoll PROVE InvBench
  BY <1>1 DEF InvClients
<1>3. program \in BenchPrograms
  BY <1>1, <1>2 DEF Epoll, BenchPrograms
<1>4. /\ size \in Nat \ {0} /\ SeqRange \in Nat \ {0} /\ Used \subseteq Conns /\ NoConn \notin Used
      /\ IsFiniteSet(Conns)
  BY <1>3, BenchArgs DEF Used, size
<1>5. <<>> \in Seq(Nat) /\ <<>> \in Seq(Used \cup {NoConn}) /\ Len(<<>>) = 0
  BY EmptySeq
<1>6. InitBench
  BY DEF InitClients
<1>7. PipeType
  BY <1>5, <1>6 DEF InitBench, PipeInit, PipeType
<1>8. ClientType
  BY <1>4, <1>6 DEF InitBench, ClientType
<1>9. ServerType
  BY <1>5, <1>6 DEF InitBench, ServerType
<1>10. \A l \in Loops : Len(Line(l)) = 0 /\ Len(conns[l]) = 0 /\ loop[l] = "dump" /\ batch[l] = {}
  <2>1. \A l \in Loops : conns[l] = <<>> /\ buf_conns[l] = <<>> /\ loop[l] = "dump" /\ batch[l] = {}
    BY <1>6 DEF InitBench
  <2>2. Len(<<>> \o <<>>) = 0
    OBVIOUS
  <2> QED
    BY <1>5, <2>1, <2>2 DEF Line
<1>11. LinesInv /\ IndexInv /\ \A c : ~InLine(c)
  BY <1>10 DEF LinesInv, IndexInv, InLine
<1>12. SocketInv
  <2>1. backlog = {} /\ accepted = NoConn /\ \A s \in Sides, c \in Conns : sock[s][c] = "none"
    BY <1>6 DEF InitBench, PipeInit
  <2> QED
    BY <1>4, <1>11, <2>1 DEF SocketInv, Sides
<1>13. ASSUME NEW c \in Used PROVE Unsent(c)
  <2>1. wire["client"][c] = <<>> /\ wire["server"][c] = <<>> /\ tx_seq[c] = 0 /\ rx_seq[c] = 0
    BY <1>4, <1>6 DEF InitBench, PipeInit, Sides
  <2>2. Left(c) = 0
    BY <1>6 DEF InitBench, Left
  <2> QED
    BY <1>10, <2>1, <2>2 DEF Unsent, Holds
<1>14. PacketInv
  <2>1. SUFFICES ASSUME NEW c \in Used PROVE Packet(c)
    BY DEF PacketInv
  <2>2. Unsent(c)
    BY <1>13
  <2>3. Len((<<>> \o <<>>) \o <<>>) = 0
    OBVIOUS
  <2>4. Fine(c, <<>>)
    BY <1>4, <2>2, <2>3 DEF Fine, OnWay, InPacket, Unsent, size
  <2>5. c \notin alarms
    BY <1>6 DEF InitBench
  <2> QED
    BY <2>2, <2>4, <2>5 DEF Packet, Unsent
<1>15. ClientInv
  <2>1. 0 % size = 0
    BY <1>4, SmallRemainder
  <2>2. \A c \in Used : Stamped(c)
    BY <1>13, <2>1 DEF Unsent, Stamped
  <2>3. phase = "connect" /\ thread = "none" /\ left = 0 /\ at = NoConn /\ events = Used
    BY <1>6 DEF InitBench
  <2> QED
    BY <1>13, <2>2, <2>3 DEF ClientInv
<1> QED
  BY <1>7, <1>8, <1>9, <1>11, <1>12, <1>14, <1>15 DEF InvBench, TypeBench, ServerInv

\* One step lemma for each action.
LEMMA BenchStep ==
    ASSUME program \in BenchPrograms, InvBench, NextBench
    PROVE  InvBench' /\ program' = program
<1>1. CASE Main
  <2>1. CASE \E c \in Used : Connect(c) \/ FirstSend(c)
    BY <2>1, ConnectStep, FirstSendStep
  <2>2. CASE thread = "none" /\ SendFull
    BY <2>2, SendFullStep
  <2>3. CASE StartThread \/ Tick \/ Stop
    BY <2>3, QuietSteps DEF Quiet
  <2>4. CASE Join
    BY <2>4, JoinStep
  <2> QED
    BY <1>1, <2>1, <2>2, <2>3, <2>4 DEF Main
<1>2. CASE Thread
  <2>1. CASE TestRunning \/ EpollWait \/ Dispatch \/ \E c \in Used : HandleFails(c)
    BY <2>1, QuietSteps DEF Quiet
  <2>2. CASE thread = "send" /\ SendFull
    BY <2>2, SendFullStep
  <2>3. CASE \E c \in Used : Recv(c)
    BY <2>3, RecvStep
  <2> QED
    BY <1>2, <2>1, <2>2, <2>3 DEF Thread
<1>3. CASE Acceptor
  BY <1>3, AcceptStep, AcceptFailsStep, AddStep DEF Acceptor
<1>4. CASE \E l \in program.loops : EventLoop(l)
  <2>1. PICK l \in program.loops : EventLoop(l)
    BY <1>4
  <2> QED
    BY <2>1, DumpStep, ServerWaitStep, PickStep, ServerRecvStep, ServerSendStep DEF EventLoop
<1> QED
  BY <1>1, <1>2, <1>3, <1>4 DEF NextBench

\* The other clients leave the program as it is.
LEMMA OtherSteps ==
    ASSUME OfBlocking(Blocking!Next) \/ OfUdp(Udp!Next)
    PROVE  ~Epoll /\ program' = program
<1>1. CASE OfBlocking(Blocking!Next)
  <2>1. ~Epoll /\ Blocking!Next
    BY <1>1 DEF OfBlocking
  <2>2. CASE \E c \in Blocking!Used : Blocking!Requester(c)
    BY <2>1, <2>2 DEF Blocking!Requester, Blocking!Connect, Blocking!ConnectFails,
        Blocking!SendFull, Blocking!RecvFull, Blocking!RecvBreaks, Blocking!Close, Blocking!Establish,
        Blocking!Unconnected, Blocking!Transmit, Blocking!Receive, Blocking!RecvFails,
        Blocking!CloseAll, Blocking!Shut, Blocking!pipeVars
  <2>3. CASE Blocking!Acceptor
    BY <2>1, <2>3 DEF Blocking!Acceptor, Blocking!Accept, Blocking!AcceptFails, Blocking!Create,
        Blocking!pipeVars
  <2>4. CASE \E n \in Blocking!Slots : Blocking!Worker(n)
    BY <2>1, <2>4 DEF Blocking!Worker, Blocking!Start, Blocking!WorkerRecv, Blocking!WorkerSend,
        Blocking!WorkerClose, Blocking!Transmit, Blocking!Receive, Blocking!RecvFails,
        Blocking!CloseAll, Blocking!Shut, Blocking!pipeVars
  <2>5. CASE Blocking!KillClient \/ Blocking!KillServer
    BY <2>1, <2>5 DEF Blocking!KillClient, Blocking!KillServer, Blocking!CloseAll, Blocking!Shut
  <2> QED
    BY <2>1, <2>2, <2>3, <2>4, <2>5 DEF Blocking!Next
<1>2. CASE OfUdp(Udp!Next)
  BY <1>2 DEF OfUdp, Datagrams, Epoll, pipeVars
<1> QED
  BY <1>1, <1>2

LEMMA StepHolds ==
    ASSUME InvClients, [NextClients]_clientsVars
    PROVE  InvClients'
<1>1. CASE OfBench(NextBench)
  <2>1. program \in BenchPrograms /\ InvBench /\ NextBench
    BY <1>1 DEF OfBench, InvClients, Epoll, BenchPrograms
  <2>2. InvBench' /\ program' = program
    BY <2>1, BenchStep
  <2> QED
    BY <2>1, <2>2 DEF InvClients, BenchPrograms
<1>2. CASE OfBlocking(Blocking!Next) \/ OfUdp(Udp!Next)
  <2>1. ~Epoll /\ program' = program
    BY <1>2, OtherSteps
  <2> QED
    BY <2>1 DEF InvClients, Epoll
<1>3. CASE UNCHANGED clientsVars
  <2>1. UNCHANGED <<program, sock, wire>> /\ UNCHANGED clientVars /\ UNCHANGED serverVars
    BY <1>3 DEF clientsVars, pipeVars, benchVars
  <2>2. SUFFICES ASSUME Epoll PROVE InvBench'
    BY <2>1 DEF InvClients, Epoll
  <2>3. program \in BenchPrograms /\ InvBench
    BY <2>2 DEF InvClients, Epoll, BenchPrograms
  <2>4. PipeType /\ ClientType /\ ServerType /\ ServerInv /\ PacketInv /\ ClientInv
    BY <2>3 DEF InvBench, TypeBench
  <2>5. ClientType'
    BY <2>1, <2>4, ClientTypeSame
  <2>6. /\ PipeType' /\ ServerType' /\ ServerInv' /\ PacketInv'
        /\ \A c \in Used : Stamped(c)' /\ (Unsent(c) => Unsent(c)')
    <3>1. UNCHANGED <<pipeVars, left, tx_seq, rx_seq, alarms, split, serverVars>> /\ UNCHANGED at
      BY <1>3, <2>1 DEF clientsVars, clientVars, benchVars
    <3> QED
      BY <2>3, <2>5, <3>1, QuietStep
  <2>7. ClientInv'
    BY <2>1, <2>4, <2>6, ClientInvSame
  <2> QED
    BY <2>5, <2>6, <2>7 DEF InvBench, TypeBench
<1> QED
  BY <1>1, <1>2, <1>3 DEF NextClients

\* Every step of the clients and their servers keeps the invariant.
THEOREM InductiveBench == SpecClients => []InvClients
<1>1. InitClients => InvClients
  BY InitHolds
<1>2. InvClients /\ [NextClients]_clientsVars => InvClients'
  BY StepHolds
<1> QED
  BY <1>1, <1>2, PTL DEF SpecClients

------------------------------------------------------------------------------
(* What a reader sees of it.                                               *)

\* In sequences that contain c once at most, its places are counted.
LEMMA PlacesAre ==
    ASSUME NEW c, NEW lists,
           \A l, m \in Loops : \A j \in 1 .. Len(lists[l]), k \in 1 .. Len(lists[m]) :
               lists[l][j] = c /\ lists[m][k] = c => l = m /\ j = k
    PROVE  Cardinality(Places(lists, c)) =
               IF \E l \in Loops : \E j \in 1 .. Len(lists[l]) : lists[l][j] = c THEN 1 ELSE 0
<1>1. \A q : q \in Places(lists, c) <=>
             \E l \in Loops : \E j \in 1 .. Len(lists[l]) : q = <<l, j>> /\ lists[l][j] = c
  BY DEF Places
<1>2. CASE \E l \in Loops : \E j \in 1 .. Len(lists[l]) : lists[l][j] = c
  <2>1. PICK l \in Loops : \E j \in 1 .. Len(lists[l]) : lists[l][j] = c
    BY <1>2
  <2>2. PICK j \in 1 .. Len(lists[l]) : lists[l][j] = c
    BY <2>1
  <2>3. <<l, j>> \in Places(lists, c)
    BY <1>1, <2>2
  <2>4. ASSUME NEW q \in Places(lists, c) PROVE q = <<l, j>>
    <3>1. PICK m \in Loops : \E k \in 1 .. Len(lists[m]) : q = <<m, k>> /\ lists[m][k] = c
      BY <1>1, <2>4
    <3>2. PICK k \in 1 .. Len(lists[m]) : q = <<m, k>> /\ lists[m][k] = c
      BY <3>1
    <3>3. m = l /\ k = j
      BY <2>2, <3>2
    <3> QED
      BY <3>2, <3>3
  <2>5. Places(lists, c) = {<<l, j>>}
    BY <2>3, <2>4
  <2>6. Cardinality({<<l, j>>}) = 1
    BY FS_Singleton
  <2> QED
    BY <1>2, <2>5, <2>6
<1>3. CASE ~\E l \in Loops : \E j \in 1 .. Len(lists[l]) : lists[l][j] = c
  <2>1. Places(lists, c) = {}
    BY <1>1, <1>3
  <2> QED
    BY <1>3, <2>1, FS_EmptySet
<1> QED
  BY <1>2, <1>3

\* A place in one of two sequences is a place in both together.
LEMMA Joined ==
    ASSUME NEW S, NEW a \in Seq(S), NEW b \in Seq(S)
    PROVE  /\ Len(a) \in Nat /\ Len(b) \in Nat /\ Len(a \o b) = Len(a) + Len(b)
           /\ \A j \in 1 .. Len(a) : j \in 1 .. Len(a \o b) /\ (a \o b)[j] = a[j]
           /\ \A j \in 1 .. Len(b) : /\ Len(a) + j \in 1 .. Len(a \o b) /\ (a \o b)[Len(a) + j] = b[j]
                                     /\ Len(a) + j \notin 1 .. Len(a)
           /\ \A j \in 1 .. Len(a \o b) :
                 \/ j \in 1 .. Len(a)
                 \/ \E k \in 1 .. Len(b) : j = Len(a) + k
<1> DEFINE m == Len(a)
           n == Len(b)
           w == a \o b
<1>1. m \in Nat /\ n \in Nat
  BY LenProperties
<1>2. Len(w) = m + n /\ \A j \in 1 .. m + n : w[j] = IF j <= m THEN a[j] ELSE b[j - m]
  BY ConcatProperties
<1> HIDE DEF m, n, w
<1>3. ASSUME NEW j \in 1 .. m PROVE j \in 1 .. Len(w) /\ w[j] = a[j]
  BY <1>1, <1>2
<1>4. ASSUME NEW j \in 1 .. n PROVE m + j \in 1 .. Len(w) /\ w[m + j] = b[j] /\ m + j \notin 1 .. m
  <2>1. m + j \in 1 .. m + n /\ ~(m + j <= m) /\ (m + j) - m = j
    BY <1>1
  <2> QED
    BY <1>2, <2>1
<1>5. ASSUME NEW j \in 1 .. Len(w) PROVE j \in 1 .. m \/ \E k \in 1 .. n : j = m + k
  <2>1. j \in 1 .. m \/ (j - m \in 1 .. n /\ j = m + (j - m))
    BY <1>1, <1>2
  <2> QED
    BY <2>1
<1> QED
  BY <1>1, <1>2, <1>3, <1>4, <1>5 DEF m, n, w

\* The two parts of a loop's line.
LEMMA LineParts ==
    ASSUME ServerType, NEW l \in Loops
    PROVE  /\ conns[l] \in Seq(Used \cup {NoConn}) /\ buf_conns[l] \in Seq(Used \cup {NoConn})
           /\ \A j \in 1 .. Len(conns[l]) : j \in 1 .. Len(Line(l)) /\ Line(l)[j] = conns[l][j]
           /\ \A j \in 1 .. Len(buf_conns[l]) :
                 /\ Len(conns[l]) + j \in 1 .. Len(Line(l)) /\ Line(l)[Len(conns[l]) + j] = buf_conns[l][j]
                 /\ Len(conns[l]) + j \notin 1 .. Len(conns[l])
           /\ \A j \in 1 .. Len(Line(l)) :
                 \/ j \in 1 .. Len(conns[l])
                 \/ \E k \in 1 .. Len(buf_conns[l]) : j = Len(conns[l]) + k
<1> DEFINE S == Used \cup {NoConn}
           a == conns[l]
           b == buf_conns[l]
<1>1. a \in Seq(S) /\ b \in Seq(S)
  BY LineType
<1> HIDE DEF S, a, b
<1>2. /\ \A j \in 1 .. Len(a) : j \in 1 .. Len(a \o b) /\ (a \o b)[j] = a[j]
      /\ \A j \in 1 .. Len(b) : /\ Len(a) + j \in 1 .. Len(a \o b) /\ (a \o b)[Len(a) + j] = b[j]
                                /\ Len(a) + j \notin 1 .. Len(a)
      /\ \A j \in 1 .. Len(a \o b) :
            \/ j \in 1 .. Len(a)
            \/ \E k \in 1 .. Len(b) : j = Len(a) + k
  BY <1>1, Joined
<1> QED
  BY <1>1, <1>2, Zenon DEF S, a, b, Line

\* Every connection that is open has one place, in a line or on the way there.
LEMMA HandoverHolds == ASSUME InvClients PROVE HandedOver
<1>1. SUFFICES ASSUME Epoll, NEW c \in Used
      PROVE  (IF c \in backlog THEN 1 ELSE 0) + (IF accepted = c THEN 1 ELSE 0)
                + Cardinality(Places(buf_conns, c)) + Cardinality(Places(conns, c))
             = IF sock["server"][c] = "open" THEN 1 ELSE 0
  BY DEF HandedOver
<1>2. program \in BenchPrograms /\ InvBench
  BY <1>1 DEF InvClients, Epoll, BenchPrograms
<1>3. PipeType /\ ServerType /\ LinesInv /\ SocketInv
  BY <1>2 DEF InvBench, TypeBench, ServerInv
<1>4. c \in Conns /\ c # NoConn
  BY <1>2, BenchArgs DEF Used
<1>7. \A l, m \in Loops : \A j \in 1 .. Len(Line(l)), k \in 1 .. Len(Line(m)) :
          Line(l)[j] = c /\ Line(m)[k] = c => l = m /\ j = k
  BY <1>3, <1>4 DEF LinesInv
<1> DEFINE InConns == \E l \in Loops : \E j \in 1 .. Len(conns[l]) : conns[l][j] = c
           InQueue == \E l \in Loops : \E j \in 1 .. Len(buf_conns[l]) : buf_conns[l][j] = c
<1>8. Cardinality(Places(conns, c)) = IF InConns THEN 1 ELSE 0
  <2>1. ASSUME NEW l \in Loops, NEW m \in Loops, NEW j \in 1 .. Len(conns[l]),
               NEW k \in 1 .. Len(conns[m]), conns[l][j] = c, conns[m][k] = c
        PROVE  l = m /\ j = k
    <3>1. j \in 1 .. Len(Line(l)) /\ Line(l)[j] = c /\ k \in 1 .. Len(Line(m)) /\ Line(m)[k] = c
      BY <1>2, <1>3, <2>1, LineParts
    <3> QED
      BY <1>7, <3>1
  <2> QED
    BY <2>1, PlacesAre
<1>9. Cardinality(Places(buf_conns, c)) = IF InQueue THEN 1 ELSE 0
  <2>1. ASSUME NEW l \in Loops, NEW m \in Loops, NEW j \in 1 .. Len(buf_conns[l]),
               NEW k \in 1 .. Len(buf_conns[m]), buf_conns[l][j] = c, buf_conns[m][k] = c
        PROVE  l = m /\ j = k
    <3>1. /\ Len(conns[l]) + j \in 1 .. Len(Line(l)) /\ Line(l)[Len(conns[l]) + j] = c
          /\ Len(conns[m]) + k \in 1 .. Len(Line(m)) /\ Line(m)[Len(conns[m]) + k] = c
      BY <1>2, <1>3, <2>1, LineParts
    <3>2. l = m /\ Len(conns[l]) + j = Len(conns[m]) + k
      BY <1>7, <3>1
    <3>3. Len(conns[l]) \in Nat
      <4> DEFINE S == Used \cup {NoConn}
                 a == conns[l]
      <4>1. a \in Seq(S)
        BY <1>2, <1>3, LineParts
      <4> HIDE DEF S, a
      <4>2. Len(a) \in Nat
        BY <4>1, LenProperties
      <4> QED
        BY <4>2 DEF a
    <3> DEFINE n == Len(conns[l])
    <3>4. n \in Nat /\ n + j = n + k
      BY <3>2, <3>3
    <3>5. j \in Int /\ k \in Int
      OBVIOUS
    <3> HIDE DEF n
    <3> QED
      BY <3>2, <3>4, <3>5
  <2> QED
    BY <2>1, PlacesAre
<1>10. InLine(c) <=> InConns \/ InQueue
  <2>1. ASSUME NEW l \in Loops, NEW j \in 1 .. Len(Line(l)), Line(l)[j] = c PROVE InConns \/ InQueue
    <3>1. CASE j \in 1 .. Len(conns[l])
      BY <1>2, <1>3, <2>1, <3>1, LineParts
    <3>2. CASE \E k \in 1 .. Len(buf_conns[l]) : j = Len(conns[l]) + k
      <4>1. PICK k \in 1 .. Len(buf_conns[l]) : j = Len(conns[l]) + k
        BY <3>2
      <4>2. Line(l)[Len(conns[l]) + k] = buf_conns[l][k]
        BY <1>2, <1>3, LineParts
      <4>3. buf_conns[l][k] = c
        BY <2>1, <4>1, <4>2
      <4> QED
        BY <4>3
    <3> QED
      BY <1>2, <1>3, <2>1, <3>1, <3>2, LineParts
  <2>2. ASSUME InConns PROVE InLine(c)
    <3>1. PICK l \in Loops : \E j \in 1 .. Len(conns[l]) : conns[l][j] = c
      BY <2>2
    <3>2. PICK j \in 1 .. Len(conns[l]) : conns[l][j] = c
      BY <3>1
    <3>3. j \in 1 .. Len(Line(l)) /\ Line(l)[j] = c
      BY <1>2, <1>3, <3>2, LineParts
    <3> QED
      BY <3>3 DEF InLine
  <2>3. ASSUME InQueue PROVE InLine(c)
    <3>1. PICK l \in Loops : \E j \in 1 .. Len(buf_conns[l]) : buf_conns[l][j] = c
      BY <2>3
    <3>2. PICK j \in 1 .. Len(buf_conns[l]) : buf_conns[l][j] = c
      BY <3>1
    <3>3. Len(conns[l]) + j \in 1 .. Len(Line(l)) /\ Line(l)[Len(conns[l]) + j] = c
      BY <1>2, <1>3, <3>2, LineParts
    <3> QED
      BY <3>3 DEF InLine
  <2>4. InLine(c) => InConns \/ InQueue
    BY <2>1 DEF InLine
  <2> QED
    BY <2>2, <2>3, <2>4
<1>11. ~(InConns /\ InQueue)
  <2>1. SUFFICES ASSUME InConns, InQueue PROVE FALSE
    OBVIOUS
  <2>2. PICK l \in Loops : \E j \in 1 .. Len(conns[l]) : conns[l][j] = c
    BY <2>1
  <2>3. PICK j \in 1 .. Len(conns[l]) : conns[l][j] = c
    BY <2>2
  <2>4. PICK m \in Loops : \E k \in 1 .. Len(buf_conns[m]) : buf_conns[m][k] = c
    BY <2>1
  <2>5. PICK k \in 1 .. Len(buf_conns[m]) : buf_conns[m][k] = c
    BY <2>4
  <2>6. j \in 1 .. Len(Line(l)) /\ Line(l)[j] = c
    BY <1>2, <1>3, <2>3, LineParts
  <2>7. /\ Len(conns[m]) + k \in 1 .. Len(Line(m)) /\ Line(m)[Len(conns[m]) + k] = c
        /\ Len(conns[m]) + k \notin 1 .. Len(conns[m])
    BY <1>2, <1>3, <2>5, LineParts
  <2>8. l = m /\ j = Len(conns[m]) + k
    BY <1>7, <2>6, <2>7
  <2> QED
    BY <2>3, <2>7, <2>8
<1>12. /\ c \in backlog => c # accepted /\ ~InLine(c)
       /\ accepted = c => ~InLine(c)
       /\ sock["server"][c] = "open" <=> c \in backlog \/ c = accepted \/ InLine(c)
  BY <1>3, <1>4 DEF SocketInv
<1> HIDE DEF InConns, InQueue
<1> QED
  BY <1>8, <1>9, <1>10, <1>11, <1>12

\* A loop that has words of c at hand is the only one.
LEMMA InStepHolds == ASSUME InvClients PROVE InStep
<1> DEFINE Holding(c) == {l \in Loops : loop[l] = "send" /\ conns[l][cur[l]] = c}
<1>1. SUFFICES ASSUME Epoll, NEW c \in Used \ split
      PROVE  /\ Len(wire["client"][c]) + Len(wire["server"][c]) + (IF at = c THEN left ELSE 0)
                  + (IF Holding(c) = {} THEN 0 ELSE Len(held[CHOOSE l \in Holding(c) : TRUE])) <= size
             /\ c \notin alarms
  BY DEF InStep
<1>2. program \in BenchPrograms /\ InvBench
  BY <1>1 DEF InvClients, Epoll, BenchPrograms
<1>3. PipeType /\ ClientType /\ ServerType /\ PacketInv
  BY <1>2 DEF InvBench, TypeBench
<1>4. Packet(c) /\ c \in Conns /\ Left(c) \in Nat
  BY <1>2, <1>3, BenchArgs, LeftNat DEF PacketInv, Used
<1>5. wire["client"][c] \in Seq(Nat) /\ wire["server"][c] \in Seq(Nat)
  BY <1>3, <1>4 DEF PipeType, Sides
<1>6. ASSUME NEW h \in Seq(Nat), Fine(c, h)
      PROVE  Len(wire["client"][c]) + Len(wire["server"][c]) + Left(c) + Len(h) <= size
  <2>1. Len(OnWay(c, h)) + Left(c) <= size
    BY <1>6 DEF Fine, InPacket, size
  <2>2. /\ Len(OnWay(c, h)) = Len(wire["client"][c]) + Len(h) + Len(wire["server"][c])
        /\ Len(wire["client"][c]) \in Nat /\ Len(h) \in Nat /\ Len(wire["server"][c]) \in Nat
    BY <1>5, WayLength DEF OnWay
  <2>3. size \in Nat
    BY <1>2, BenchArgs DEF size
  <2> DEFINE x == Len(wire["client"][c])
             y == Len(wire["server"][c])
             n == Left(c)
             t == Len(h)
             s == size
  <2>4. x + t + y + n <= s /\ x \in Nat /\ y \in Nat /\ n \in Nat /\ t \in Nat /\ s \in Nat
    BY <1>4, <2>1, <2>2, <2>3
  <2> HIDE DEF x, y, n, t, s
  <2>5. x + y + n + t <= s
    BY <2>4
  <2> QED
    BY <2>5 DEF x, y, n, t, s
<1>7. CASE Holding(c) = {}
  <2>1. <<>> \in Seq(Nat) /\ Len(<<>>) = 0
    BY EmptySeq
  <2>2. Fine(c, <<>>)
    BY <1>4, <1>7 DEF Packet, Holds
  <2>3. Len(wire["client"][c]) + Len(wire["server"][c]) + Left(c) + 0 <= size
    BY <1>6, <2>1, <2>2
  <2> QED
    BY <1>4, <1>7, <2>3 DEF Packet, Left
<1>8. CASE Holding(c) # {}
  <2>1. PICK l \in Holding(c) : l = CHOOSE m \in Holding(c) : TRUE
    BY <1>8
  <2>2. l \in Loops /\ Holds(l, c)
    BY <2>1 DEF Holds
  <2>3. Fine(c, held[l]) /\ held[l] \in Seq(Nat)
    BY <1>3, <1>4, <2>2 DEF Packet, ServerType
  <2>4. Len(wire["client"][c]) + Len(wire["server"][c]) + Left(c) + Len(held[l]) <= size
    BY <1>6, <2>3
  <2> QED
    BY <1>4, <1>8, <2>1, <2>4 DEF Packet, Left
<1> QED
  BY <1>7, <1>8

\* A connection that the acceptor hands to a loop is neither lost nor doubled.
THEOREM Handover == SpecClients => []HandedOver
<1>1. InvClients => HandedOver
  BY HandoverHolds
<1> QED
  BY <1>1, InductiveBench, PTL

\* Client and server stay in step, packet by packet, while no packet is split.
THEOREM PacketsInStep == SpecClients => []InStep
<1>1. InvClients => InStep
  BY InStepHolds
<1> QED
  BY <1>1, InductiveBench, PTL
=============================================================================
