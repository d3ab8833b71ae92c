------------------------ MODULE QueueProcesses_proofs ------------------------
(***************************************************************************)
(* What is proved of the two programs that pass items from process to      *)
(* process: first of BoundedBlockingQueue, then of SharedQueue0.           *)
(***************************************************************************)
EXTENDS BoundedBlockingQueue, SharedQueue0, FiniteSetTheorems, SequenceTheorems, TLAPS

LEMMA AtFinite ==
    ASSUME NEW L
    PROVE  IsFiniteSet(At(L)) /\ Cardinality(At(L)) \in Nat
<1>1. IsFiniteSet(Procs)
  <2>1. IsFiniteSet(Producers) /\ IsFiniteSet(Consumers)
    BY ProcessAssumption, FS_Interval DEF Producers, Consumers
  <2> QED
    BY <2>1, FS_Union DEF Procs
<1>2. At(L) \subseteq Procs
  BY DEF At
<1> QED
  BY <1>1, <1>2, FS_Subset, FS_CardinalityType

\* A step of process t from a to b changes the number of those processes of P
\* that are at a label of L.
LEMMA PartCount ==
    ASSUME NEW Labels, pc \in [Procs -> Labels],
           NEW t \in Procs, NEW a, NEW b, Step(t, a, b), NEW L, NEW P
    PROVE  Cardinality(At(L)' \cap P) = Cardinality(At(L) \cap P)
              + (IF b \in L /\ t \in P THEN 1 ELSE 0) - (IF a \in L /\ t \in P THEN 1 ELSE 0)
<1> DEFINE before == At(L) \cap P
           after == At(L)' \cap P
<1>1. IsFiniteSet(before) /\ Cardinality(before) \in Nat
  BY AtFinite, FS_Subset, FS_CardinalityType, At(L) \cap P \subseteq At(L)
<1>2. \A s \in Procs : pc'[s] = IF s = t THEN b ELSE pc[s]
  BY DEF Step
<1>3. pc[t] = a
  BY DEF Step
<1>4. (t \notin P \/ (a \in L <=> b \in L)) => after = before
  BY <1>2, <1>3 DEF At
<1>5. t \in P /\ a \notin L /\ b \in L => after = before \cup {t} /\ t \notin before
  BY <1>2, <1>3 DEF At
<1>6. t \in P /\ a \in L /\ b \notin L => after = before \ {t} /\ t \in before
  BY <1>2, <1>3 DEF At
<1> HIDE DEF before, after
<1>7. t \in P /\ a \notin L /\ b \in L => Cardinality(after) = Cardinality(before) + 1
  BY <1>1, <1>5, FS_AddElement
<1>8. t \in P /\ a \in L /\ b \notin L => Cardinality(after) = Cardinality(before) - 1
  BY <1>1, <1>6, FS_RemoveElement
<1>9. Cardinality(after) = Cardinality(before)
          + (IF b \in L /\ t \in P THEN 1 ELSE 0) - (IF a \in L /\ t \in P THEN 1 ELSE 0)
  BY <1>1, <1>4, <1>7, <1>8
<1> QED
  BY <1>9 DEF before, after

LEMMA StepCount ==
    ASSUME NEW Labels, pc \in [Procs -> Labels],
           NEW t \in Procs, NEW a, NEW b, Step(t, a, b), NEW L
    PROVE  Cardinality(At(L)') = Cardinality(At(L))
              + (IF b \in L THEN 1 ELSE 0) - (IF a \in L THEN 1 ELSE 0)
<1>1. At(L) \cap Procs = At(L) /\ At(L)' \cap Procs = At(L)'
  BY DEF At
<1>2. Cardinality(At(L)' \cap Procs) = Cardinality(At(L) \cap Procs)
          + (IF b \in L THEN 1 ELSE 0) - (IF a \in L THEN 1 ELSE 0)
  BY PartCount
<1> QED
  BY <1>1, <1>2

------------------------------------------------------------------------------
(* bounded_blocking_queue_semaphore_mmap_unnamed1.                         *)

LEMMA TypeInit == Init => TypeOK
<1>1. Stop \in Cell /\ [author |-> 0, id |-> 0] \in Cell
  BY SizeAssumption DEF Cell, Stop
<1> QED
  BY <1>1, SizeAssumption DEF Init, TypeOK, Procs, ProducerLabel, ConsumerLabel

LEMMA TypeNext == TypeOK /\ [Next]_vars => TypeOK'
<1> SUFFICES ASSUME TypeOK, [Next]_vars
             PROVE  TypeOK'
  OBVIOUS
<1> USE SizeAssumption DEF Step, sems, ProducerLabel, ConsumerLabel, PutHold, TakeHold, PutDone, TakeDone, Procs
<1>1. CASE bbq_init
  BY <1>1 DEF TypeOK, bbq_init
<1>2. ASSUME NEW t \in Procs, Fork(t)
      PROVE  TypeOK'
  <2>1. Producers \cap Consumers = {}
    BY ProcessAssumption DEF Producers, Consumers
  <2>2. PICK l \in {"put_wait", "take_wait", "nofork"} :
           /\ pc' = [pc EXCEPT ![t] = l]
           /\ l = "put_wait" => t \in Producers
           /\ l = "take_wait" => t \in Consumers
    BY <1>2 DEF Fork
  <2> QED
    BY <1>2, <2>1, <2>2 DEF TypeOK, Fork
<1>3. CASE WaitFails \/ \E t \in Procs : WaitReturns(t)
  BY <1>3 DEF TypeOK, WaitReturns, WaitFails
<1>4. CASE bbq_destroy
  BY <1>4 DEF TypeOK, bbq_destroy
<1>5. ASSUME NEW t \in Producers, PutWaitEmpty(t)
      PROVE  TypeOK'
  BY <1>5 DEF TypeOK, PutWaitEmpty
<1>6. ASSUME NEW t \in Producers, PutLock(t)
      PROVE  TypeOK'
  BY <1>6 DEF TypeOK, PutLock
<1>7. ASSUME NEW t \in Producers, PutLoad(t)
      PROVE  TypeOK'
  BY <1>7 DEF TypeOK, PutLoad
<1>8. ASSUME NEW t \in Producers, PutStore(t)
      PROVE  TypeOK'
  BY <1>8 DEF TypeOK, PutStore
<1>9. ASSUME NEW t \in Producers, PutAuthor(t)
      PROVE  TypeOK'
  <2>1. idx[t] % queue_size \in Slots
    BY DEF TypeOK, Slots
  <2>2. Item(t, cnt[t]) \in Cell
    BY DEF TypeOK, Item, Stop, Cell
  <2>3. [que[idx[t] % queue_size] EXCEPT !.author = Item(t, cnt[t]).author] \in Cell
    BY <2>1, <2>2 DEF TypeOK, Cell
  <2>4. que' \in [Slots -> Cell]
    BY <1>9, <2>1, <2>3 DEF TypeOK, PutAuthor
  <2> QED
    BY <1>9, <2>4 DEF TypeOK, PutAuthor
<1>10. ASSUME NEW t \in Producers, PutId(t)
      PROVE  TypeOK'
  <2>1. idx[t] % queue_size \in Slots
    BY DEF TypeOK, Slots
  <2>2. Item(t, cnt[t]) \in Cell
    BY DEF TypeOK, Item, Stop, Cell
  <2>3. [que[idx[t] % queue_size] EXCEPT !.id = Item(t, cnt[t]).id] \in Cell
    BY <2>1, <2>2 DEF TypeOK, Cell
  <2>4. que' \in [Slots -> Cell]
    BY <1>10, <2>1, <2>3 DEF TypeOK, PutId
  <2> QED
    BY <1>10, <2>4 DEF TypeOK, PutId
<1>11. ASSUME NEW t \in Producers, PutUnlock(t)
      PROVE  TypeOK'
  BY <1>11 DEF TypeOK, PutUnlock
<1>12. ASSUME NEW t \in Producers, PutPostFull(t)
      PROVE  TypeOK'
  BY <1>12 DEF TypeOK, PutPostFull
<1>13. ASSUME NEW t \in Consumers, TakeWaitFull(t)
      PROVE  TypeOK'
  BY <1>13 DEF TypeOK, TakeWaitFull
<1>14. ASSUME NEW t \in Consumers, TakeLock(t)
      PROVE  TypeOK'
  BY <1>14 DEF TypeOK, TakeLock
<1>15. ASSUME NEW t \in Consumers, TakeLoad(t)
      PROVE  TypeOK'
  BY <1>15 DEF TypeOK, TakeLoad
<1>16. ASSUME NEW t \in Consumers, TakeStore(t)
      PROVE  TypeOK'
  BY <1>16 DEF TypeOK, TakeStore
<1>17. ASSUME NEW t \in Consumers, TakeAuthor(t)
      PROVE  TypeOK'
  <2>1. que[idx[t] % queue_size] \in Cell
    BY DEF TypeOK, Slots
  <2>2. [node[t] EXCEPT !.author = que[idx[t] % queue_size].author] \in Cell
    BY <2>1 DEF TypeOK, Cell
  <2>3. node' \in [Consumers -> Cell]
    BY <1>17, <2>2 DEF TypeOK, TakeAuthor
  <2> QED
    BY <1>17, <2>3 DEF TypeOK, TakeAuthor
<1>18. ASSUME NEW t \in Consumers, TakeId(t)
      PROVE  TypeOK'
  <2>1. que[idx[t] % queue_size] \in Cell
    BY DEF TypeOK, Slots
  <2>2. [node[t] EXCEPT !.id = que[idx[t] % queue_size].id] \in Cell
    BY <2>1 DEF TypeOK, Cell
  <2>3. node' \in [Consumers -> Cell]
    BY <1>18, <2>2 DEF TypeOK, TakeId
  <2> QED
    BY <1>18, <2>3 DEF TypeOK, TakeId
<1>19. ASSUME NEW t \in Consumers, TakeUnlock(t)
      PROVE  TypeOK'
  BY <1>19 DEF TypeOK, TakeUnlock
<1>20. ASSUME NEW t \in Consumers, TakePostEmpty(t)
      PROVE  TypeOK'
  BY <1>20 DEF TypeOK, TakePostEmpty
<1>21. CASE UNCHANGED vars
  BY <1>21 DEF TypeOK, vars
<1> QED
  BY <1>1, <1>2, <1>3, <1>4, <1>5, <1>6, <1>7, <1>8, <1>9, <1>10, <1>11, <1>12, <1>13, <1>14, <1>15, <1>16, <1>17, <1>18, <1>19, <1>20, <1>21 DEF Next, Parent, Producer, Consumer

\* TypeOK holds for any number of processes, items and slots.
THEOREM TypeCorrect == Spec => []TypeOK
BY TypeInit, TypeNext, PTL DEF Spec

------------------------------------------------------------------------------
(* Counting the processes in each part of the program.                     *)

nCritical == Cardinality(At(Critical))
nPut == Cardinality(At(PutHold))
nTake == Cardinality(At(TakeHold))
nPutDone == Cardinality(At(PutDone))
nTakeLeft == Cardinality(At(TakeHold \ TakeDone))

In(l, L) == IF l \in L THEN 1 ELSE 0

\* How a step of child t from a to b changes the five counts of IInv.
LEMMA Counts ==
    ASSUME TypeOK, NEW t \in Procs, NEW a, NEW b, Step(t, a, b)
    PROVE  /\ nCritical' = nCritical + In(b, Critical) - In(a, Critical)
           /\ nPut' = nPut + In(b, PutHold) - In(a, PutHold)
           /\ nTake' = nTake + In(b, TakeHold) - In(a, TakeHold)
           /\ nPutDone' = nPutDone + In(b, PutDone) - In(a, PutDone)
           /\ nTakeLeft' = nTakeLeft + In(b, TakeHold \ TakeDone) - In(a, TakeHold \ TakeDone)
<1>1. pc \in [Procs -> ProducerLabel \cup ConsumerLabel]
  BY DEF TypeOK
<1> QED
  BY <1>1, StepCount DEF nCritical, nPut, nTake, nPutDone, nTakeLeft, In

\* The counts are numbers; none is counted before the first fork.
LEMMA CountTypes ==
    /\ nCritical \in Nat /\ nPut \in Nat /\ nTake \in Nat
    /\ nPutDone \in Nat /\ nTakeLeft \in Nat
    /\ pc = [t \in Procs |-> "unborn"] =>
          nCritical = 0 /\ nPut = 0 /\ nTake = 0 /\ nPutDone = 0 /\ nTakeLeft = 0
<1> USE DEF nCritical, nPut, nTake, nPutDone, nTakeLeft
<1>1. ASSUME pc = [t \in Procs |-> "unborn"], NEW L, "unborn" \notin L
      PROVE  Cardinality(At(L)) = 0
  BY <1>1, FS_EmptySet DEF At
<1>2. /\ "unborn" \notin Critical /\ "unborn" \notin PutHold /\ "unborn" \notin TakeHold
      /\ "unborn" \notin PutDone /\ "unborn" \notin TakeHold \ TakeDone
  BY DEF Critical, PutHold, TakeHold, PutDone, TakeDone
<1> QED
  BY <1>1, <1>2, AtFinite

\* A process in the critical section is the only one there.
LEMMA Alone ==
    ASSUME TypeOK, StartInv, MutexCount
    PROVE  MutualExclusion
<1>1. SUFFICES ASSUME NEW s \in At(Critical), NEW t \in At(Critical)
               PROVE  s = t
  BY DEF MutualExclusion
<1>2. parent # "start"
  BY <1>1 DEF StartInv, At, Critical, PutHold, TakeHold, PutDone, TakeDone
<1>3. IsFiniteSet(At(Critical)) /\ Cardinality(At(Critical)) \in Nat
  BY AtFinite
<1>4. Cardinality(At(Critical)) # 0
  BY <1>1, <1>3, FS_EmptySet
<1>5. Cardinality(At(Critical)) = 1
  BY <1>2, <1>3, <1>4 DEF MutexCount, TypeOK
<1>6. PICK x : At(Critical) = {x}
  BY <1>3, <1>5, FS_Singleton
<1> QED
  BY <1>1, <1>6

\* A child has been forked, so the queue was initialised.
LEMMA Started ==
    ASSUME StartInv, NEW t \in Procs, pc[t] # "unborn"
    PROVE  parent # "start"
BY DEF StartInv

\* MutexCount, CreditsConserved and StoredCount, in terms of the counts.
CountInv ==
    /\ parent # "start" => mutex + nCritical = 1
    /\ parent # "start" => empty + full + nPut + nTake = queue_size
    /\ p - f = full + nPutDone + nTakeLeft

LEMMA CountInvMeaning == CountInv <=> MutexCount /\ CreditsConserved /\ StoredCount
BY DEF CountInv, MutexCount, CreditsConserved, StoredCount,
       nCritical, nPut, nTake, nPutDone, nTakeLeft

------------------------------------------------------------------------------
(* The inductive invariant.                                                *)

LEMMA InitInv == Init => IInv
<1> SUFFICES ASSUME Init PROVE IInv
  OBVIOUS
<1>1. TypeOK
  BY TypeInit
<1>2. CountInv
  BY CountTypes DEF Init, CountInv
<1> QED
  BY <1>1, <1>2, CountInvMeaning DEF Init, IInv, StartInv, IndexInv, WaitedInv

\* Only bbq_init leaves the start; a child that was waited for has ended.
LEMMA NextStart == IInv /\ [Next]_vars => StartInv' /\ WaitedInv'
<1> SUFFICES ASSUME IInv, [Next]_vars
             PROVE  StartInv' /\ WaitedInv'
  OBVIOUS
<1>1. TypeOK /\ StartInv /\ WaitedInv
  BY DEF IInv
<1>2. CASE Parent
  BY <1>1, <1>2 DEF Parent, bbq_init, Fork, WaitReturns, WaitFails, bbq_destroy, StartInv,
                    WaitedInv, At, Step, TypeOK
<1>3. ASSUME NEW t \in Procs, NEW a, NEW b, Step(t, a, b), UNCHANGED <<parent, reaped>>,
             a \notin {"unborn", "nofork", "exited"}
      PROVE  StartInv' /\ WaitedInv'
  BY <1>1, <1>3 DEF StartInv, WaitedInv, At, Step, TypeOK
<1>4. ASSUME NEW t \in Producers, Producer(t)
      PROVE  StartInv' /\ WaitedInv'
  BY <1>3, <1>4 DEF Procs, Producer, PutWaitEmpty, PutLock, PutLoad, PutStore, PutAuthor, PutId, PutUnlock, PutPostFull
<1>5. ASSUME NEW t \in Consumers, Consumer(t)
      PROVE  StartInv' /\ WaitedInv'
  BY <1>3, <1>5 DEF Procs, Consumer, TakeWaitFull, TakeLock, TakeLoad, TakeStore, TakeAuthor, TakeId, TakeUnlock, TakePostEmpty
<1>6. CASE UNCHANGED vars
  BY <1>1, <1>6 DEF vars, StartInv, WaitedInv, At
<1> QED
  BY <1>2, <1>4, <1>5, <1>6 DEF Next

LEMMA NextCounts == IInv /\ [Next]_vars => CountInv'
<1> SUFFICES ASSUME IInv, [Next]_vars
             PROVE  CountInv'
  OBVIOUS
<1>a. TypeOK /\ StartInv /\ CountInv
  BY CountInvMeaning DEF IInv
<1>b. /\ nCritical \in Nat /\ nPut \in Nat /\ nTake \in Nat
      /\ nPutDone \in Nat /\ nTakeLeft \in Nat
  BY CountTypes
<1>c. /\ mutex \in Nat /\ empty \in Nat /\ full \in Nat
      /\ p \in Nat /\ f \in Nat /\ queue_size \in Nat
  BY <1>a, SizeAssumption DEF TypeOK
<1>d. ASSUME UNCHANGED pc
      PROVE  UNCHANGED <<nCritical, nPut, nTake, nPutDone, nTakeLeft>>
  BY <1>d DEF nCritical, nPut, nTake, nPutDone, nTakeLeft, At
<1>e. Producers \subseteq Procs /\ Consumers \subseteq Procs
  BY DEF Procs
<1> USE DEF In, Critical, PutHold, TakeHold, PutDone, TakeDone
<1>1. CASE bbq_init
  <2>1. nCritical = 0 /\ nPut = 0 /\ nTake = 0 /\ nPutDone = 0 /\ nTakeLeft = 0
    BY <1>1, <1>a, CountTypes DEF bbq_init, StartInv
  <2> QED
    BY <1>1, <1>c, <1>d, <2>1 DEF bbq_init, CountInv
<1>2. ASSUME NEW t \in Procs, Fork(t)
      PROVE  CountInv'
  <2>1. PICK l \in {"put_wait", "take_wait", "nofork"} : Step(t, "unborn", l)
    BY <1>2 DEF Fork
  <2>2. UNCHANGED <<nCritical, nPut, nTake, nPutDone, nTakeLeft>>
    BY <1>a, <1>b, <2>1, Counts
  <2> QED
    BY <1>2, <1>a, <2>2 DEF Fork, CountInv, sems
<1>3. CASE WaitFails \/ bbq_destroy \/ \E t \in Procs : WaitReturns(t)
  BY <1>3, <1>a, <1>d DEF WaitReturns, WaitFails, bbq_destroy, CountInv, sems
<1>4. ASSUME NEW t \in Producers, PutWaitEmpty(t)
      PROVE  CountInv'
  <2>1. Step(t, "put_wait", "put_lock") /\ parent # "start"
    BY <1>4, <1>a, <1>e, Started DEF PutWaitEmpty, Step
  <2>2. /\ nPut' = nPut + 1
        /\ UNCHANGED <<nCritical, nTake, nPutDone, nTakeLeft>>
    BY <1>a, <1>b, <1>e, <2>1, Counts
  <2> QED
    BY <1>4, <1>a, <1>b, <1>c, <2>1, <2>2 DEF PutWaitEmpty, CountInv, sems
<1>5. ASSUME NEW t \in Producers, PutLock(t)
      PROVE  CountInv'
  <2>1. Step(t, "put_lock", "put_load") /\ parent # "start"
    BY <1>5, <1>a, <1>e, Started DEF PutLock, Step
  <2>2. /\ nCritical' = nCritical + 1
        /\ UNCHANGED <<nPut, nTake, nPutDone, nTakeLeft>>
    BY <1>a, <1>b, <1>e, <2>1, Counts
  <2> QED
    BY <1>5, <1>a, <1>b, <1>c, <2>1, <2>2 DEF PutLock, CountInv, sems
<1>6. ASSUME NEW t \in Producers, PutLoad(t)
      PROVE  CountInv'
  <2>1. Step(t, "put_load", "put_store") /\ parent # "start"
    BY <1>6, <1>a, <1>e, Started DEF PutLoad, Step
  <2>2. /\ UNCHANGED <<nCritical, nPut, nTake, nPutDone, nTakeLeft>>
    BY <1>a, <1>b, <1>e, <2>1, Counts
  <2> QED
    BY <1>6, <1>a, <1>b, <1>c, <2>1, <2>2 DEF PutLoad, CountInv, sems
<1>7. ASSUME NEW t \in Producers, PutStore(t)
      PROVE  CountInv'
  <2>1. Step(t, "put_store", "put_author") /\ parent # "start"
    BY <1>7, <1>a, <1>e, Started DEF PutStore, Step
  <2>2. /\ nPutDone' = nPutDone + 1
        /\ UNCHANGED <<nCritical, nPut, nTake, nTakeLeft>>
    BY <1>a, <1>b, <1>e, <2>1, Counts
  <2>3. idx[t] = p
    BY <1>e, <2>1 DEF IInv, IndexInv, Step
  <2> QED
    BY <1>7, <1>a, <1>b, <1>c, <2>1, <2>2, <2>3 DEF PutStore, CountInv, sems
<1>8. ASSUME NEW t \in Producers, PutAuthor(t)
      PROVE  CountInv'
  <2>1. Step(t, "put_author", "put_id") /\ parent # "start"
    BY <1>8, <1>a, <1>e, Started DEF PutAuthor, Step
  <2>2. /\ UNCHANGED <<nCritical, nPut, nTake, nPutDone, nTakeLeft>>
    BY <1>a, <1>b, <1>e, <2>1, Counts
  <2> QED
    BY <1>8, <1>a, <1>b, <1>c, <2>1, <2>2 DEF PutAuthor, CountInv, sems
<1>9. ASSUME NEW t \in Producers, PutId(t)
      PROVE  CountInv'
  <2>1. Step(t, "put_id", "put_unlock") /\ parent # "start"
    BY <1>9, <1>a, <1>e, Started DEF PutId, Step
  <2>2. /\ UNCHANGED <<nCritical, nPut, nTake, nPutDone, nTakeLeft>>
    BY <1>a, <1>b, <1>e, <2>1, Counts
  <2> QED
    BY <1>9, <1>a, <1>b, <1>c, <2>1, <2>2 DEF PutId, CountInv, sems
<1>10. ASSUME NEW t \in Producers, PutUnlock(t)
      PROVE  CountInv'
  <2>1. Step(t, "put_unlock", "put_post") /\ parent # "start"
    BY <1>10, <1>a, <1>e, Started DEF PutUnlock, Step
  <2>2. /\ nCritical' = nCritical - 1
        /\ UNCHANGED <<nPut, nTake, nPutDone, nTakeLeft>>
    BY <1>a, <1>b, <1>e, <2>1, Counts
  <2> QED
    BY <1>10, <1>a, <1>b, <1>c, <2>1, <2>2 DEF PutUnlock, CountInv, sems
<1>11. ASSUME NEW t \in Producers, PutPostFull(t)
      PROVE  CountInv'
  <2>1. PICK l \in {"put_wait", "exited"} : Step(t, "put_post", l) /\ parent # "start"
    BY <1>11, <1>a, <1>e, Started DEF PutPostFull, Step
  <2>2. /\ nPut' = nPut - 1
        /\ nPutDone' = nPutDone - 1
        /\ UNCHANGED <<nCritical, nTake, nTakeLeft>>
    BY <1>a, <1>b, <1>e, <2>1, Counts
  <2> QED
    BY <1>11, <1>a, <1>b, <1>c, <2>1, <2>2 DEF PutPostFull, CountInv, sems
<1>12. ASSUME NEW t \in Consumers, TakeWaitFull(t)
      PROVE  CountInv'
  <2>1. Step(t, "take_wait", "take_lock") /\ parent # "start"
    BY <1>12, <1>a, <1>e, Started DEF TakeWaitFull, Step
  <2>2. /\ nTake' = nTake + 1
        /\ nTakeLeft' = nTakeLeft + 1
        /\ UNCHANGED <<nCritical, nPut, nPutDone>>
    BY <1>a, <1>b, <1>e, <2>1, Counts
  <2> QED
    BY <1>12, <1>a, <1>b, <1>c, <2>1, <2>2 DEF TakeWaitFull, CountInv, sems
<1>13. ASSUME NEW t \in Consumers, TakeLock(t)
      PROVE  CountInv'
  <2>1. Step(t, "take_lock", "take_load") /\ parent # "start"
    BY <1>13, <1>a, <1>e, Started DEF TakeLock, Step
  <2>2. /\ nCritical' = nCritical + 1
        /\ UNCHANGED <<nPut, nTake, nPutDone, nTakeLeft>>
    BY <1>a, <1>b, <1>e, <2>1, Counts
  <2> QED
    BY <1>13, <1>a, <1>b, <1>c, <2>1, <2>2 DEF TakeLock, CountInv, sems
<1>14. ASSUME NEW t \in Consumers, TakeLoad(t)
      PROVE  CountInv'
  <2>1. Step(t, "take_load", "take_store") /\ parent # "start"
    BY <1>14, <1>a, <1>e, Started DEF TakeLoad, Step
  <2>2. /\ UNCHANGED <<nCritical, nPut, nTake, nPutDone, nTakeLeft>>
    BY <1>a, <1>b, <1>e, <2>1, Counts
  <2> QED
    BY <1>14, <1>a, <1>b, <1>c, <2>1, <2>2 DEF TakeLoad, CountInv, sems
<1>15. ASSUME NEW t \in Consumers, TakeStore(t)
      PROVE  CountInv'
  <2>1. Step(t, "take_store", "take_author") /\ parent # "start"
    BY <1>15, <1>a, <1>e, Started DEF TakeStore, Step
  <2>2. /\ nTakeLeft' = nTakeLeft - 1
        /\ UNCHANGED <<nCritical, nPut, nTake, nPutDone>>
    BY <1>a, <1>b, <1>e, <2>1, Counts
  <2>3. idx[t] = f
    BY <1>e, <2>1 DEF IInv, IndexInv, Step
  <2> QED
    BY <1>15, <1>a, <1>b, <1>c, <2>1, <2>2, <2>3 DEF TakeStore, CountInv, sems
<1>16. ASSUME NEW t \in Consumers, TakeAuthor(t)
      PROVE  CountInv'
  <2>1. Step(t, "take_author", "take_id") /\ parent # "start"
    BY <1>16, <1>a, <1>e, Started DEF TakeAuthor, Step
  <2>2. /\ UNCHANGED <<nCritical, nPut, nTake, nPutDone, nTakeLeft>>
    BY <1>a, <1>b, <1>e, <2>1, Counts
  <2> QED
    BY <1>16, <1>a, <1>b, <1>c, <2>1, <2>2 DEF TakeAuthor, CountInv, sems
<1>17. ASSUME NEW t \in Consumers, TakeId(t)
      PROVE  CountInv'
  <2>1. Step(t, "take_id", "take_unlock") /\ parent # "start"
    BY <1>17, <1>a, <1>e, Started DEF TakeId, Step
  <2>2. /\ UNCHANGED <<nCritical, nPut, nTake, nPutDone, nTakeLeft>>
    BY <1>a, <1>b, <1>e, <2>1, Counts
  <2> QED
    BY <1>17, <1>a, <1>b, <1>c, <2>1, <2>2 DEF TakeId, CountInv, sems
<1>18. ASSUME NEW t \in Consumers, TakeUnlock(t)
      PROVE  CountInv'
  <2>1. Step(t, "take_unlock", "take_post") /\ parent # "start"
    BY <1>18, <1>a, <1>e, Started DEF TakeUnlock, Step
  <2>2. /\ nCritical' = nCritical - 1
        /\ UNCHANGED <<nPut, nTake, nPutDone, nTakeLeft>>
    BY <1>a, <1>b, <1>e, <2>1, Counts
  <2> QED
    BY <1>18, <1>a, <1>b, <1>c, <2>1, <2>2 DEF TakeUnlock, CountInv, sems
<1>19. ASSUME NEW t \in Consumers, TakePostEmpty(t)
      PROVE  CountInv'
  <2>1. PICK l \in {"take_wait", "exited"} : Step(t, "take_post", l) /\ parent # "start"
    BY <1>19, <1>a, <1>e, Started DEF TakePostEmpty, Step
  <2>2. /\ nTake' = nTake - 1
        /\ UNCHANGED <<nCritical, nPut, nPutDone, nTakeLeft>>
    BY <1>a, <1>b, <1>e, <2>1, Counts
  <2> QED
    BY <1>19, <1>a, <1>b, <1>c, <2>1, <2>2 DEF TakePostEmpty, CountInv, sems
<1>20. CASE UNCHANGED vars
  BY <1>20, <1>a, <1>d DEF vars, CountInv
<1> QED
  BY <1>1, <1>2, <1>3, <1>4, <1>5, <1>6, <1>7, <1>8, <1>9, <1>10, <1>11, <1>12, <1>13, <1>14, <1>15, <1>16, <1>17, <1>18, <1>19, <1>20 DEF Next, Parent, Producer, Consumer

LEMMA NextIndex == IInv /\ [Next]_vars => IndexInv'
<1> SUFFICES ASSUME IInv, [Next]_vars
             PROVE  IndexInv'
  OBVIOUS
<1>a. TypeOK /\ StartInv /\ IndexInv /\ MutualExclusion
  BY Alone DEF IInv
<1>b. p \in Nat /\ f \in Nat /\ idx \in [Procs -> Nat]
      /\ pc \in [Procs -> ProducerLabel \cup ConsumerLabel]
  BY <1>a DEF TypeOK
<1>1. CASE Parent
  BY <1>1, <1>a, <1>b DEF Parent, bbq_init, Fork, WaitReturns, WaitFails, bbq_destroy, Step, sems,
                          StartInv, IndexInv
\* A step outside of the load and the store of the counter changes neither
\* counter and loads nothing.
<1>2. ASSUME NEW t \in Procs, NEW a, NEW b, Step(t, a, b), UNCHANGED <<p, f, idx>>,
             b \notin {"put_store", "put_author", "take_store", "take_author"},
             b = "put_id" => a = "put_author",
             b = "take_id" => a = "take_author"
      PROVE  IndexInv'
  BY <1>2, <1>a, <1>b DEF IndexInv, Step
<1>3. ASSUME NEW t \in Procs, PutLoad(t) \/ TakeLoad(t)
      PROVE  IndexInv'
  BY <1>3, <1>a, <1>b DEF IndexInv, PutLoad, TakeLoad, Step, sems
\* Nobody else is in the critical section to see the counter move.
<1>4. ASSUME NEW t \in Procs, PutStore(t) \/ TakeStore(t)
      PROVE  IndexInv'
  <2>1. t \in At(Critical)
    BY <1>4 DEF PutStore, TakeStore, Step, At, Critical, PutHold, TakeHold
  <2>2. \A s \in Procs : s # t => pc[s] \notin Critical /\ pc'[s] = pc[s]
    BY <1>4, <1>a, <1>b, <2>1 DEF MutualExclusion, At, PutStore, TakeStore, Step
  <2>3. ASSUME NEW s \in Procs, s # t
        PROVE  pc'[s] \notin {"put_store", "put_author", "put_id",
                              "take_store", "take_author", "take_id"}
    BY <2>2, <2>3 DEF Critical, PutHold, TakeHold, PutDone, TakeDone
  <2>4. CASE PutStore(t)
    <3>1. p' = p + 1 /\ pc'[t] = "put_author" /\ idx'[t] = p' - 1
      BY <2>4, <1>a, <1>b DEF IndexInv, PutStore, Step
    <3> QED
      BY <2>3, <3>1 DEF IndexInv
  <2>5. CASE TakeStore(t)
    <3>1. f' = f + 1 /\ pc'[t] = "take_author" /\ idx'[t] = f' - 1
      BY <2>5, <1>a, <1>b DEF IndexInv, TakeStore, Step
    <3> QED
      BY <2>3, <3>1 DEF IndexInv
  <2> QED
    BY <1>4, <2>4, <2>5
<1>5. ASSUME NEW t \in Producers, Producer(t)
      PROVE  IndexInv'
  BY <1>2, <1>3, <1>4, <1>5 DEF Procs, sems, Producer, PutWaitEmpty, PutLock, PutAuthor, PutId,
                                PutUnlock, PutPostFull
<1>6. ASSUME NEW t \in Consumers, Consumer(t)
      PROVE  IndexInv'
  BY <1>2, <1>3, <1>4, <1>6 DEF Procs, sems, Consumer, TakeWaitFull, TakeLock, TakeAuthor, TakeId,
                                TakeUnlock, TakePostEmpty
<1>7. CASE UNCHANGED vars
  BY <1>7, <1>a DEF vars, IndexInv
<1> QED
  BY <1>1, <1>5, <1>6, <1>7 DEF Next

LEMMA InductiveStep == IInv /\ [Next]_vars => IInv'
<1> SUFFICES ASSUME IInv, [Next]_vars PROVE IInv'
  OBVIOUS
<1>1. (CountInv <=> MutexCount /\ CreditsConserved /\ StoredCount)'
  BY DEF CountInv, MutexCount, CreditsConserved, StoredCount,
         nCritical, nPut, nTake, nPutDone, nTakeLeft
<1> QED
  BY <1>1, TypeNext, NextStart, NextCounts, NextIndex DEF IInv

THEOREM Inductive == Spec => []IInv
BY InductiveStep, InitInv, PTL DEF Spec

------------------------------------------------------------------------------
(* The slots of the ring, by the remainder.                                *)

\* A number is a multiple of n plus its remainder.
LEMMA Division ==
    ASSUME NEW n \in Nat \ {0}, NEW j \in Nat
    PROVE  \E q \in Nat : j = n * q + (j % n)
<1> DEFINE q == j \div n
           r == j - n * q
<1>1. q \in Int /\ n * q <= j /\ j < n * q + n
  OBVIOUS
<1>2. q \in Nat
  <2>1. SUFFICES ASSUME q <= -1 PROVE FALSE
    BY <1>1
  <2>2. n * q <= -n
    BY <1>1, <2>1
  <2> QED
    BY <1>1, <2>2
<1>3. r \in 0 .. n - 1 /\ j = n * q + r
  BY <1>1
<1> HIDE DEF q, r
<1>4. j % n = r
  BY <1>2, <1>3
<1> QED
  BY <1>2, <1>3, <1>4

\* Two different counters less than a turn apart are in different slots.
LEMMA ModWindow ==
    ASSUME NEW n \in Nat \ {0}, NEW j \in Nat, NEW k \in Nat,
           j < k, k < j + n
    PROVE  j % n # k % n
<1>1. PICK a \in Nat : j = n * a + (j % n)
  BY Division
<1>2. PICK b \in Nat : k = n * b + (k % n)
  BY Division
<1>3. SUFFICES ASSUME j % n = k % n PROVE FALSE
  OBVIOUS
<1>4. k - j = n * (b - a)
  BY <1>1, <1>2, <1>3
<1>5. b - a >= 1
  BY <1>4
<1>6. n * (b - a) >= n
  BY <1>5
<1> QED
  BY <1>4, <1>6

------------------------------------------------------------------------------
(* What follows from it.                                                   *)

\* Between sem_wait(&mutex) and sem_post(&mutex) a process is alone.
THEOREM Exclusion == Spec => []MutualExclusion
<1>1. IInv => MutualExclusion
  BY Alone DEF IInv
<1> QED
  BY <1>1, Inductive, PTL

\* Every slot is accounted for by empty, full or one unfinished call.
THEOREM Credits == Spec => []CreditsConserved
<1>1. IInv => CreditsConserved
  BY DEF IInv
<1> QED
  BY <1>1, Inductive, PTL

\* The counters stay within one turn of the ring.
LEMMA SlotsApart == ASSUME IInv PROVE SlotSafety
<1>1. /\ TypeOK /\ IndexInv /\ CountInv /\ StartInv
      /\ nPut \in Nat /\ nTake \in Nat /\ nPutDone \in Nat /\ nTakeLeft \in Nat
  BY CountInvMeaning, CountTypes DEF IInv
<1>2. p \in Nat /\ f \in Nat /\ full \in Nat /\ empty \in Nat /\ queue_size \in Nat \ {0}
      /\ idx \in [Procs -> Nat]
  BY <1>1, SizeAssumption DEF TypeOK
\* Counting subsets: a put that advanced p is a put under way, and so on.
<1>3. nPutDone <= nPut /\ nTakeLeft <= nTake
  <2>1. At(PutDone) \subseteq At(PutHold) /\ At(TakeHold \ TakeDone) \subseteq At(TakeHold)
    BY DEF At, PutHold
  <2> QED
    BY <2>1, AtFinite, FS_Subset DEF nPutDone, nPut, nTakeLeft, nTake
<1>4. ASSUME NEW t \in At({"put_author", "put_id"})
      PROVE  idx[t] = p - 1 /\ p <= f + queue_size
  <2>1. t \in Procs /\ pc[t] # "unborn" /\ idx[t] = p - 1
    BY <1>1 DEF At, IndexInv
  <2> QED
    BY <2>1, <1>1, <1>2, <1>3, Started DEF CountInv
<1>5. ASSUME NEW t \in At({"take_author", "take_id"})
      PROVE  idx[t] = f - 1 /\ p <= f - 1 + queue_size
  <2>1. t \in Procs /\ pc[t] # "unborn" /\ idx[t] = f - 1
    BY <1>1 DEF At, IndexInv
  <2>2. nTakeLeft < nTake
    <3>1. At(TakeHold \ TakeDone) \subseteq At(TakeHold) /\ t \in At(TakeHold)
          /\ t \notin At(TakeHold \ TakeDone)
      BY <1>5 DEF At, TakeHold, TakeDone
    <3>2. nTakeLeft # nTake
      BY <3>1, AtFinite, FS_Subset DEF nTakeLeft, nTake
    <3> QED
      BY <1>1, <1>3, <3>2
  <2> QED
    BY <2>1, <2>2, <1>1, <1>2, <1>3, Started DEF CountInv
<1>6. ASSUME NEW t \in At({"put_author", "put_id"}), NEW k \in f .. p - 1, k # idx[t]
      PROVE  k % queue_size # idx[t] % queue_size
  <2>1. k \in Nat /\ idx[t] \in Nat /\ k < idx[t] /\ idx[t] < k + queue_size
    BY <1>2, <1>4, <1>6 DEF At
  <2> QED
    BY <2>1, <1>2, ModWindow
<1>7. ASSUME NEW t \in At({"take_author", "take_id"})
      PROVE  idx[t] \notin f .. p - 1
  BY <1>2, <1>5, <1>7
<1>8. ASSUME NEW t \in At({"take_author", "take_id"}), NEW k \in f .. p - 1
      PROVE  k % queue_size # idx[t] % queue_size
  <2>1. k \in Nat /\ idx[t] \in Nat /\ idx[t] < k /\ k < idx[t] + queue_size
    BY <1>2, <1>5, <1>8 DEF At
  <2> QED
    BY <2>1, <1>2, ModWindow
<1> QED
  BY <1>6, <1>7, <1>8 DEF SlotSafety

\* No put overwrites an item that is still to be taken, no take reads a slot
\* that holds another item.
THEOREM Slots_Safe == Spec => []SlotSafety
<1>1. IInv => SlotSafety
  BY SlotsApart
<1> QED
  BY <1>1, Inductive, PTL

\* The loop over wait() ends when every child has, and then nothing of the
\* queue is in anybody's hands: a finished call of bbq_put or bbq_take has
\* released the mutex and passed its credit on.
LEMMA NobodyLeft == IInv => DestroyedUnused
<1> SUFFICES ASSUME IInv, parent \in {"destroy", "destroyed"}
             PROVE  /\ At({"nofork", "exited"}) = Procs
                    /\ mutex = 1
                    /\ empty + full = queue_size
                    /\ full = p - f
  BY DEF DestroyedUnused
<1>1. TypeOK /\ WaitedInv /\ CountInv
  BY CountInvMeaning DEF IInv
<1>2. \A t \in Procs : pc[t] \in {"nofork", "exited"}
  BY <1>1 DEF WaitedInv, At
<1>3. At({"nofork", "exited"}) = Procs
  BY <1>2 DEF At
<1>4. /\ At(Critical) = {} /\ At(PutHold) = {} /\ At(TakeHold) = {}
      /\ At(PutDone) = {} /\ At(TakeHold \ TakeDone) = {}
  BY <1>2 DEF At, Critical, PutHold, TakeHold, PutDone, TakeDone
<1>5. nCritical = 0 /\ nPut = 0 /\ nTake = 0 /\ nPutDone = 0 /\ nTakeLeft = 0
  BY <1>4, FS_EmptySet DEF nCritical, nPut, nTake, nPutDone, nTakeLeft
<1>6. mutex = 1 /\ empty + full = queue_size /\ full = p - f
  <2>1. mutex \in Nat /\ empty \in Nat /\ full \in Nat /\ p \in Nat /\ f \in Nat
        /\ queue_size \in Nat
    BY <1>1, SizeAssumption DEF TypeOK
  <2> QED
    BY <1>1, <1>5, <2>1 DEF CountInv
<1> QED
  BY <1>3, <1>6

\* When bbq_destroy runs, every child has ended, the mutex is free, and all
\* credits are back, however the calls of the children interleaved and
\* whichever forks failed.
THEOREM DestroyedLast == Spec => []DestroyedUnused
<1>1. IInv => DestroyedUnused
  BY NobodyLeft
<1> QED
  BY <1>1, Inductive, PTL

------------------------------------------------------------------------------
(* The contents of the queue: positions First .. Last - 1 of the ring, and  *)
(* the invariant on which the refinement rests.                            *)

Held == First .. Last - 1
nPutting == Cardinality(BeingPut)
nTaking == Cardinality(BeingTaken)

LastAuthor(s) == s[Len(s)].author

\* Where a child is in its loop, and what the first of two words is worth.
ChildInv ==
    /\ \A t \in Producers :
          /\ IF pc[t] = "exited" THEN cnt[t] = item_num + 1 ELSE cnt[t] <= item_num
          /\ pc[t] \in {"unborn", "nofork"} => cnt[t] = 0
          /\ pc[t] = "put_id" => ItemAt(idx[t]).author = Item(t, cnt[t]).author
    /\ \A c \in Consumers :
          /\ pc[c] = "take_id" => node[c].author = ItemAt(idx[c]).author
          /\ pc[c] = "exited" <=> taken[c] # <<>> /\ LastAuthor(taken[c]) = -1
          /\ pc[c] \in {"unborn", "nofork"} => taken[c] = <<>>

EmptyInv == parent = "start" => f = 0 /\ p = 0

\* IInv says who may be where; ChildInv adds what he has done so far.
RInv == IInv /\ ChildInv /\ EmptyInv

\* At most one child copies a node, and it copies at the counter's last value.
LEMMA Copying ==
    ASSUME IInv
    PROVE  /\ nPutting \in Nat /\ nTaking \in Nat
           /\ \A t \in Procs : pc[t] \in {"put_author", "put_id"} =>
                 nPutting = 1 /\ nTaking = 0 /\ idx[t] = Last
           /\ \A t \in Procs : pc[t] \in {"take_author", "take_id"} =>
                 nPutting = 0 /\ nTaking = 1 /\ idx[t] = First
           /\ \A t \in Procs : pc[t] \in {"put_load", "put_store", "take_load", "take_store"} =>
                 nPutting = 0 /\ nTaking = 0
<1>1. MutualExclusion
  BY Alone DEF IInv
<1>2. ASSUME NEW L, L \subseteq Critical
      PROVE  /\ Cardinality(At(L)) \in Nat
             /\ \A t \in At(Critical) : Cardinality(At(L)) = IF pc[t] \in L THEN 1 ELSE 0
  <2>1. Cardinality(At(L)) \in Nat
    BY AtFinite
  <2>2. ASSUME NEW t \in At(Critical), pc[t] \in L  PROVE Cardinality(At(L)) = 1
    <3>1. At(L) = {t}
      BY <1>1, <1>2, <2>2 DEF MutualExclusion, At
    <3> QED
      BY <3>1, FS_Singleton
  <2>3. ASSUME NEW t \in At(Critical), pc[t] \notin L  PROVE Cardinality(At(L)) = 0
    <3>1. At(L) = {}
      BY <1>1, <1>2, <2>3 DEF MutualExclusion, At
    <3> QED
      BY <3>1, FS_EmptySet
  <2> QED
    BY <2>1, <2>2, <2>3
<1>3. /\ {"put_author", "put_id"} \subseteq Critical /\ {"take_author", "take_id"} \subseteq Critical
      /\ {"put_load", "put_store", "take_load", "take_store"} \subseteq Critical
  BY DEF Critical, PutHold, TakeHold, PutDone, TakeDone
<1>4. /\ nPutting \in Nat /\ nTaking \in Nat
      /\ \A t \in At(Critical) :
            /\ nPutting = IF pc[t] \in {"put_author", "put_id"} THEN 1 ELSE 0
            /\ nTaking = IF pc[t] \in {"take_author", "take_id"} THEN 1 ELSE 0
  BY <1>2, <1>3 DEF nPutting, nTaking, BeingPut, BeingTaken
<1>5. ASSUME NEW t \in Procs, pc[t] \in {"put_author", "put_id"}
      PROVE  nPutting = 1 /\ nTaking = 0 /\ idx[t] = Last
  <2>1. nPutting = 1 /\ nTaking = 0
    BY <1>3, <1>4, <1>5 DEF At
  <2> QED
    BY <1>5, <2>1 DEF IInv, IndexInv, Last, nPutting
<1>6. ASSUME NEW t \in Procs, pc[t] \in {"take_author", "take_id"}
      PROVE  nPutting = 0 /\ nTaking = 1 /\ idx[t] = First
  <2>1. nPutting = 0 /\ nTaking = 1
    BY <1>3, <1>4, <1>6 DEF At
  <2> QED
    BY <1>6, <2>1 DEF IInv, IndexInv, First, nTaking
<1>7. ASSUME NEW t \in Procs, pc[t] \in {"put_load", "put_store", "take_load", "take_store"}
      PROVE  nPutting = 0 /\ nTaking = 0
  BY <1>3, <1>4, <1>7 DEF At
<1> QED
  BY <1>4, <1>5, <1>6, <1>7

\* What a step of child t from a to b does to First and Last.
LEMMA Ends ==
    ASSUME TypeOK, NEW t \in Procs, NEW a, NEW b, Step(t, a, b)
    PROVE  /\ First' = f' - (nTaking + In(b, {"take_author", "take_id"}) - In(a, {"take_author", "take_id"}))
           /\ Last' = p' - (nPutting + In(b, {"put_author", "put_id"}) - In(a, {"put_author", "put_id"}))
<1>1. pc \in [Procs -> ProducerLabel \cup ConsumerLabel]
  BY DEF TypeOK
<1>2. ASSUME NEW L
      PROVE  Cardinality(At(L)') = Cardinality(At(L)) + In(b, L) - In(a, L)
  BY <1>1, StepCount DEF In
<1>3. /\ nTaking' = nTaking + In(b, {"take_author", "take_id"}) - In(a, {"take_author", "take_id"})
      /\ nPutting' = nPutting + In(b, {"put_author", "put_id"}) - In(a, {"put_author", "put_id"})
  BY <1>2 DEF nPutting, nTaking, BeingPut, BeingTaken
<1> QED
  BY <1>3 DEF nPutting, nTaking, First, Last

\* RInv is inductive.
LEMMA RInit == Init => RInv
<1> SUFFICES ASSUME Init PROVE RInv
  OBVIOUS
<1>1. IInv
  BY InitInv
<1>2. ChildInv
  BY SizeAssumption DEF Init, ChildInv, Procs
<1> QED
  BY <1>1, <1>2 DEF RInv, EmptyInv, Init

\* The items held fit in the ring, with room for the one that is being put, and
\* the one that is being taken is the first of them.
LEMMA Bounds ==
    ASSUME IInv
    PROVE  /\ First \in Int /\ Last \in Int /\ First <= Last
           /\ \A t \in Producers : pc[t] = "put_id" => Last - First < queue_size
           /\ \A c \in Consumers : pc[c] = "take_id" => First < Last
<1>1. /\ TypeOK /\ StartInv /\ CountInv /\ nPutting \in Nat /\ nTaking \in Nat
      /\ nPut \in Nat /\ nTake \in Nat /\ nPutDone \in Nat /\ nTakeLeft \in Nat
  BY CountInvMeaning, CountTypes, Copying DEF IInv
<1>2. nPutting <= nPutDone /\ nPutDone <= nPut /\ nTakeLeft <= nTake
  <2>1. /\ BeingPut \subseteq At(PutDone) /\ At(PutDone) \subseteq At(PutHold)
        /\ At(TakeHold \ TakeDone) \subseteq At(TakeHold)
    BY DEF At, PutHold, PutDone, BeingPut
  <2> QED
    BY <2>1, AtFinite, FS_Subset DEF nPutDone, nPut, nTakeLeft, nTake, nPutting
<1>3. p \in Nat /\ f \in Nat /\ full \in Nat /\ empty \in Nat /\ queue_size \in Nat \ {0}
  BY <1>1, SizeAssumption DEF TypeOK
<1>4. First = f - nTaking /\ Last = p - nPutting
  BY DEF First, Last, nTaking, nPutting
<1>5. First \in Int /\ Last \in Int /\ Last - First = full + (nPutDone - nPutting) + nTakeLeft + nTaking
  BY <1>1, <1>3, <1>4 DEF CountInv
<1>6. First <= Last
  BY <1>1, <1>2, <1>3, <1>5
<1>7. ASSUME NEW t \in Producers, pc[t] = "put_id"  PROVE Last - First < queue_size
  <2>1. nPutting = 1 /\ nTaking = 0 /\ parent # "start"
    BY <1>1, <1>7, Copying, Started DEF Procs
  <2> QED
    BY <2>1, <1>1, <1>2, <1>3, <1>5 DEF CountInv
<1>8. ASSUME NEW c \in Consumers, pc[c] = "take_id"  PROVE First < Last
  <2>1. nTaking = 1
    BY <1>8, Copying DEF Procs
  <2> QED
    BY <2>1, <1>1, <1>2, <1>3, <1>5
<1> QED
  BY <1>5, <1>6, <1>7, <1>8

\* The slot that is being written holds none of them.
LEMMA Apart ==
    ASSUME IInv, NEW t \in Producers, pc[t] \in {"put_author", "put_id"}, NEW k \in Held
    PROVE  k % queue_size # idx[t] % queue_size
<1>1. t \in BeingPut /\ nPutting = 1 /\ nTaking = 0 /\ idx[t] = Last
  BY Copying DEF Procs, BeingPut, At
<1>2. First = f /\ Last = p - 1 /\ p \in Nat /\ f \in Nat
  BY <1>1 DEF First, Last, nPutting, nTaking, IInv, TypeOK
<1>3. k \in f .. p - 1 /\ k # idx[t]
  BY <1>1, <1>2 DEF Held
<1> QED
  BY <1>1, <1>3, SlotsApart DEF SlotSafety, BeingPut

------------------------------------------------------------------------------
(* The effect of a step on the contents: it leaves them alone, puts the    *)
(* next item of a producer behind them, or takes the first of them.        *)

Keeps ==
    /\ First' = First /\ Last' = Last
    /\ \A k \in Held : ItemAt(k)' = ItemAt(k)
    /\ Sent' = Sent /\ Taken' = Taken

Puts(w) ==
    /\ First' = First /\ Last' = Last + 1 /\ Last - First < queue_size
    /\ \A k \in Held : ItemAt(k)' = ItemAt(k)
    /\ que'[Last % queue_size] = Item(w, Sent[w])
    /\ Sent[w] \in 0 .. item_num /\ Sent' = [Sent EXCEPT ![w] = @ + 1]
    /\ Taken' = Taken

Ended(c) == Taken[c] # <<>> /\ Taken[c][Len(Taken[c])] = Stop

Takes(c) ==
    /\ First < Last /\ First' = First + 1 /\ Last' = Last
    /\ que' = que
    /\ ~ Ended(c) /\ Taken' = [Taken EXCEPT ![c] = Append(@, ItemAt(First))]
    /\ Sent' = Sent

\* bbq_put puts with its last word only.
LEMMA ProducerEffect ==
    ASSUME RInv, NEW t \in Producers, Producer(t)
    PROVE  Keeps \/ Puts(t)
<1>1. /\ TypeOK /\ IInv /\ t \in Procs /\ t \notin Consumers
      /\ nPutting \in Nat /\ nTaking \in Nat
  <2>1. TypeOK /\ IInv
    BY DEF RInv, IInv
  <2>2. t \in Procs /\ t \notin Consumers
    BY ProcessAssumption DEF Procs, Producers, Consumers
  <2> QED
    BY <2>1, <2>2, Copying
<1>2. /\ f \in Nat /\ p \in Nat /\ cnt \in [Producers -> Nat]
      /\ pc[t] # "exited" => cnt[t] \in 0 .. item_num
  BY <1>1, SizeAssumption DEF RInv, ChildInv, TypeOK
<1>3. First = f - nTaking /\ Last = p - nPutting
  BY DEF First, Last, nTaking, nPutting
<1>4. \A w \in Producers : Sent[w] = cnt[w] + IF pc[w] \in {"put_unlock", "put_post"} THEN 1 ELSE 0
  BY DEF Sent
<1>5. pc \in [Procs -> ProducerLabel \cup ConsumerLabel]
  BY <1>1 DEF TypeOK
<1>6. ASSUME NEW a, NEW b, Step(t, a, b), UNCHANGED <<node, taken>>  PROVE Taken' = Taken
  BY <1>1, <1>5, <1>6 DEF Taken, Step
<1>7. CASE PutWaitEmpty(t) \/ PutLock(t) \/ PutLoad(t) \/ PutUnlock(t) \/ PutPostFull(t)
  <2>1. PICK a, b : /\ Step(t, a, b) /\ UNCHANGED <<f, p, que, node, taken>>
                    /\ a \notin {"put_author", "put_id", "take_author", "take_id"}
                    /\ b \notin {"put_author", "put_id", "take_author", "take_id"}
    BY <1>7 DEF PutWaitEmpty, PutLock, PutLoad, PutUnlock, PutPostFull, sems
  <2>2. First' = First /\ Last' = Last
    BY <1>1, <1>2, <1>3, <2>1, Ends DEF In
  <2>3. Sent' = Sent
    <3>1. \A w \in Producers : cnt'[w] + (IF pc'[w] \in {"put_unlock", "put_post"} THEN 1 ELSE 0)
                                = cnt[w] + (IF pc[w] \in {"put_unlock", "put_post"} THEN 1 ELSE 0)
      <4>1. CASE PutPostFull(t)
        BY <1>1, <1>2, <1>5, <4>1 DEF PutPostFull, Step
      <4>2. CASE PutUnlock(t)
        BY <1>1, <1>2, <1>5, <4>2 DEF PutUnlock, Step
      <4>3. CASE PutWaitEmpty(t) \/ PutLock(t) \/ PutLoad(t)
        <5>1. /\ cnt' = cnt
              /\ \A w \in Producers : w # t => pc'[w] = pc[w]
              /\ pc[t] \notin {"put_unlock", "put_post"} /\ pc'[t] \notin {"put_unlock", "put_post"}
          <6>1. PICK x \in {"put_wait", "put_lock", "put_load"}, y \in {"put_lock", "put_load", "put_store"} :
                   Step(t, x, y) /\ cnt' = cnt
            BY <4>3 DEF PutWaitEmpty, PutLock, PutLoad
          <6> QED
            BY <1>1, <1>5, <6>1 DEF Step
        <5> QED
          BY <5>1
      <4> QED
        BY <1>7, <4>1, <4>2, <4>3
    <3> QED
      BY <3>1 DEF Sent
  <2> QED
    BY <1>6, <2>1, <2>2, <2>3 DEF Keeps, ItemAt
<1>8. CASE PutStore(t)
  <2>1. Step(t, "put_store", "put_author") /\ UNCHANGED <<f, que, node, taken, cnt>> /\ p' = p + 1
    BY <1>1, <1>8 DEF PutStore, Step, IInv, IndexInv
  <2>2. /\ First' = f' - (nTaking + 0 - 0)
        /\ Last' = p' - (nPutting + 1 - 0)
    BY <1>1, <2>1, Ends DEF In
  <2>3. Sent' = Sent
    BY <1>1, <1>5, <2>1 DEF Sent, Step
  <2> QED
    BY <1>1, <1>2, <1>3, <1>6, <2>1, <2>2, <2>3 DEF Keeps, ItemAt
<1>9. CASE PutAuthor(t)
  <2>1. /\ Step(t, "put_author", "put_id") /\ UNCHANGED <<f, p, node, taken, cnt>>
        /\ que' = [que EXCEPT ![idx[t] % queue_size].author = Item(t, cnt[t]).author]
    BY <1>9 DEF PutAuthor
  <2>2. First' = First /\ Last' = Last
    BY <1>1, <1>2, <1>3, <2>1, Ends DEF In
  <2>3. Sent' = Sent
    BY <1>1, <1>5, <2>1 DEF Sent, Step
  <2>4. ASSUME NEW k \in Held  PROVE ItemAt(k)' = ItemAt(k)
    <3>1. k % queue_size # idx[t] % queue_size
      BY <1>1, <2>1, Apart DEF Step
    <3> QED
      BY <1>1, <2>1, <3>1 DEF ItemAt, TypeOK
  <2> QED
    BY <1>6, <2>1, <2>2, <2>3, <2>4 DEF Keeps
<1>10. CASE PutId(t)
  <2>1. /\ Step(t, "put_id", "put_unlock") /\ UNCHANGED <<f, p, node, taken, cnt>>
        /\ que' = [que EXCEPT ![idx[t] % queue_size].id = Item(t, cnt[t]).id]
    BY <1>10 DEF PutId
  <2>2. First' = First /\ Last' = Last + 1
    <3>1. /\ First' = f' - (nTaking + 0 - 0)
          /\ Last' = p' - (nPutting + 0 - 1)
      BY <1>1, <2>1, Ends DEF In
    <3> QED
      BY <1>1, <1>2, <1>3, <2>1, <3>1
  <2>3. Sent[t] = cnt[t] /\ Sent[t] \in 0 .. item_num /\ Sent' = [Sent EXCEPT ![t] = @ + 1]
    <3>1. Sent[t] = cnt[t] /\ Sent[t] \in 0 .. item_num
      BY <1>2, <1>4, <2>1 DEF Step
    <3>2. \A w \in Producers : cnt'[w] + (IF pc'[w] \in {"put_unlock", "put_post"} THEN 1 ELSE 0)
                                = IF w = t THEN Sent[w] + 1 ELSE Sent[w]
      BY <1>1, <1>2, <1>4, <1>5, <2>1 DEF Step
    <3>3. Sent' = [w \in Producers |-> IF w = t THEN Sent[w] + 1 ELSE Sent[w]]
      BY <3>2 DEF Sent
    <3>4. DOMAIN Sent = Producers
      BY DEF Sent
    <3> QED
      BY <3>1, <3>3, <3>4
  <2>4. ASSUME NEW k \in Held  PROVE ItemAt(k)' = ItemAt(k)
    <3>1. k % queue_size # idx[t] % queue_size
      BY <1>1, <2>1, Apart DEF Step
    <3> QED
      BY <1>1, <2>1, <3>1 DEF ItemAt, TypeOK
  <2>5. que'[Last % queue_size] = Item(t, Sent[t])
    <3>1. idx[t] = Last /\ idx[t] % queue_size \in Slots
      BY <1>1, <2>1, SizeAssumption, Copying DEF Step, Slots, TypeOK
    <3>2. que[idx[t] % queue_size].author = Item(t, cnt[t]).author
      BY <2>1 DEF RInv, ChildInv, ItemAt, Step
    <3>3. que[idx[t] % queue_size] \in Cell /\ Item(t, cnt[t]) \in Cell
      BY <1>1, <1>2, <2>1, <3>1, SizeAssumption DEF TypeOK, Item, Stop, Cell, Step
    <3>4. que'[idx[t] % queue_size] = [que[idx[t] % queue_size] EXCEPT !.id = Item(t, cnt[t]).id]
      BY <1>1, <2>1, <3>1 DEF TypeOK
    <3>5. que'[idx[t] % queue_size] = Item(t, cnt[t])
      BY <3>2, <3>3, <3>4 DEF Cell
    <3> QED
      BY <2>3, <3>1, <3>5
  <2>6. Last - First < queue_size
    BY <1>1, <2>1, Bounds DEF Step
  <2> QED
    BY <1>6, <2>1, <2>2, <2>3, <2>4, <2>5, <2>6 DEF Puts
<1> QED
  BY <1>7, <1>8, <1>9, <1>10 DEF Producer

\* bbq_take takes with its last word only.
LEMMA ConsumerEffect ==
    ASSUME RInv, NEW t \in Consumers, Consumer(t)
    PROVE  Keeps \/ Takes(t)
<1>1. /\ TypeOK /\ IInv /\ t \in Procs /\ t \notin Producers
      /\ nPutting \in Nat /\ nTaking \in Nat
  <2>1. TypeOK /\ IInv
    BY DEF RInv, IInv
  <2>2. t \in Procs /\ t \notin Producers
    BY ProcessAssumption DEF Procs, Producers, Consumers
  <2> QED
    BY <2>1, <2>2, Copying
<1>2. f \in Nat /\ p \in Nat /\ taken \in [Consumers -> Seq(Cell)] /\ node \in [Consumers -> Cell]
  BY <1>1 DEF TypeOK
<1>3. First = f - nTaking /\ Last = p - nPutting
  BY DEF First, Last, nTaking, nPutting
<1>4. \A c \in Consumers : Taken[c] = IF pc[c] \in {"take_unlock", "take_post"}
                                      THEN Append(taken[c], node[c]) ELSE taken[c]
  BY DEF Taken
<1>5. pc \in [Procs -> ProducerLabel \cup ConsumerLabel]
  BY <1>1 DEF TypeOK
<1>6. ASSUME NEW a, NEW b, Step(t, a, b), UNCHANGED cnt  PROVE Sent' = Sent
  BY <1>1, <1>5, <1>6 DEF Sent, Step
<1>7. ASSUME \A c \in Consumers :
                (IF pc'[c] \in {"take_unlock", "take_post"} THEN Append(taken'[c], node'[c]) ELSE taken'[c])
                    = Taken[c]
      PROVE  Taken' = Taken
  BY <1>4, <1>7 DEF Taken
<1>8. CASE TakeWaitFull(t) \/ TakeLock(t) \/ TakeLoad(t)
  <2>1. PICK a, b : /\ Step(t, a, b) /\ UNCHANGED <<f, p, que, node, taken, cnt>>
                    /\ a \in {"take_wait", "take_lock", "take_load"}
                    /\ b \in {"take_lock", "take_load", "take_store"}
    BY <1>8 DEF TakeWaitFull, TakeLock, TakeLoad, sems
  <2>2. First' = First /\ Last' = Last
    <3>1. /\ First' = f' - (nTaking + 0 - 0)
          /\ Last' = p' - (nPutting + 0 - 0)
      BY <1>1, <2>1, Ends DEF In
    <3> QED
      BY <1>1, <1>2, <1>3, <2>1, <3>1
  <2>3. Taken' = Taken
    BY <1>1, <1>5, <2>1 DEF Taken, Step
  <2> QED
    BY <1>6, <2>1, <2>2, <2>3 DEF Keeps, ItemAt
<1>9. CASE TakeUnlock(t) \/ TakePostEmpty(t)
  <2>1. PICK a, b : /\ Step(t, a, b) /\ UNCHANGED <<f, p, que, node, cnt>>
                    /\ a \in {"take_unlock", "take_post"}
                    /\ b \in {"take_post", "take_wait", "exited"}
    BY <1>9 DEF TakeUnlock, TakePostEmpty, sems
  <2>2. First' = First /\ Last' = Last
    <3>1. /\ First' = f' - (nTaking + 0 - 0)
          /\ Last' = p' - (nPutting + 0 - 0)
      BY <1>1, <2>1, Ends DEF In
    <3> QED
      BY <1>1, <1>2, <1>3, <2>1, <3>1
  <2>3. Taken' = Taken
    <3>1. CASE TakeUnlock(t)
      BY <1>1, <1>5, <3>1 DEF Taken, Step, TakeUnlock
    <3>2. CASE TakePostEmpty(t)
      <4>1. /\ node' = node /\ taken' = [taken EXCEPT ![t] = Append(taken[t], node[t])]
            /\ pc[t] = "take_post" /\ pc'[t] \in {"take_wait", "exited"}
            /\ \A c \in Consumers : c # t => pc'[c] = pc[c]
        BY <1>1, <1>5, <3>2 DEF Step, TakePostEmpty
      <4> QED
        BY <1>2, <1>4, <1>7, <4>1
    <3> QED
      BY <1>9, <3>1, <3>2
  <2> QED
    BY <1>6, <2>1, <2>2, <2>3 DEF Keeps, ItemAt
<1>10. CASE TakeStore(t)
  <2>1. Step(t, "take_store", "take_author") /\ UNCHANGED <<p, que, node, taken, cnt>> /\ f' = f + 1
    BY <1>1, <1>10 DEF TakeStore, Step, IInv, IndexInv
  <2>2. /\ First' = f' - (nTaking + 1 - 0)
        /\ Last' = p' - (nPutting + 0 - 0)
    BY <1>1, <2>1, Ends DEF In
  <2>3. Taken' = Taken
    BY <1>1, <1>5, <2>1 DEF Taken, Step
  <2> QED
    BY <1>1, <1>2, <1>3, <1>6, <2>1, <2>2, <2>3 DEF Keeps, ItemAt
<1>11. CASE TakeAuthor(t)
  <2>1. /\ Step(t, "take_author", "take_id") /\ UNCHANGED <<f, p, que, taken, cnt>>
        /\ node' = [node EXCEPT ![t].author = que[idx[t] % queue_size].author]
    BY <1>11 DEF TakeAuthor, sems
  <2>2. First' = First /\ Last' = Last
    <3>1. /\ First' = f' - (nTaking + 1 - 1)
          /\ Last' = p' - (nPutting + 0 - 0)
      BY <1>1, <2>1, Ends DEF In
    <3> QED
      BY <1>1, <1>2, <1>3, <2>1, <3>1
  <2>3. Taken' = Taken
    <3>1. /\ \A c \in Consumers : c # t => pc'[c] = pc[c] /\ node'[c] = node[c]
          /\ pc[t] = "take_author" /\ pc'[t] = "take_id"
      BY <1>1, <1>2, <1>5, <2>1 DEF Step
    <3> QED
      BY <1>4, <1>7, <2>1, <3>1
  <2> QED
    BY <1>6, <2>1, <2>2, <2>3 DEF Keeps, ItemAt
<1>12. CASE TakeId(t)
  <2>1. /\ Step(t, "take_id", "take_unlock") /\ UNCHANGED <<f, p, que, taken, cnt>>
        /\ node' = [node EXCEPT ![t].id = que[idx[t] % queue_size].id]
    BY <1>12 DEF TakeId, sems
  <2>2. First' = First + 1 /\ Last' = Last
    <3>1. /\ First' = f' - (nTaking + 0 - 1)
          /\ Last' = p' - (nPutting + 0 - 0)
      BY <1>1, <2>1, Ends DEF In
    <3> QED
      BY <1>1, <1>2, <1>3, <2>1, <3>1
  <2>3. First < Last
    BY <1>1, <2>1, Bounds DEF Step
  <2>4. node'[t] = ItemAt(First)
    <3>1. idx[t] = First /\ idx[t] % queue_size \in Slots
      BY <1>1, <2>1, SizeAssumption, Copying DEF Step, Slots, TypeOK
    <3>2. node[t].author = que[idx[t] % queue_size].author
      BY <2>1 DEF RInv, ChildInv, ItemAt, Step
    <3>3. que[idx[t] % queue_size] \in Cell /\ node[t] \in Cell
      BY <1>1, <1>2, <3>1 DEF TypeOK
    <3>4. node'[t] = [node[t] EXCEPT !.id = que[idx[t] % queue_size].id]
      BY <1>2, <2>1
    <3>5. node'[t] = que[idx[t] % queue_size]
      BY <3>2, <3>3, <3>4 DEF Cell
    <3> QED
      BY <3>1, <3>5 DEF ItemAt
  <2>5. Taken[t] = taken[t]
    BY <1>4, <2>1 DEF Step
  <2>6. Taken' = [Taken EXCEPT ![t] = Append(@, ItemAt(First))]
    <3>1. /\ \A c \in Consumers : c # t => pc'[c] = pc[c] /\ node'[c] = node[c]
          /\ pc'[t] = "take_unlock"
      BY <1>1, <1>2, <1>5, <2>1 DEF Step
    <3>2. \A c \in Consumers :
             (IF pc'[c] \in {"take_unlock", "take_post"} THEN Append(taken'[c], node'[c]) ELSE taken'[c])
                 = IF c = t THEN Append(Taken[t], ItemAt(First)) ELSE Taken[c]
      BY <1>4, <2>1, <2>4, <2>5, <3>1
    <3>3. Taken' = [c \in Consumers |-> IF c = t THEN Append(Taken[t], ItemAt(First)) ELSE Taken[c]]
      BY <3>2 DEF Taken
    <3>4. DOMAIN Taken = Consumers
      BY DEF Taken
    <3> QED
      BY <3>3, <3>4
  <2>7. ~ Ended(t)
    BY <2>1, <2>5 DEF Ended, RInv, ChildInv, LastAuthor, Stop, Step
  <2> QED
    BY <1>6, <2>1, <2>2, <2>3, <2>6, <2>7 DEF Takes
<1> QED
  BY <1>8, <1>9, <1>10, <1>11, <1>12 DEF Consumer

\* A step puts one item, takes the oldest, or leaves the contents alone.
LEMMA Effects ==
    ASSUME RInv, [Next]_vars
    PROVE  \/ Keeps
           \/ \E w \in Producers : Puts(w)
           \/ \E c \in Consumers : Takes(c)
<1>1. CASE Parent
  <2>1. TypeOK /\ IInv /\ EmptyInv /\ nPutting \in Nat /\ nTaking \in Nat
    BY Copying DEF RInv, IInv
  <2>2. f \in Nat /\ p \in Nat /\ pc \in [Procs -> ProducerLabel \cup ConsumerLabel]
    BY <2>1 DEF TypeOK
  <2>3. CASE bbq_init \/ WaitFails \/ bbq_destroy \/ (\E t \in Procs : WaitReturns(t))
    <3>1. UNCHANGED <<f, p, que, pc, node, cnt, taken>>
      BY <2>1, <2>3 DEF bbq_init, WaitReturns, WaitFails, bbq_destroy, EmptyInv
    <3> QED
      BY <3>1 DEF Keeps, First, Last, BeingPut, BeingTaken, At, ItemAt, Sent, Taken
  <2>4. ASSUME NEW t \in Procs, Fork(t)  PROVE Keeps
    <3>1. PICK l \in {"put_wait", "take_wait", "nofork"} : Step(t, "unborn", l)
      BY <2>4 DEF Fork
    <3>2. UNCHANGED <<f, p, que, node, cnt, taken>>
      BY <2>4 DEF Fork
    <3>3. First' = First /\ Last' = Last
      BY <2>1, <2>2, <3>1, <3>2, Ends DEF In, First, Last, nPutting, nTaking
    <3>4. Sent' = Sent /\ Taken' = Taken
      BY <2>2, <3>1, <3>2 DEF Sent, Taken, Step, Procs
    <3> QED
      BY <3>2, <3>3, <3>4 DEF Keeps, ItemAt
  <2> QED
    BY <1>1, <2>3, <2>4 DEF Parent
<1>2. CASE UNCHANGED vars
  BY <1>2 DEF vars, Keeps, First, Last, BeingPut, BeingTaken, At, ItemAt, Sent, Taken
<1> QED
  BY <1>1, <1>2, ProducerEffect, ConsumerEffect DEF Next

\* A step keeps the place of every child in its loop.
LEMMA ChildStep ==
    ASSUME RInv, [Next]_vars
    PROVE  ChildInv' /\ EmptyInv'
<1>1. TypeOK /\ IInv /\ ChildInv /\ MutualExclusion
  BY Alone DEF RInv, IInv
<1>2. /\ pc \in [Procs -> ProducerLabel \cup ConsumerLabel]
      /\ cnt \in [Producers -> Nat] /\ taken \in [Consumers -> Seq(Cell)]
      /\ node \in [Consumers -> Cell] /\ que \in [Slots -> Cell]
      /\ item_num \in Nat /\ queue_size \in Nat \ {0}
      /\ \A s \in Procs : idx[s] % queue_size \in Slots
  BY <1>1, SizeAssumption DEF TypeOK, Slots
<1>3. Producers \cap Consumers = {} /\ Procs = Producers \cup Consumers
  BY ProcessAssumption DEF Producers, Consumers, Procs
<1>4. EmptyInv'
  <2>1. CASE Parent
    BY <2>1 DEF RInv, EmptyInv, Parent, bbq_init, Fork, WaitReturns, WaitFails, bbq_destroy
  <2>2. ASSUME NEW t \in Procs, pc[t] # "unborn", UNCHANGED parent  PROVE EmptyInv'
    BY <1>1, <2>2, Started DEF EmptyInv, IInv
  <2>3. ASSUME NEW t \in Producers, Producer(t)  PROVE EmptyInv'
    BY <1>3, <2>2, <2>3 DEF Producer, PutWaitEmpty, PutLock, PutLoad, PutStore, PutAuthor, PutId,
                            PutUnlock, PutPostFull, Step
  <2>4. ASSUME NEW t \in Consumers, Consumer(t)  PROVE EmptyInv'
    BY <1>3, <2>2, <2>4 DEF Consumer, TakeWaitFull, TakeLock, TakeLoad, TakeStore, TakeAuthor, TakeId,
                            TakeUnlock, TakePostEmpty, Step
  <2>5. CASE UNCHANGED vars
    BY <2>5 DEF vars, RInv, EmptyInv
  <2> QED
    BY <2>1, <2>3, <2>4, <2>5 DEF Next
\* A step that copies no first word and ends no call.
<1>5. ASSUME NEW t \in Procs, NEW a, NEW b, Step(t, a, b), cnt' = cnt, taken' = taken,
             \A s \in Procs : s # t /\ pc[s] \in {"put_id", "take_id"} =>
                 idx'[s] = idx[s] /\ que' = que /\ node' = node,
             a # "exited", b \notin {"exited", "put_id", "take_id"},
             b \in {"unborn", "nofork"} => a = "unborn"
      PROVE  ChildInv'
  <2>1. \A s \in Procs : pc'[s] = IF s = t THEN b ELSE pc[s]
    BY <1>2, <1>5 DEF Step
  <2>2. pc[t] = a
    BY <1>5 DEF Step
  <2>3. \A s \in Producers :
            /\ IF pc'[s] = "exited" THEN cnt[s] = item_num + 1 ELSE cnt[s] <= item_num
            /\ pc'[s] \in {"unborn", "nofork"} => cnt[s] = 0
    BY <1>1, <1>3, <1>5, <2>1, <2>2 DEF ChildInv
  <2>4. \A s \in Producers : pc'[s] = "put_id" => que'[idx'[s] % queue_size].author = Item(s, cnt[s]).author
    BY <1>1, <1>3, <1>5, <2>1 DEF ChildInv, ItemAt
  <2>5. \A c \in Consumers :
            /\ pc'[c] = "exited" <=> taken[c] # <<>> /\ LastAuthor(taken[c]) = -1
            /\ pc'[c] \in {"unborn", "nofork"} => taken[c] = <<>>
    BY <1>1, <1>3, <1>5, <2>1, <2>2 DEF ChildInv
  <2>6. \A c \in Consumers : pc'[c] = "take_id" => node'[c].author = que'[idx'[c] % queue_size].author
    BY <1>1, <1>3, <1>5, <2>1 DEF ChildInv, ItemAt
  <2> QED
    BY <1>5, <2>3, <2>4, <2>5, <2>6 DEF ChildInv, ItemAt, LastAuthor
\* A child in the critical section is alone there.
<1>6. ASSUME NEW t \in Procs, pc[t] \in {"put_author", "put_id", "take_author", "take_id"},
             NEW s \in Procs, s # t
      PROVE  pc[s] \notin {"put_id", "take_id"}
  BY <1>1, <1>6 DEF MutualExclusion, At, Critical, PutHold, TakeHold, PutDone, TakeDone
<1>7. ASSUME NEW t \in Procs, Fork(t)  PROVE ChildInv'
  <2>1. PICK l \in {"put_wait", "take_wait", "nofork"} : Step(t, "unborn", l)
    BY <1>7 DEF Fork
  <2> QED
    BY <1>5, <1>7, <2>1 DEF Fork
<1>8. CASE bbq_init \/ WaitFails \/ bbq_destroy \/ (\E t \in Procs : WaitReturns(t)) \/ UNCHANGED vars
  <2>1. UNCHANGED <<pc, cnt, idx, que, node, taken>>
    BY <1>8 DEF bbq_init, WaitReturns, WaitFails, bbq_destroy, vars
  <2>2. ASSUME NEW t \in Procs  PROVE ItemAt(idx[t])' = ItemAt(idx[t])
    BY <2>1 DEF ItemAt
  <2>3. ASSUME NEW t \in Producers
        PROVE  /\ IF pc'[t] = "exited" THEN cnt'[t] = item_num + 1 ELSE cnt'[t] <= item_num
               /\ pc'[t] \in {"unborn", "nofork"} => cnt'[t] = 0
               /\ pc'[t] = "put_id" => ItemAt(idx[t])'.author = Item(t, cnt'[t]).author
    BY <1>1, <1>3, <2>1, <2>2 DEF ChildInv
  <2>4. ASSUME NEW c \in Consumers
        PROVE  /\ pc'[c] = "take_id" => node'[c].author = ItemAt(idx[c])'.author
               /\ pc'[c] = "exited" <=> taken'[c] # <<>> /\ LastAuthor(taken'[c]) = -1
               /\ pc'[c] \in {"unborn", "nofork"} => taken'[c] = <<>>
    BY <1>1, <1>3, <2>1, <2>2 DEF ChildInv
  <2> QED
    BY <1>4, <2>3, <2>4 DEF ChildInv, LastAuthor
<1>9. ASSUME NEW t \in Producers, Producer(t)  PROVE ChildInv'
  <2>1. CASE PutWaitEmpty(t) \/ PutLock(t) \/ PutStore(t) \/ PutUnlock(t)
    BY <1>3, <1>5, <2>1 DEF PutWaitEmpty, PutLock, PutStore, PutUnlock
  <2>2. CASE PutLoad(t)
    <3>1. \A s \in Procs : s # t => idx'[s] = idx[s]
      BY <1>1, <1>3, <2>2 DEF PutLoad, TypeOK
    <3> QED
      BY <1>3, <1>5, <2>2, <3>1 DEF PutLoad
  <2>3. CASE PutAuthor(t)
    <3>1. /\ Step(t, "put_author", "put_id") /\ UNCHANGED <<cnt, idx, node, taken>>
          /\ que' = [que EXCEPT ![idx[t] % queue_size].author = Item(t, cnt[t]).author]
      BY <2>3 DEF PutAuthor
    <3>2. /\ \A s \in Procs : pc'[s] = IF s = t THEN "put_id" ELSE pc[s]
          /\ pc[t] = "put_author" /\ t \in Procs
      BY <1>2, <1>3, <3>1 DEF Step
    <3>3. \A s \in Procs : pc'[s] \in {"put_id", "take_id"} => s = t
      BY <1>6, <3>2
    <3>4. que'[idx[t] % queue_size].author = Item(t, cnt[t]).author
      BY <1>2, <3>1, <3>2 DEF Cell
    <3>5. \A s \in Producers :
              /\ IF pc'[s] = "exited" THEN cnt[s] = item_num + 1 ELSE cnt[s] <= item_num
              /\ pc'[s] \in {"unborn", "nofork"} => cnt[s] = 0
      BY <1>1, <1>3, <3>2 DEF ChildInv
    <3>6. \A c \in Consumers : pc'[c] = pc[c] /\ pc'[c] # "take_id"
      BY <1>3, <3>2, <3>3
    <3> QED
      BY <1>1, <1>3, <3>1, <3>3, <3>4, <3>5, <3>6 DEF ChildInv, ItemAt, LastAuthor
  <2>4. CASE PutId(t)
    <3>1. /\ Step(t, "put_id", "put_unlock") /\ UNCHANGED <<cnt, idx, node, taken>>
      BY <2>4 DEF PutId
    <3>2. t \in Procs /\ \A s \in Procs : s # t => pc[s] \notin {"put_id", "take_id"}
      BY <1>3, <1>6, <3>1 DEF Step
    <3> QED
      BY <1>5, <3>1, <3>2
  <2>5. CASE PutPostFull(t)
    <3>1. /\ UNCHANGED <<que, idx, node, taken>>
          /\ cnt' = [cnt EXCEPT ![t] = cnt[t] + 1]
          /\ pc[t] = "put_post" /\ pc' = [pc EXCEPT ![t] = IF cnt[t] < item_num THEN "put_wait" ELSE "exited"]
      BY <2>5 DEF PutPostFull, Step
    <3>2. cnt[t] \in Nat /\ cnt[t] <= item_num
      BY <1>1, <1>2, <3>1 DEF ChildInv
    <3>3. /\ \A s \in Procs : s # t => pc'[s] = pc[s]
          /\ pc'[t] = IF cnt[t] < item_num THEN "put_wait" ELSE "exited"
          /\ \A s \in Producers : cnt'[s] = IF s = t THEN cnt[t] + 1 ELSE cnt[s]
      BY <1>2, <1>3, <3>1
    <3>4. IF pc'[t] = "exited" THEN cnt'[t] = item_num + 1 ELSE cnt'[t] <= item_num
      BY <1>2, <3>2, <3>3
    <3>5. pc'[t] \notin {"unborn", "nofork", "put_id"}
      BY <3>3
    <3>6. \A c \in Consumers : pc'[c] = pc[c]
      BY <1>3, <3>3
    <3>7. \A s \in Producers :
              /\ IF pc'[s] = "exited" THEN cnt'[s] = item_num + 1 ELSE cnt'[s] <= item_num
              /\ pc'[s] \in {"unborn", "nofork"} => cnt'[s] = 0
              /\ pc'[s] = "put_id" => ItemAt(idx[s]).author = Item(s, cnt'[s]).author
      BY <1>1, <1>3, <3>3, <3>4, <3>5 DEF ChildInv
    <3> QED
      BY <1>1, <3>1, <3>6, <3>7 DEF ChildInv, ItemAt, LastAuthor
  <2> QED
    BY <1>9, <2>1, <2>2, <2>3, <2>4, <2>5 DEF Producer
<1>10. ASSUME NEW t \in Consumers, Consumer(t)  PROVE ChildInv'
  <2>1. CASE TakeWaitFull(t) \/ TakeLock(t) \/ TakeStore(t) \/ TakeUnlock(t)
    BY <1>3, <1>5, <2>1 DEF TakeWaitFull, TakeLock, TakeStore, TakeUnlock
  <2>2. CASE TakeLoad(t)
    <3>1. \A s \in Procs : s # t => idx'[s] = idx[s]
      BY <1>1, <1>3, <2>2 DEF TakeLoad, TypeOK
    <3> QED
      BY <1>3, <1>5, <2>2, <3>1 DEF TakeLoad
  <2>3. CASE TakeAuthor(t)
    <3>1. /\ Step(t, "take_author", "take_id") /\ UNCHANGED <<cnt, idx, que, taken>>
          /\ node' = [node EXCEPT ![t].author = que[idx[t] % queue_size].author]
      BY <2>3 DEF TakeAuthor
    <3>2. /\ \A s \in Procs : pc'[s] = IF s = t THEN "take_id" ELSE pc[s]
          /\ pc[t] = "take_author" /\ t \in Procs
      BY <1>2, <1>3, <3>1 DEF Step
    <3>3. \A s \in Procs : pc'[s] \in {"put_id", "take_id"} => s = t
      BY <1>6, <3>2
    <3>4. node'[t].author = que[idx[t] % queue_size].author
      BY <1>2, <3>1 DEF Cell
    <3>5. \A s \in Producers : pc'[s] = pc[s] /\ pc'[s] # "put_id"
      BY <1>3, <3>2, <3>3
    <3>6. \A c \in Consumers :
              /\ pc'[c] = "exited" <=> taken[c] # <<>> /\ LastAuthor(taken[c]) = -1
              /\ pc'[c] \in {"unborn", "nofork"} => taken[c] = <<>>
      BY <1>1, <1>3, <3>2 DEF ChildInv
    <3> QED
      BY <1>1, <1>3, <3>1, <3>3, <3>4, <3>5, <3>6 DEF ChildInv, ItemAt, LastAuthor
  <2>4. CASE TakeId(t)
    <3>1. /\ Step(t, "take_id", "take_unlock") /\ UNCHANGED <<cnt, idx, que, taken>>
      BY <2>4 DEF TakeId
    <3>2. t \in Procs /\ \A s \in Procs : s # t => pc[s] \notin {"put_id", "take_id"}
      BY <1>3, <1>6, <3>1 DEF Step
    <3> QED
      BY <1>5, <3>1, <3>2
  <2>5. CASE TakePostEmpty(t)
    <3>1. /\ UNCHANGED <<que, idx, node, cnt>>
          /\ taken' = [taken EXCEPT ![t] = Append(taken[t], node[t])]
          /\ pc[t] = "take_post"
          /\ pc' = [pc EXCEPT ![t] = IF node[t].author # -1 THEN "take_wait" ELSE "exited"]
      BY <2>5 DEF TakePostEmpty, Step
    <3>2. /\ \A s \in Procs : s # t => pc'[s] = pc[s]
          /\ pc'[t] = IF node[t].author # -1 THEN "take_wait" ELSE "exited"
          /\ \A c \in Consumers : taken'[c] = IF c = t THEN Append(taken[t], node[t]) ELSE taken[c]
      BY <1>2, <1>3, <3>1
    <3>3. Append(taken[t], node[t]) # <<>> /\ LastAuthor(Append(taken[t], node[t])) = node[t].author
      <4>1. taken[t] \in Seq(Cell)
        BY <1>2
      <4> QED
        BY <4>1 DEF LastAuthor
    <3>4. \A s \in Producers : pc'[s] = pc[s]
      BY <1>3, <3>2
    <3>5. ASSUME NEW c \in Consumers
          PROVE  /\ pc'[c] = "take_id" => node[c].author = ItemAt(idx[c]).author
                 /\ pc'[c] = "exited" <=> taken'[c] # <<>> /\ LastAuthor(taken'[c]) = -1
                 /\ pc'[c] \in {"unborn", "nofork"} => taken'[c] = <<>>
      <4>1. CASE c = t
        BY <3>2, <3>3, <4>1
      <4>2. CASE c # t
        <5>1. pc'[c] = pc[c] /\ taken'[c] = taken[c]
          BY <1>3, <3>2, <4>2
        <5> QED
          BY <1>1, <5>1 DEF ChildInv
      <4> QED
        BY <4>1, <4>2
    <3> QED
      BY <1>1, <3>1, <3>4, <3>5 DEF ChildInv, ItemAt, LastAuthor
  <2> QED
    BY <1>10, <2>1, <2>2, <2>3, <2>4, <2>5 DEF Consumer
<1> QED
  BY <1>4, <1>7, <1>8, <1>9, <1>10 DEF Next, Parent

LEMMA RStep == RInv /\ [Next]_vars => RInv'
BY InductiveStep, ChildStep DEF RInv

------------------------------------------------------------------------------
(* The queue implements the channel.                                       *)

LEMMA SameSeq ==
    ASSUME NEW S, NEW s \in Seq(S), NEW t \in Seq(S), Len(s) = Len(t),
           \A i \in 1 .. Len(s) : s[i] = t[i]
    PROVE  s = t
BY SeqEqual

\* What is in the channel is a sequence of nodes.
ContentsOK ==
    /\ First \in Int /\ Last \in Int /\ First <= Last
    /\ Contents \in Seq(Cell) /\ Len(Contents) = Last - First
    /\ \A i \in 1 .. Last - First : Contents[i] = que[(First + i - 1) % queue_size]

LEMMA ContentsType == RInv => ContentsOK
<1> SUFFICES ASSUME RInv PROVE ContentsOK
  OBVIOUS
<1>1. First \in Int /\ Last \in Int /\ First <= Last
  BY Bounds DEF RInv
<1>2. ASSUME NEW k \in Int  PROVE ItemAt(k) \in Cell
  BY SizeAssumption DEF RInv, IInv, TypeOK, ItemAt, Slots
<1>3. Last - First \in Nat /\ \A i \in 1 .. Last - First : First + i - 1 \in Int
  BY <1>1
<1> QED
  BY <1>1, <1>2, <1>3 DEF Contents, ContentsOK, ItemAt

LEMMA ContentsTypeNext == RInv' => ContentsOK'
BY ContentsType, PTL

\* Each of the three effects is a step of the channel, or none.
LEMMA KeepsIsStutter ==
    ASSUME RInv, RInv', Keeps
    PROVE  UNCHANGED Channel!chanVars
<1>1. /\ First \in Int /\ Last \in Int /\ First <= Last
      /\ Contents \in Seq(Cell) /\ Len(Contents) = Last - First
      /\ \A i \in 1 .. Last - First : Contents[i] = que[(First + i - 1) % queue_size]
  BY ContentsType DEF ContentsOK
<1>2. /\ Contents' \in Seq(Cell) /\ Len(Contents') = Last' - First'
      /\ \A i \in 1 .. Last' - First' : Contents'[i] = que'[(First' + i - 1) % queue_size]
  BY ContentsTypeNext DEF ContentsOK
<1>3. First' = First /\ Last' = Last /\ \A k \in First .. Last - 1 : que'[k % queue_size] = que[k % queue_size]
  BY DEF Keeps, ItemAt, Held
<1>4. Contents' = Contents
  <2>1. ASSUME NEW i \in 1 .. Last - First  PROVE Contents'[i] = Contents[i]
    <3>1. First + i - 1 \in First .. Last - 1
      BY <1>1
    <3> QED
      BY <1>1, <1>2, <1>3, <3>1
  <2> QED
    BY <1>1, <1>2, <1>3, <2>1, SameSeq
<1> QED
  BY <1>4 DEF Keeps, Channel!chanVars

LEMMA PutsIsPut ==
    ASSUME RInv, RInv', NEW w \in Producers, Puts(w)
    PROVE  Channel!Put(w)
<1>1. /\ First \in Int /\ Last \in Int /\ First <= Last
      /\ Contents \in Seq(Cell) /\ Len(Contents) = Last - First
      /\ \A i \in 1 .. Last - First : Contents[i] = que[(First + i - 1) % queue_size]
  BY ContentsType DEF ContentsOK
<1>2. /\ Contents' \in Seq(Cell) /\ Len(Contents') = Last' - First'
      /\ \A i \in 1 .. Last' - First' : Contents'[i] = que'[(First' + i - 1) % queue_size]
  BY ContentsTypeNext DEF ContentsOK
<1>3. /\ First' = First /\ Last' = Last + 1
      /\ \A k \in First .. Last - 1 : que'[k % queue_size] = que[k % queue_size]
      /\ que'[Last % queue_size] = Item(w, Sent[w])
      /\ Sent[w] \in 0 .. item_num /\ item_num \in Nat
  BY SizeAssumption DEF Puts, ItemAt, Held
<1>4. Item(w, Sent[w]) \in Cell
  BY <1>3 DEF Item, Stop, Cell
<1>5. Contents' = Append(Contents, Item(w, Sent[w]))
  <2>1. ASSUME NEW i \in 1 .. Last - First + 1
        PROVE  Contents'[i] = Append(Contents, Item(w, Sent[w]))[i]
    <3>1. CASE i <= Last - First
      <4>1. First + i - 1 \in First .. Last - 1 /\ i \in 1 .. Last - First /\ i \in 1 .. Last' - First'
        BY <1>1, <1>3, <3>1
      <4>2. Contents'[i] = Contents[i]
        BY <1>1, <1>2, <1>3, <4>1
      <4> QED
        BY <1>1, <1>4, <4>1, <4>2
    <3>2. CASE i = Last - First + 1
      <4>1. Contents'[i] = que'[Last % queue_size]
        <5>1. First' + i - 1 = Last /\ i \in 1 .. Last' - First'
          BY <1>1, <1>3, <3>2
        <5> QED
          BY <1>2, <5>1
      <4> QED
        BY <1>1, <1>3, <1>4, <3>2, <4>1
    <3> QED
      BY <1>1, <3>1, <3>2
  <2>2. Append(Contents, Item(w, Sent[w])) \in Seq(Cell) /\ Len(Append(Contents, Item(w, Sent[w]))) = Last - First + 1
    BY <1>1, <1>4
  <2>3. Len(Contents') = Last - First + 1
    BY <1>1, <1>2, <1>3
  <2> QED
    BY <1>2, <2>1, <2>2, <2>3, SameSeq
<1> DEFINE script == [v \in Producers |-> [i \in 1 .. item_num + 1 |-> Item(v, i - 1)]]
<1>6. Len(script[w]) = item_num + 1 /\ script[w][Sent[w] + 1] = Item(w, Sent[w])
  BY <1>3
<1>7. Sent[w] < Len(script[w]) /\ Len(Contents) < queue_size
  BY <1>1, <1>3, <1>6 DEF Puts
<1>8. Contents' = Append(Contents, script[w][Sent[w] + 1])
  BY <1>5, <1>6
<1>9. Sent' = [Sent EXCEPT ![w] = @ + 1] /\ UNCHANGED Taken
  BY DEF Puts
<1> QED
  BY <1>7, <1>8, <1>9 DEF Channel!Put

LEMMA TakesIsTake ==
    ASSUME RInv, RInv', NEW c \in Consumers, Takes(c)
    PROVE  Channel!Take(c)
<1>1. /\ First \in Int /\ Last \in Int /\ First < Last
      /\ Contents \in Seq(Cell) /\ Len(Contents) = Last - First
      /\ \A i \in 1 .. Last - First : Contents[i] = que[(First + i - 1) % queue_size]
  BY ContentsType DEF ContentsOK, Takes
<1>2. /\ Contents' \in Seq(Cell) /\ Len(Contents') = Last' - First'
      /\ \A i \in 1 .. Last' - First' : Contents'[i] = que'[(First' + i - 1) % queue_size]
  BY ContentsTypeNext DEF ContentsOK
<1>3. First' = First + 1 /\ Last' = Last /\ que' = que
  BY DEF Takes
<1>4. Contents # <<>> /\ Head(Contents) = ItemAt(First)
  <2>1. Contents[1] = que[First % queue_size]
    <3>1. 1 \in 1 .. Last - First /\ First + 1 - 1 = First
      BY <1>1
    <3> QED
      BY <1>1, <3>1
  <2> QED
    BY <1>1, <2>1 DEF ItemAt
<1>5. Contents' = Tail(Contents)
  <2>1. Tail(Contents) \in Seq(Cell) /\ Len(Tail(Contents)) = Last - First - 1
    BY <1>1, <1>4
  <2>2. Len(Contents') = Last - First - 1
    BY <1>1, <1>2, <1>3
  <2>3. ASSUME NEW i \in 1 .. Last - First - 1  PROVE Contents'[i] = Tail(Contents)[i]
    <3>1. i + 1 \in 1 .. Last - First /\ First + (i + 1) - 1 = First' + i - 1 /\ i \in 1 .. Last' - First'
      BY <1>1, <1>3
    <3>2. Tail(Contents)[i] = Contents[i + 1]
      BY <1>1, <1>4, <2>1
    <3> QED
      BY <1>1, <1>2, <1>3, <3>1, <3>2
  <2> QED
    BY <1>2, <2>1, <2>2, <2>3, SameSeq
<1> QED
  BY <1>4, <1>5 DEF Takes, Ended, Channel!Take, Channel!Stopped

\* The queue in shared memory is a first-in first-out channel of queue_size
\* items, whatever the number of processes and the size of the ring: bbq_put and
\* bbq_take are atomic although they copy a node one word at a time.
THEOREM Implements == Spec => ImplementsChannel
<1>1. Init => Channel!ChanInit
  <2> SUFFICES ASSUME Init PROVE Channel!ChanInit
    OBVIOUS
  <2>1. First = 0 /\ Last = 0
    <3>1. BeingPut = {} /\ BeingTaken = {}
      BY DEF Init, BeingPut, BeingTaken, At
    <3> QED
      BY <3>1, FS_EmptySet DEF Init, First, Last
  <2>2. Contents = <<>>
    BY <2>1 DEF Contents
  <2>3. Sent = [w \in Producers |-> 0] /\ Taken = [c \in Consumers |-> <<>>]
    BY DEF Init, Sent, Taken, Procs
  <2> QED
    BY <2>2, <2>3 DEF Channel!ChanInit
<1>2. RInv /\ RInv' /\ [Next]_vars => [Channel!ChanNext]_(Channel!chanVars)
  <2> SUFFICES ASSUME RInv, RInv', [Next]_vars
               PROVE  [Channel!ChanNext]_(Channel!chanVars)
    OBVIOUS
  <2>1. CASE Keeps
    BY <2>1, KeepsIsStutter
  <2>2. ASSUME NEW w \in Producers, Puts(w)  PROVE Channel!ChanNext
    BY <2>2, PutsIsPut DEF Channel!ChanNext
  <2>3. ASSUME NEW c \in Consumers, Takes(c)  PROVE Channel!ChanNext
    BY <2>3, TakesIsTake DEF Channel!ChanNext
  <2> QED
    BY <2>1, <2>2, <2>3, Effects
<1>3. Spec => []RInv
  BY RInit, RStep, PTL DEF Spec
<1> QED
  BY <1>1, <1>2, <1>3, PTL DEF Spec, ImplementsChannel, Channel!ChanSpec

------------------------------------------------------------------------------
(* Nothing is left behind: an account of every node and of every stop      *)
(* object.                                                                 *)

\* Where x is in the queue, and where a take returned it.
HeldAt(x) == {k \in Held : ItemAt(k) = x}
GotAt(x) == UNION {{<<c, i>> : i \in {j \in DOMAIN Taken[c] : Taken[c][j] = x}} : c \in Consumers}

Items == {Item(w, n) : w \in Producers, n \in 0 .. item_num}
EndedConsumers == {c \in Consumers : Ended(c)}
EndedProducers == {w \in Producers : Sent[w] = item_num + 1}

\* What is held, and what a consumer took last, is an item of a producer.
KnownInv ==
    /\ \A k \in Held : ItemAt(k) \in Items
    /\ \A c \in Consumers : Taken[c] # <<>> => Taken[c][Len(Taken[c])] \in Items

\* A node that was put is in exactly one place, one that was not is nowhere.
PlaceInv ==
    \A w \in Producers, n \in 0 .. item_num - 1 :
        LET x == Item(w, n) IN
        IF n < Sent[w] THEN \/ GotAt(x) = {} /\ \E k \in HeldAt(x) : HeldAt(x) = {k}
                            \/ HeldAt(x) = {} /\ \E g \in GotAt(x) : GotAt(x) = {g}
                       ELSE HeldAt(x) = {} /\ GotAt(x) = {}

\* A stop object is behind every node of a producer that has put its own.
BehindInv ==
    \A w \in EndedProducers, n \in 0 .. item_num - 1 : \A k \in HeldAt(Item(w, n)) :
        \E l \in HeldAt(Stop) : l > k

\* A stop object that was put is in the queue or has ended a consumer.
StopInv ==
    Cardinality(HeldAt(Stop)) + Cardinality(EndedConsumers) = Cardinality(EndedProducers)

AccountInv == KnownInv /\ PlaceInv /\ BehindInv /\ StopInv

\* The items of all producers differ, but for the stop objects.
LEMMA ItemFacts ==
    /\ \A w, v \in Producers, n \in 0 .. item_num - 1, m \in 0 .. item_num :
          Item(w, n) = Item(v, m) => w = v /\ n = m
    /\ \A w \in Producers, n \in 0 .. item_num : Item(w, n) = Stop <=> n = item_num
BY SizeAssumption DEF Item, Stop, Producers

LEMMA CountsFinite ==
    ASSUME RInv, NEW x
    PROVE  IsFiniteSet(HeldAt(x)) /\ IsFiniteSet(EndedConsumers) /\ IsFiniteSet(EndedProducers)
<1>1. IsFiniteSet(Held) /\ IsFiniteSet(Consumers) /\ IsFiniteSet(Producers)
  BY Bounds, ProcessAssumption, FS_Interval DEF RInv, Held, Consumers, Producers
<1>2. HeldAt(x) \subseteq Held /\ EndedConsumers \subseteq Consumers /\ EndedProducers \subseteq Producers
  BY DEF HeldAt, EndedConsumers, EndedProducers
<1> QED
  BY <1>1, <1>2, FS_Subset

\* A step that keeps the contents keeps what is counted of them.
LEMMA AccountKeeps ==
    ASSUME RInv, AccountInv, Keeps
    PROVE  AccountInv'
<1>1. /\ Held' = Held /\ \A k \in Held : ItemAt(k)' = ItemAt(k)
      /\ Sent' = Sent /\ Taken' = Taken
  BY DEF Keeps, Held
<1>2. \A x : HeldAt(x)' = HeldAt(x) /\ GotAt(x)' = GotAt(x)
  BY <1>1 DEF HeldAt, GotAt
<1>3. EndedConsumers' = EndedConsumers /\ EndedProducers' = EndedProducers
  BY <1>1 DEF EndedConsumers, EndedProducers, Ended
<1>4. KnownInv'
  BY <1>1 DEF AccountInv, KnownInv
<1>5. PlaceInv'
  BY <1>1, <1>2 DEF AccountInv, PlaceInv
<1>6. BehindInv'
  BY <1>2, <1>3 DEF AccountInv, BehindInv
<1>7. StopInv'
  <2>1. HeldAt(Stop)' = HeldAt(Stop)
    BY <1>2
  <2> QED
    BY <1>3, <2>1 DEF AccountInv, StopInv
<1> QED
  BY <1>4, <1>5, <1>6, <1>7 DEF AccountInv

\* A put adds its item behind the others.
LEMMA PutAt ==
    ASSUME RInv, NEW w \in Producers, Puts(w)
    PROVE  /\ Held' = Held \cup {Last} /\ Last \in Int /\ Last \notin Held /\ \A k \in Held : k < Last
           /\ \A k \in Held : ItemAt(k)' = ItemAt(k)
           /\ \A k \in {Last} : ItemAt(k)' = Item(w, Sent[w])
           /\ \A x : HeldAt(x)' = HeldAt(x) \cup (IF x = Item(w, Sent[w]) THEN {Last} ELSE {})
           /\ \A x : GotAt(x)' = GotAt(x)
           /\ EndedConsumers' = EndedConsumers
           /\ EndedProducers' = EndedProducers \cup (IF Sent[w] = item_num THEN {w} ELSE {})
<1>1. First \in Int /\ Last \in Int /\ First <= Last
  BY Bounds DEF RInv
<1>2. /\ First' = First /\ Last' = Last + 1 /\ \A k \in Held : ItemAt(k)' = ItemAt(k)
      /\ que'[Last % queue_size] = Item(w, Sent[w]) /\ Sent[w] \in 0 .. item_num
      /\ Sent' = [Sent EXCEPT ![w] = @ + 1] /\ Taken' = Taken
  BY DEF Puts
<1>3. Held' = Held \cup {Last} /\ Last \notin Held /\ \A k \in Held : k < Last
  BY <1>1, <1>2 DEF Held
<1>4. \A k \in {Last} : ItemAt(k)' = Item(w, Sent[w])
  BY <1>2 DEF ItemAt
<1>5. ASSUME NEW x
      PROVE  /\ HeldAt(x)' = HeldAt(x) \cup (IF x = Item(w, Sent[w]) THEN {Last} ELSE {})
             /\ GotAt(x)' = GotAt(x)
  <2>1. HeldAt(x)' = {k \in Held \cup {Last} : ItemAt(k)' = x}
    BY <1>3 DEF HeldAt
  <2> QED
    BY <1>2, <1>3, <1>4, <2>1 DEF HeldAt, GotAt
<1>6. EndedConsumers' = EndedConsumers
  BY <1>2 DEF EndedConsumers, Ended
<1>7. EndedProducers' = EndedProducers \cup (IF Sent[w] = item_num THEN {w} ELSE {})
  <2>1. DOMAIN Sent = Producers
    BY DEF Sent
  <2>2. \A v \in Producers : Sent'[v] = IF v = w THEN Sent[w] + 1 ELSE Sent[v]
    BY <1>2, <2>1
  <2>3. \A v \in Producers : Sent'[v] = item_num + 1 <=> v \in EndedProducers \cup (IF Sent[w] = item_num THEN {w} ELSE {})
    BY <1>2, <2>2, SizeAssumption DEF EndedProducers
  <2> QED
    BY <2>3 DEF EndedProducers
<1> QED
  BY <1>1, <1>2, <1>3, <1>4, <1>5, <1>6, <1>7

\* A put keeps the account.
LEMMA AccountPuts ==
    ASSUME RInv, AccountInv, NEW w \in Producers, Puts(w)
    PROVE  AccountInv'
<1>1. /\ Held' = Held \cup {Last} /\ Last \in Int /\ Last \notin Held /\ \A k \in Held : k < Last
      /\ \A k \in Held : ItemAt(k)' = ItemAt(k)
      /\ \A k \in {Last} : ItemAt(k)' = Item(w, Sent[w])
  BY PutAt
<1>2. /\ \A x : HeldAt(x)' = HeldAt(x) \cup (IF x = Item(w, Sent[w]) THEN {Last} ELSE {})
      /\ \A x : GotAt(x)' = GotAt(x)
  BY PutAt
<1>3. /\ EndedConsumers' = EndedConsumers
      /\ EndedProducers' = EndedProducers \cup (IF Sent[w] = item_num THEN {w} ELSE {})
  BY PutAt
<1>4. Sent[w] \in 0 .. item_num /\ Sent' = [Sent EXCEPT ![w] = @ + 1] /\ Taken' = Taken
  BY DEF Puts
<1>5. \A v \in Producers : Sent'[v] = IF v = w THEN Sent[w] + 1 ELSE Sent[v]
  BY <1>4 DEF Sent
<1>6. KnownInv'
  <2>1. Item(w, Sent[w]) \in Items
    BY <1>4 DEF Items
  <2>2. ASSUME NEW k \in Held'  PROVE ItemAt(k)' \in Items
    <3>1. k \in Held \/ k \in {Last}
      BY <1>1
    <3> QED
      BY <1>1, <2>1, <3>1 DEF AccountInv, KnownInv
  <2> QED
    BY <1>4, <2>2 DEF AccountInv, KnownInv, Items
<1>7. PlaceInv'
  <2>1. ASSUME NEW v \in Producers, NEW n \in 0 .. item_num - 1
        PROVE  IF n < Sent'[v] THEN \/ GotAt(Item(v, n))' = {} /\ \E k \in HeldAt(Item(v, n))' : HeldAt(Item(v, n))' = {k}
                                    \/ HeldAt(Item(v, n))' = {} /\ \E g \in GotAt(Item(v, n))' : GotAt(Item(v, n))' = {g}
                               ELSE HeldAt(Item(v, n))' = {} /\ GotAt(Item(v, n))' = {}
    <3> DEFINE x == Item(v, n)
    <3>1. IF n < Sent[v] THEN \/ GotAt(x) = {} /\ \E k \in HeldAt(x) : HeldAt(x) = {k}
                              \/ HeldAt(x) = {} /\ \E g \in GotAt(x) : GotAt(x) = {g}
                         ELSE HeldAt(x) = {} /\ GotAt(x) = {}
      BY DEF AccountInv, PlaceInv
    <3>2. x = Item(w, Sent[w]) <=> v = w /\ n = Sent[w]
      BY <1>4, ItemFacts
    <3>3. HeldAt(x)' = HeldAt(x) \cup (IF x = Item(w, Sent[w]) THEN {Last} ELSE {}) /\ GotAt(x)' = GotAt(x)
      BY <1>2
    <3>4. CASE v = w /\ n = Sent[w]
      <4>1. HeldAt(x)' = {Last} /\ GotAt(x)' = {} /\ n < Sent'[v]
        BY <1>4, <1>5, <3>1, <3>2, <3>3, <3>4
      <4> QED
        BY <4>1
    <3>5. CASE ~ (v = w /\ n = Sent[w])
      <4>1. HeldAt(x)' = HeldAt(x) /\ GotAt(x)' = GotAt(x)
        BY <3>2, <3>3, <3>5
      <4>2. n < Sent'[v] <=> n < Sent[v]
        BY <1>4, <1>5, <3>5
      <4> QED
        BY <3>1, <4>1, <4>2
    <3> QED
      BY <3>4, <3>5
  <2> QED
    BY <2>1 DEF PlaceInv, Item, Stop
<1>8. BehindInv'
  <2>1. ASSUME NEW v \in EndedProducers', NEW n \in 0 .. item_num - 1, NEW k \in HeldAt(Item(v, n))'
        PROVE  \E l \in HeldAt(Stop)' : l > k
    <3>1. k \in HeldAt(Item(v, n)) \/ (k = Last /\ Item(v, n) = Item(w, Sent[w]))
      BY <1>2
    <3>2. v \in Producers /\ Sent'[v] = item_num + 1
      BY DEF EndedProducers
    <3>3. CASE k = Last /\ Item(v, n) = Item(w, Sent[w])
      <4>1. v = w /\ n = Sent[w]
        BY <1>4, <3>2, <3>3, ItemFacts
      <4> QED
        BY <1>4, <1>5, <3>2, <4>1, SizeAssumption
    <3>4. CASE k \in HeldAt(Item(v, n)) /\ v \in EndedProducers
      <4>1. PICK l \in HeldAt(Stop) : l > k
        BY <3>4 DEF AccountInv, BehindInv
      <4>2. l \in HeldAt(Stop)'
        BY <1>2
      <4> QED
        BY <4>1, <4>2
    <3>5. CASE k \in HeldAt(Item(v, n)) /\ v \notin EndedProducers
      <4>1. v = w /\ Sent[w] = item_num
        BY <1>3, <3>5
      <4>2. Stop = Item(w, Sent[w])
        BY <1>4, <4>1, ItemFacts
      <4>3. Last \in HeldAt(Stop)'
        BY <1>2, <4>2
      <4>4. k \in Held /\ k < Last
        BY <1>1, <3>5 DEF HeldAt
      <4>5. k \in Int
        BY <4>4 DEF Held
      <4> QED
        BY <1>1, <4>3, <4>4, <4>5
    <3> QED
      BY <3>1, <3>3, <3>4, <3>5
  <2> QED
    BY <2>1 DEF BehindInv, Item, Stop
<1>9. StopInv'
  <2>1. /\ IsFiniteSet(HeldAt(Stop)) /\ IsFiniteSet(EndedProducers)
        /\ Cardinality(HeldAt(Stop)) + Cardinality(EndedConsumers) = Cardinality(EndedProducers)
    BY CountsFinite DEF AccountInv, StopInv
  <2>2. Stop = Item(w, Sent[w]) <=> Sent[w] = item_num
    BY <1>4, ItemFacts
  <2>3. HeldAt(Stop)' = HeldAt(Stop) \cup (IF Sent[w] = item_num THEN {Last} ELSE {})
    BY <1>2, <2>2
  <2>4. CASE Sent[w] = item_num
    <3>1. Last \notin HeldAt(Stop) /\ w \notin EndedProducers
      BY <1>1, <2>4, SizeAssumption DEF HeldAt, EndedProducers
    <3>2. /\ Cardinality(HeldAt(Stop) \cup {Last}) = Cardinality(HeldAt(Stop)) + 1
          /\ Cardinality(EndedProducers \cup {w}) = Cardinality(EndedProducers) + 1
      BY <2>1, <3>1, FS_AddElement
    <3>3. HeldAt(Stop)' = HeldAt(Stop) \cup {Last} /\ EndedProducers' = EndedProducers \cup {w}
      BY <1>3, <2>3, <2>4
    <3>4. /\ Cardinality(HeldAt(Stop)') = Cardinality(HeldAt(Stop)) + 1
          /\ Cardinality(EndedProducers') = Cardinality(EndedProducers) + 1
          /\ Cardinality(EndedConsumers') = Cardinality(EndedConsumers)
      BY <1>3, <3>2, <3>3
    <3>5. Cardinality(HeldAt(Stop)) \in Nat /\ Cardinality(EndedProducers) \in Nat /\ Cardinality(EndedConsumers) \in Nat
      BY CountsFinite, FS_CardinalityType
    <3>6. Cardinality(HeldAt(Stop)') + Cardinality(EndedConsumers') = Cardinality(EndedProducers')
      BY <2>1, <3>4, <3>5
    <3> QED
      BY <3>6 DEF StopInv, Stop
  <2>5. CASE Sent[w] # item_num
    <3>1. HeldAt(Stop)' = HeldAt(Stop) /\ EndedProducers' = EndedProducers
      BY <1>3, <2>3, <2>5
    <3>2. Cardinality(HeldAt(Stop)') + Cardinality(EndedConsumers') = Cardinality(EndedProducers')
      BY <1>3, <2>1, <3>1
    <3> QED
      BY <3>2 DEF StopInv, Stop
  <2> QED
    BY <2>4, <2>5
<1> QED
  BY <1>6, <1>7, <1>8, <1>9 DEF AccountInv

\* A take moves the first item to the consumer.
LEMMA TakeAt ==
    ASSUME RInv, NEW c \in Consumers, Takes(c)
    PROVE  /\ Held' = Held \ {First} /\ First \in Held
           /\ \A k \in Held : ItemAt(k)' = ItemAt(k)
           /\ Len(Taken[c]) \in Nat /\ Taken'[c] # <<>> /\ Taken'[c][Len(Taken'[c])] = ItemAt(First)
           /\ \A d \in Consumers : d # c => Taken'[d] = Taken[d]
           /\ \A x : HeldAt(x)' = HeldAt(x) \ {First}
           /\ \A x : GotAt(x)' = GotAt(x) \cup
                        (IF ItemAt(First) = x THEN {<<c, Len(Taken[c]) + 1>>} ELSE {})
           /\ c \notin EndedConsumers
           /\ EndedConsumers' = EndedConsumers \cup (IF ItemAt(First) = Stop THEN {c} ELSE {})
           /\ EndedProducers' = EndedProducers
<1>1. First \in Int /\ Last \in Int
  BY Bounds DEF RInv
<1>2. /\ First < Last /\ First' = First + 1 /\ Last' = Last /\ que' = que
      /\ ~ Ended(c) /\ Taken' = [Taken EXCEPT ![c] = Append(@, ItemAt(First))] /\ Sent' = Sent
  BY DEF Takes
<1>3. Held' = Held \ {First} /\ First \in Held
  BY <1>1, <1>2 DEF Held
<1>4. \A k \in Held : ItemAt(k)' = ItemAt(k)
  BY <1>2 DEF ItemAt
<1>5. DOMAIN Taken = Consumers /\ Taken[c] \in Seq(Cell) /\ ItemAt(First) \in Cell
  <2>1. taken[c] \in Seq(Cell) /\ node[c] \in Cell /\ que \in [Slots -> Cell]
    BY DEF RInv, IInv, TypeOK
  <2>2. First % queue_size \in Slots
    BY <1>1, SizeAssumption DEF Slots
  <2> QED
    BY <2>1, <2>2 DEF Taken, ItemAt
<1>6. /\ Taken'[c] = Append(Taken[c], ItemAt(First))
      /\ \A d \in Consumers : d # c => Taken'[d] = Taken[d]
      /\ DOMAIN Taken' = Consumers
  BY <1>2, <1>5
<1>7. /\ Len(Taken[c]) \in Nat /\ Len(Taken'[c]) = Len(Taken[c]) + 1 /\ Taken'[c] # <<>>
      /\ Taken'[c][Len(Taken[c]) + 1] = ItemAt(First)
      /\ \A i \in 1 .. Len(Taken[c]) : Taken'[c][i] = Taken[c][i]
      /\ DOMAIN Taken[c] = 1 .. Len(Taken[c]) /\ DOMAIN Taken'[c] = 1 .. Len(Taken[c]) + 1
  BY <1>5, <1>6
<1>8. ASSUME NEW x
      PROVE  /\ HeldAt(x)' = HeldAt(x) \ {First}
             /\ GotAt(x)' = GotAt(x) \cup (IF ItemAt(First) = x THEN {<<c, Len(Taken[c]) + 1>>} ELSE {})
  <2>1. HeldAt(x)' = HeldAt(x) \ {First}
    BY <1>3, <1>4 DEF HeldAt
  <2> DEFINE Got(d) == {<<d, i>> : i \in {j \in DOMAIN Taken[d] : Taken[d][j] = x}}
             GotNext(d) == {<<d, i>> : i \in {j \in DOMAIN Taken'[d] : Taken'[d][j] = x}}
             new == IF ItemAt(First) = x THEN {<<c, Len(Taken[c]) + 1>>} ELSE {}
  <2>2. ASSUME NEW d \in Consumers, d # c  PROVE GotNext(d) = Got(d)
    BY <1>6, <2>2
  <2>3. GotNext(c) = Got(c) \cup new
    <3>1. {j \in 1 .. Len(Taken[c]) + 1 : Taken'[c][j] = x}
             = {j \in 1 .. Len(Taken[c]) : Taken[c][j] = x}
                  \cup (IF ItemAt(First) = x THEN {Len(Taken[c]) + 1} ELSE {})
      BY <1>7
    <3> QED
      BY <1>7, <3>1
  <2>4. GotAt(x) = UNION {Got(d) : d \in Consumers} /\ GotAt(x)' = UNION {GotNext(d) : d \in Consumers}
    BY DEF GotAt
  <2>5. (UNION {GotNext(d) : d \in Consumers}) = (UNION {Got(d) : d \in Consumers}) \cup new
    <3> HIDE DEF Got, GotNext, new
    <3> QED
      BY <2>2, <2>3
  <2> QED
    BY <2>1, <2>4, <2>5
<1>9. /\ c \notin EndedConsumers
      /\ EndedConsumers' = EndedConsumers \cup (IF ItemAt(First) = Stop THEN {c} ELSE {})
  <2>1. Ended(c)' <=> ItemAt(First) = Stop
    BY <1>7 DEF Ended
  <2>2. \A d \in Consumers : d # c => (Ended(d)' <=> Ended(d))
    BY <1>6 DEF Ended
  <2>3. EndedConsumers' = {d \in Consumers : Ended(d)'}
    BY DEF EndedConsumers, Ended
  <2> QED
    BY <1>2, <2>1, <2>2, <2>3 DEF EndedConsumers
<1>10. EndedProducers' = EndedProducers
  BY <1>2 DEF EndedProducers
<1> QED
  BY <1>3, <1>4, <1>6, <1>7, <1>8, <1>9, <1>10

\* A take keeps the account.
LEMMA AccountTakes ==
    ASSUME RInv, AccountInv, NEW c \in Consumers, Takes(c)
    PROVE  AccountInv'
<1>1. /\ Held' = Held \ {First} /\ First \in Held
      /\ \A k \in Held : ItemAt(k)' = ItemAt(k)
      /\ Taken'[c] # <<>> /\ Taken'[c][Len(Taken'[c])] = ItemAt(First)
      /\ \A d \in Consumers : d # c => Taken'[d] = Taken[d]
  BY TakeAt
<1>2. /\ \A x : HeldAt(x)' = HeldAt(x) \ {First}
      /\ \A x : GotAt(x)' = GotAt(x) \cup
                   (IF ItemAt(First) = x THEN {<<c, Len(Taken[c]) + 1>>} ELSE {})
  BY TakeAt
<1>3. /\ c \notin EndedConsumers
      /\ EndedConsumers' = EndedConsumers \cup (IF ItemAt(First) = Stop THEN {c} ELSE {})
      /\ EndedProducers' = EndedProducers
  BY TakeAt
<1>4. Sent' = Sent
  BY DEF Takes
<1>5. KnownInv'
  <2>1. \A k \in Held' : ItemAt(k)' \in Items
    BY <1>1 DEF AccountInv, KnownInv
  <2>2. \A d \in Consumers : Taken'[d] # <<>> => Taken'[d][Len(Taken'[d])] \in Items
    BY <1>1 DEF AccountInv, KnownInv
  <2> QED
    BY <2>1, <2>2 DEF KnownInv, Items
<1>6. PlaceInv'
  <2>1. ASSUME NEW v \in Producers, NEW n \in 0 .. item_num - 1
        PROVE  IF n < Sent'[v] THEN \/ GotAt(Item(v, n))' = {} /\ \E k \in HeldAt(Item(v, n))' : HeldAt(Item(v, n))' = {k}
                                    \/ HeldAt(Item(v, n))' = {} /\ \E g \in GotAt(Item(v, n))' : GotAt(Item(v, n))' = {g}
                               ELSE HeldAt(Item(v, n))' = {} /\ GotAt(Item(v, n))' = {}
    <3> DEFINE x == Item(v, n)
    <3>1. IF n < Sent[v] THEN \/ GotAt(x) = {} /\ \E k \in HeldAt(x) : HeldAt(x) = {k}
                              \/ HeldAt(x) = {} /\ \E g \in GotAt(x) : GotAt(x) = {g}
                         ELSE HeldAt(x) = {} /\ GotAt(x) = {}
      BY DEF AccountInv, PlaceInv
    <3>2. /\ HeldAt(x)' = HeldAt(x) \ {First}
          /\ GotAt(x)' = GotAt(x) \cup (IF ItemAt(First) = x THEN {<<c, Len(Taken[c]) + 1>>} ELSE {})
      BY <1>2
    <3>3. First \in HeldAt(x) <=> ItemAt(First) = x
      BY <1>1 DEF HeldAt
    <3> HIDE DEF x
    <3>4. IF n < Sent[v] THEN \/ GotAt(x)' = {} /\ \E k \in HeldAt(x)' : HeldAt(x)' = {k}
                              \/ HeldAt(x)' = {} /\ \E g \in GotAt(x)' : GotAt(x)' = {g}
                         ELSE HeldAt(x)' = {} /\ GotAt(x)' = {}
      BY <3>1, <3>2, <3>3
    <3> QED
      BY <1>4, <3>4 DEF x
  <2> QED
    BY <2>1 DEF PlaceInv, Item, Stop
<1>7. BehindInv'
  <2>1. ASSUME NEW v \in EndedProducers', NEW n \in 0 .. item_num - 1, NEW k \in HeldAt(Item(v, n))'
        PROVE  \E l \in HeldAt(Stop)' : l > k
    <3>1. k \in HeldAt(Item(v, n)) /\ v \in EndedProducers
      BY <1>2, <1>3
    <3>2. PICK l \in HeldAt(Stop) : l > k
      BY <3>1 DEF AccountInv, BehindInv
    <3>3. First \in Int /\ k \in Int /\ k >= First
      BY <3>1, Bounds DEF RInv, HeldAt, Held
    <3>4. l \in HeldAt(Stop)'
      BY <1>2, <3>2, <3>3
    <3> QED
      BY <3>2, <3>4
  <2> QED
    BY <2>1 DEF BehindInv, Item, Stop
<1>8. StopInv'
  <2>1. /\ IsFiniteSet(HeldAt(Stop)) /\ IsFiniteSet(EndedConsumers)
        /\ Cardinality(HeldAt(Stop)) + Cardinality(EndedConsumers) = Cardinality(EndedProducers)
    BY CountsFinite DEF AccountInv, StopInv
  <2>2. HeldAt(Stop)' = HeldAt(Stop) \ {First}
    BY <1>2
  <2>3. First \in HeldAt(Stop) <=> ItemAt(First) = Stop
    BY <1>1 DEF HeldAt
  <2>4. CASE ItemAt(First) = Stop
    <3>1. /\ Cardinality(HeldAt(Stop) \ {First}) = Cardinality(HeldAt(Stop)) - 1
          /\ Cardinality(EndedConsumers \cup {c}) = Cardinality(EndedConsumers) + 1
      BY <1>3, <2>1, <2>3, <2>4, FS_RemoveElement, FS_AddElement
    <3>2. EndedConsumers' = EndedConsumers \cup {c}
      BY <1>3, <2>4
    <3>3. /\ Cardinality(HeldAt(Stop)') = Cardinality(HeldAt(Stop)) - 1
          /\ Cardinality(EndedConsumers') = Cardinality(EndedConsumers) + 1
          /\ Cardinality(EndedProducers') = Cardinality(EndedProducers)
      BY <1>3, <2>2, <3>1, <3>2
    <3>4. Cardinality(HeldAt(Stop)) \in Nat /\ Cardinality(EndedProducers) \in Nat /\ Cardinality(EndedConsumers) \in Nat
      BY CountsFinite, FS_CardinalityType
    <3>5. Cardinality(HeldAt(Stop)') + Cardinality(EndedConsumers') = Cardinality(EndedProducers')
      BY <2>1, <3>3, <3>4
    <3> QED
      BY <3>5 DEF StopInv, Stop
  <2>5. CASE ItemAt(First) # Stop
    <3>1. HeldAt(Stop)' = HeldAt(Stop) /\ EndedConsumers' = EndedConsumers
      BY <1>3, <2>2, <2>3, <2>5
    <3>2. Cardinality(HeldAt(Stop)') + Cardinality(EndedConsumers') = Cardinality(EndedProducers')
      BY <1>3, <2>1, <3>1
    <3> QED
      BY <3>2 DEF StopInv, Stop
  <2> QED
    BY <2>4, <2>5
<1> QED
  BY <1>5, <1>6, <1>7, <1>8 DEF AccountInv

\* Nothing was put at the start.
LEMMA AccountInit == Init => AccountInv
<1> SUFFICES ASSUME Init PROVE AccountInv
  OBVIOUS
<1>1. Held = {} /\ Sent = [w \in Producers |-> 0] /\ Taken = [c \in Consumers |-> <<>>]
  <2>1. BeingPut = {} /\ BeingTaken = {}
    BY DEF Init, BeingPut, BeingTaken, At
  <2>2. First = 0 /\ Last = 0
    BY <2>1, FS_EmptySet DEF Init, First, Last
  <2> QED
    BY <2>2 DEF Init, Held, Sent, Taken, Procs
<1>2. \A x : HeldAt(x) = {} /\ GotAt(x) = {}
  BY <1>1 DEF HeldAt, GotAt
<1>3. EndedConsumers = {} /\ EndedProducers = {}
  BY <1>1, SizeAssumption DEF EndedConsumers, EndedProducers, Ended
<1>4. StopInv
  <2>1. HeldAt(Stop) = {}
    BY <1>2
  <2> QED
    BY <1>3, <2>1, FS_EmptySet DEF StopInv
<1>5. PlaceInv
  BY <1>1, <1>2 DEF PlaceInv
<1>6. KnownInv /\ BehindInv
  BY <1>1, <1>3 DEF KnownInv, BehindInv
<1> QED
  BY <1>4, <1>5, <1>6 DEF AccountInv

\* Every step keeps the account.
LEMMA AccountStep == RInv /\ AccountInv /\ [Next]_vars => AccountInv'
<1> SUFFICES ASSUME RInv, AccountInv, [Next]_vars PROVE AccountInv'
  OBVIOUS
<1>1. Keeps \/ (\E w \in Producers : Puts(w)) \/ (\E c \in Consumers : Takes(c))
  BY Effects
<1> QED
  BY <1>1, AccountKeeps, AccountPuts, AccountTakes

\* At the end every put is over, and a child that was forked has ended.
LEMMA AtTheEnd ==
    ASSUME RInv, AccountInv, parent = "destroyed"
    PROVE  /\ First = f /\ Last = p /\ Taken = taken
           /\ \A w \in Producers : Sent[w] = IF pc[w] = "nofork" THEN 0 ELSE item_num + 1
           /\ EndedProducers = {w \in Producers : pc[w] # "nofork"}
           /\ EndedConsumers = {c \in Consumers : pc[c] # "nofork"}
<1>1. TypeOK /\ ChildInv /\ \A t \in Procs : pc[t] \in {"nofork", "exited"}
  BY DEF RInv, IInv, WaitedInv, At
<1>2. Producers \subseteq Procs /\ Consumers \subseteq Procs
  BY DEF Procs
<1>3. First = f /\ Last = p
  <2>1. BeingPut = {} /\ BeingTaken = {}
    BY <1>1 DEF BeingPut, BeingTaken, At
  <2> QED
    BY <1>1, <2>1, FS_EmptySet DEF First, Last, TypeOK
<1>4. Taken = taken
  <2>1. \A c \in Consumers : pc[c] \notin {"take_unlock", "take_post"}
    BY <1>1, <1>2
  <2>2. Taken = [c \in Consumers |-> taken[c]]
    BY <2>1 DEF Taken
  <2> QED
    BY <1>1, <2>2 DEF TypeOK
<1>5. ASSUME NEW w \in Producers
      PROVE  Sent[w] = IF pc[w] = "nofork" THEN 0 ELSE item_num + 1
  <2>1. Sent[w] = cnt[w]
    <3>1. cnt[w] \in Nat /\ pc[w] \notin {"put_unlock", "put_post"}
      BY <1>1, <1>2 DEF TypeOK
    <3> QED
      BY <3>1 DEF Sent
  <2> QED
    BY <1>1, <1>2, <2>1 DEF ChildInv
<1>6. EndedProducers = {w \in Producers : pc[w] # "nofork"}
  BY <1>5, SizeAssumption DEF EndedProducers
<1>7. ASSUME NEW c \in Consumers
      PROVE  Ended(c) <=> pc[c] # "nofork"
  <2>1. CASE pc[c] = "nofork"
    BY <1>1, <1>4, <2>1 DEF ChildInv, Ended
  <2>2. CASE pc[c] # "nofork"
    <3>1. taken[c] # <<>> /\ taken[c][Len(taken[c])].author = -1
      BY <1>1, <1>2, <2>2 DEF ChildInv, LastAuthor
    <3>2. PICK w \in Producers, n \in 0 .. item_num : taken[c][Len(taken[c])] = Item(w, n)
      BY <1>4, <3>1 DEF AccountInv, KnownInv, Items
    <3>3. Item(w, n) = Stop
      BY <3>1, <3>2 DEF Item, Stop, Producers
    <3> QED
      BY <1>4, <2>2, <3>1, <3>2, <3>3 DEF Ended
  <2> QED
    BY <2>1, <2>2
<1>8. EndedConsumers = {c \in Consumers : pc[c] # "nofork"}
  BY <1>7 DEF EndedConsumers
<1> QED
  BY <1>3, <1>4, <1>5, <1>6, <1>8

\* As many stop objects as ended consumers: none is left, nor a node before it.
LEMMA EmptyAtTheEnd ==
    ASSUME RInv, AccountInv, parent = "destroyed", Balanced
    PROVE  Held = {}
<1>1. HeldAt(Stop) = {}
  <2>1. Cardinality(EndedConsumers) = Cardinality(EndedProducers)
    BY AtTheEnd DEF Balanced
  <2>2. IsFiniteSet(HeldAt(Stop)) /\ IsFiniteSet(EndedConsumers)
    BY CountsFinite
  <2>3. Cardinality(HeldAt(Stop)) \in Nat /\ Cardinality(EndedConsumers) \in Nat
    BY <2>2, FS_CardinalityType
  <2>4. Cardinality(HeldAt(Stop)) = 0
    BY <2>1, <2>3 DEF AccountInv, StopInv
  <2> QED
    BY <2>2, <2>4, FS_EmptySet
<1>2. ASSUME NEW k \in Held  PROVE FALSE
  <2>1. PICK w \in Producers, n \in 0 .. item_num : ItemAt(k) = Item(w, n)
    BY DEF AccountInv, KnownInv, Items
  <2>2. k \in HeldAt(Item(w, n))
    BY <2>1 DEF HeldAt
  <2>3. CASE n = item_num
    BY <1>1, <2>2, <2>3, ItemFacts
  <2>4. CASE n # item_num
    <3>1. n \in 0 .. item_num - 1
      BY <2>4, SizeAssumption
    <3>2. n < Sent[w]
      BY <2>2, <3>1 DEF AccountInv, PlaceInv
    <3>3. w \in EndedProducers
      BY <3>1, <3>2, AtTheEnd
    <3> QED
      BY <1>1, <2>2, <3>1, <3>3 DEF AccountInv, BehindInv
  <2> QED
    BY <2>3, <2>4
<1> QED
  BY <1>2

\* The account, at the end.
LEMMA AccountMeaning == RInv /\ AccountInv => NothingLeftBehind
<1> SUFFICES ASSUME RInv, AccountInv, parent = "destroyed", Balanced
             PROVE  /\ f = p
                    /\ \A w \in Producers : \A n \in 0 .. item_num - 1 :
                          Cardinality(Deliveries(Item(w, n))) = IF pc[w] = "nofork" THEN 0 ELSE 1
  BY DEF NothingLeftBehind
<1>1. Held = {}
  BY EmptyAtTheEnd
<1>2. f = p
  <2>1. First = f /\ Last = p /\ First \in Int /\ Last \in Int /\ First <= Last
    BY AtTheEnd, Bounds DEF RInv
  <2> QED
    BY <1>1, <2>1 DEF Held
<1>3. ASSUME NEW w \in Producers, NEW n \in 0 .. item_num - 1
      PROVE  Cardinality(Deliveries(Item(w, n))) = IF pc[w] = "nofork" THEN 0 ELSE 1
  <2>1. Deliveries(Item(w, n)) = GotAt(Item(w, n)) /\ HeldAt(Item(w, n)) = {}
    BY <1>1, AtTheEnd DEF Deliveries, GotAt, HeldAt
  <2>2. n < Sent[w] <=> pc[w] # "nofork"
    BY AtTheEnd, SizeAssumption
  <2>3. CASE pc[w] = "nofork"
    <3>1. GotAt(Item(w, n)) = {}
      BY <2>2, <2>3 DEF AccountInv, PlaceInv
    <3> QED
      BY <2>1, <2>3, <3>1, FS_EmptySet
  <2>4. CASE pc[w] # "nofork"
    <3>1. PICK g : GotAt(Item(w, n)) = {g}
      BY <2>1, <2>2, <2>4 DEF AccountInv, PlaceInv
    <3> QED
      BY <2>1, <2>4, <3>1, FS_Singleton
  <2> QED
    BY <2>3, <2>4
<1> QED
  BY <1>2, <1>3

\* When the program ends after balanced forks the queue is empty and every node
\* was returned by exactly one bbq_take, whatever the number of processes, the
\* size of the ring and the forks that failed.
THEOREM Delivered == Spec => []NothingLeftBehind
<1>1. Spec => []RInv
  BY RInit, RStep, PTL DEF Spec
<1>2. Spec => []AccountInv
  BY <1>1, AccountInit, AccountStep, PTL DEF Spec
<1> QED
  BY <1>1, <1>2, AccountMeaning, PTL
------------------------------------------------------------------------------
(* bounded_blocking_queue_semaphore_mmap_unnamed0.  The labels of a process *)
(* between its two semaphore calls, and in the critical section.           *)

Posting0 == {"post_full", "last_full"}
PutHold0 == {"put_mutex", "store", "advance"} \cup Posting0
Claim0 == {"take_mutex", "load", "retreat"}
TakeHold0 == Claim0 \cup {"post_empty", "last_empty"}
Inside0 == {"store", "advance", "load", "retreat"}
Labels0 == {"unborn", "wait_empty", "wait_full", "exited"} \cup PutHold0 \cup TakeHold0

Type0 ==
    /\ mutex \in Nat /\ empty \in Nat /\ full \in Nat /\ f \in Nat /\ p \in Nat
    /\ queue \in [0 .. QUEUE_LEN - 1 -> Nat \cup {Stale}]
    /\ tmp \in [Procs -> Nat \cup {Stale}]
    /\ pc \in [Procs -> Labels0]
    /\ main \in {"fork", "returned"}
    /\ main = "returned" => \A x \in Procs : pc[x] = "exited"

\* The processes of each kind: inside the mutex, holding a credit, about to
\* post full, having claimed an item that f does not count yet; and those
\* that have passed TOTAL_LEN.
nInside == Cardinality(At(Inside0))
nPut0 == Cardinality(At(PutHold0))
nTake0 == Cardinality(At(TakeHold0))
nPosting == Cardinality(At(Posting0))
nClaim == Cardinality(At(Claim0))
nLastPut == Cardinality(At({"last_full", "exited"}) \cap Producers)
nLastTaken == Cardinality(At({"last_empty", "exited"}) \cap Consumers)

counts0 == <<nInside, nPut0, nTake0, nPosting, nClaim, nLastPut, nLastTaken>>

\* The mutex admits one process, every slot is accounted for, full counts what
\* lies between the counters, and beyond TOTAL_LEN a counter grows by one for
\* each process of its kind, which then ends.
Counted0 ==
    /\ mutex + nInside = 1
    /\ empty + full + nPut0 + nTake0 = QUEUE_LEN
    /\ p - f = full + nPosting + nClaim
    /\ (p <= TOTAL_LEN /\ nLastPut = 0) \/ p = TOTAL_LEN + nLastPut
    /\ (f <= TOTAL_LEN /\ nLastTaken = 0) \/ f = TOTAL_LEN + nLastTaken

\* Node k is in its slot from the time it is stored until f passes it.
Stored0 ==
    /\ \A k \in f .. p - 1 : queue[k % QUEUE_LEN] = k
    /\ \A x \in Procs : pc[x] = "advance" => queue[p % QUEUE_LEN] = p
    /\ TakesInOrder

Inv0 == Type0 /\ Counted0 /\ Stored0

\* How a step of process t from a to b changes the counts.
LEMMA Counts0 ==
    ASSUME Type0, NEW t \in Procs, NEW a, NEW b, Step(t, a, b)
    PROVE  /\ nInside' = nInside + In(b, Inside0) - In(a, Inside0)
           /\ nPut0' = nPut0 + In(b, PutHold0) - In(a, PutHold0)
           /\ nTake0' = nTake0 + In(b, TakeHold0) - In(a, TakeHold0)
           /\ nPosting' = nPosting + In(b, Posting0) - In(a, Posting0)
           /\ nClaim' = nClaim + In(b, Claim0) - In(a, Claim0)
           /\ t \in Producers =>
                 nLastPut' = nLastPut + In(b, {"last_full", "exited"}) - In(a, {"last_full", "exited"})
           /\ t \notin Producers => nLastPut' = nLastPut
           /\ t \in Consumers =>
                 nLastTaken' = nLastTaken + In(b, {"last_empty", "exited"}) - In(a, {"last_empty", "exited"})
           /\ t \notin Consumers => nLastTaken' = nLastTaken
<1>0. pc \in [Procs -> Labels0]
  BY DEF Type0
<1>1. ASSUME NEW L
      PROVE  Cardinality(At(L)') = Cardinality(At(L)) + In(b, L) - In(a, L)
  BY <1>0, StepCount DEF In
<1>2. ASSUME NEW L, NEW P
      PROVE  Cardinality(At(L)' \cap P) = Cardinality(At(L) \cap P)
                + (IF b \in L /\ t \in P THEN 1 ELSE 0) - (IF a \in L /\ t \in P THEN 1 ELSE 0)
  BY <1>0, PartCount
<1>3. /\ nInside' = nInside + In(b, Inside0) - In(a, Inside0)
      /\ nPut0' = nPut0 + In(b, PutHold0) - In(a, PutHold0)
      /\ nTake0' = nTake0 + In(b, TakeHold0) - In(a, TakeHold0)
      /\ nPosting' = nPosting + In(b, Posting0) - In(a, Posting0)
      /\ nClaim' = nClaim + In(b, Claim0) - In(a, Claim0)
  BY <1>1 DEF nInside, nPut0, nTake0, nPosting, nClaim
<1>4. /\ nLastPut \in Nat /\ nLastTaken \in Nat
  BY AtFinite, FS_Subset, FS_CardinalityType DEF nLastPut, nLastTaken
<1>5. /\ t \in Producers =>
            nLastPut' = nLastPut + In(b, {"last_full", "exited"}) - In(a, {"last_full", "exited"})
      /\ t \notin Producers => nLastPut' = nLastPut
  BY <1>2, <1>4 DEF nLastPut, In
<1>6. /\ t \in Consumers =>
            nLastTaken' = nLastTaken + In(b, {"last_empty", "exited"}) - In(a, {"last_empty", "exited"})
      /\ t \notin Consumers => nLastTaken' = nLastTaken
  BY <1>2, <1>4 DEF nLastTaken, In
<1> QED
  BY <1>3, <1>5, <1>6

LEMMA CountTypes0 ==
    /\ nInside \in Nat /\ nPut0 \in Nat /\ nTake0 \in Nat /\ nPosting \in Nat
    /\ nClaim \in Nat /\ nLastPut \in Nat /\ nLastTaken \in Nat
<1>1. /\ IsFiniteSet(At({"last_full", "exited"}) \cap Producers)
      /\ IsFiniteSet(At({"last_empty", "exited"}) \cap Consumers)
  BY AtFinite, FS_Subset, At({"last_full", "exited"}) \cap Producers \subseteq At({"last_full", "exited"}),
     At({"last_empty", "exited"}) \cap Consumers \subseteq At({"last_empty", "exited"})
<1> QED
  BY <1>1, AtFinite, FS_CardinalityType
     DEF nInside, nPut0, nTake0, nPosting, nClaim, nLastPut, nLastTaken

\* A process inside the mutex is alone there.
LEMMA Alone0 ==
    ASSUME Type0, Counted0, NEW s \in Procs, NEW t \in Procs, pc[s] \in Inside0, pc[t] \in Inside0
    PROVE  s = t
<1>1. IsFiniteSet(At(Inside0)) /\ Cardinality(At(Inside0)) \in Nat
  BY AtFinite
<1>2. s \in At(Inside0) /\ t \in At(Inside0)
  BY DEF At
<1>3. Cardinality(At(Inside0)) # 0
  BY <1>1, <1>2, FS_EmptySet
<1>4. Cardinality(At(Inside0)) = 1
  BY <1>1, <1>3 DEF Counted0, nInside, Type0
<1> QED
  BY <1>1, <1>2, <1>4, FS_Singleton

LEMMA Init0Inv == Init0 => Inv0
<1> SUFFICES ASSUME Init0 PROVE Inv0
  OBVIOUS
<1>1. Type0
  BY QueueAssumption DEF Init0, Type0, Labels0
<1>2. ASSUME NEW L, "unborn" \notin L
      PROVE  At(L) = {} /\ Cardinality(At(L)) = 0 /\ \A P : Cardinality(At(L) \cap P) = 0
  <2>1. At(L) = {} /\ \A P : At(L) \cap P = {}
    BY <1>2 DEF At, Init0
  <2> QED
    BY <2>1, FS_EmptySet
<1>3. /\ nInside = 0 /\ nPut0 = 0 /\ nTake0 = 0 /\ nPosting = 0 /\ nClaim = 0
      /\ nLastPut = 0 /\ nLastTaken = 0
  <2>1. /\ "unborn" \notin Inside0 /\ "unborn" \notin PutHold0 /\ "unborn" \notin TakeHold0
        /\ "unborn" \notin Posting0 /\ "unborn" \notin Claim0
    BY DEF Inside0, PutHold0, TakeHold0, Posting0, Claim0
  <2> QED
    BY <1>2, <2>1 DEF nInside, nPut0, nTake0, nPosting, nClaim, nLastPut, nLastTaken
<1>4. Counted0
  BY <1>3, QueueAssumption DEF Counted0, Init0
<1>5. Stored0
  BY DEF Stored0, TakesInOrder, Init0, Procs
<1> QED
  BY <1>1, <1>4, <1>5 DEF Inv0

LEMMA Type0Next == Type0 /\ [Next0]_vars0 => Type0'
<1> SUFFICES ASSUME Type0, [Next0]_vars0 PROVE Type0'
  OBVIOUS
<1> USE QueueAssumption DEF Type0, Labels0, PutHold0, Posting0, TakeHold0, Claim0, shared, sems, Step
<1>a. Producers \subseteq Procs /\ Consumers \subseteq Procs
  BY DEF Procs
<1>b. p % QUEUE_LEN \in 0 .. QUEUE_LEN - 1 /\ f % QUEUE_LEN \in 0 .. QUEUE_LEN - 1
  OBVIOUS
<1>1. CASE Wait
  BY <1>1 DEF Wait
<1>2. ASSUME NEW x \in Procs, Fork0(x) PROVE Type0'
  BY <1>2 DEF Fork0
<1>3. ASSUME NEW x \in Producers, producer_proc(x) PROVE Type0'
  <2>1. CASE WaitEmpty(x)
    BY <1>a, <2>1 DEF WaitEmpty
  <2>2. CASE PutMutex(x)
    BY <1>a, <2>2 DEF PutMutex
  <2>3. CASE Store(x)
    BY <1>a, <1>b, <2>3 DEF Store
  <2>4. CASE Advance(x)
    BY <1>a, <2>4 DEF Advance
  <2>5. CASE PostFull(x)
    BY <1>a, <2>5 DEF PostFull
  <2> QED
    BY <1>3, <2>1, <2>2, <2>3, <2>4, <2>5 DEF producer_proc
<1>4. ASSUME NEW x \in Consumers, consumer_proc(x) PROVE Type0'
  <2>1. CASE WaitFull(x)
    BY <1>a, <2>1 DEF WaitFull
  <2>2. CASE TakeMutex(x)
    BY <1>a, <2>2 DEF TakeMutex
  <2>3. CASE Load(x)
    BY <1>a, <1>b, <2>3 DEF Load
  <2>4. CASE Retreat(x)
    BY <1>a, <2>4 DEF Retreat
  <2>5. CASE PostEmpty(x)
    BY <1>a, <2>5 DEF PostEmpty
  <2> QED
    BY <1>4, <2>1, <2>2, <2>3, <2>4, <2>5 DEF consumer_proc
<1>5. CASE UNCHANGED vars0
  BY <1>5 DEF vars0
<1> QED
  BY <1>1, <1>2, <1>3, <1>4, <1>5 DEF Next0

LEMMA Counted0Next == Type0 /\ Counted0 /\ [Next0]_vars0 => Counted0'
<1> SUFFICES ASSUME Type0, Counted0, [Next0]_vars0 PROVE Counted0'
  OBVIOUS
<1>a. /\ mutex \in Nat /\ empty \in Nat /\ full \in Nat /\ f \in Nat /\ p \in Nat
      /\ QUEUE_LEN \in Nat /\ TOTAL_LEN \in Nat
  BY QueueAssumption DEF Type0
<1>b. /\ nInside \in Nat /\ nPut0 \in Nat /\ nTake0 \in Nat /\ nPosting \in Nat
      /\ nClaim \in Nat /\ nLastPut \in Nat /\ nLastTaken \in Nat
  BY CountTypes0
<1>c. ASSUME UNCHANGED pc PROVE UNCHANGED counts0
  BY <1>c DEF counts0, nInside, nPut0, nTake0, nPosting, nClaim, nLastPut, nLastTaken, At
<1>d. /\ Producers \subseteq Procs /\ Consumers \subseteq Procs
      /\ Producers \cap Consumers = {}
  BY ProcessAssumption DEF Procs, Producers, Consumers
<1> USE DEF In, Inside0, PutHold0, TakeHold0, Posting0, Claim0
<1>1. CASE Wait \/ UNCHANGED vars0
  BY <1>1, <1>c DEF Wait, vars0, shared, sems, counts0, Counted0
<1>2. ASSUME NEW x \in Procs, Fork0(x) PROVE Counted0'
  <2>1. PICK l \in {"wait_empty", "wait_full"} : Step(x, "unborn", l)
    BY <1>2 DEF Fork0
  <2>2. UNCHANGED counts0
    BY <1>b, <1>d, <2>1, Counts0 DEF counts0
  <2> QED
    BY <1>2, <2>2 DEF Fork0, shared, sems, counts0, Counted0
<1>3. ASSUME NEW x \in Producers, producer_proc(x) PROVE Counted0'
  <2> x \in Procs /\ x \in Producers /\ x \notin Consumers
    BY <1>d
  <2>1. CASE WaitEmpty(x)
    <3>1. Step(x, "wait_empty", "put_mutex")
      BY <2>1 DEF WaitEmpty
    <3>2. /\ nPut0' = nPut0 + 1
          /\ UNCHANGED <<nInside, nTake0, nPosting, nClaim, nLastPut, nLastTaken>>
      BY <1>b, <3>1, Counts0
    <3> QED
      BY <1>a, <1>b, <2>1, <3>2 DEF WaitEmpty, shared, Counted0
  <2>2. CASE PutMutex(x)
    <3>1. Step(x, "put_mutex", "store")
      BY <2>2 DEF PutMutex
    <3>2. /\ nInside' = nInside + 1
          /\ UNCHANGED <<nPut0, nTake0, nPosting, nClaim, nLastPut, nLastTaken>>
      BY <1>b, <3>1, Counts0
    <3> QED
      BY <1>a, <1>b, <2>2, <3>2 DEF PutMutex, shared, Counted0
  <2>3. CASE Store(x)
    <3>1. Step(x, "store", "advance")
      BY <2>3 DEF Store
    <3>2. UNCHANGED <<nInside, nPut0, nTake0, nPosting, nClaim, nLastPut, nLastTaken>>
      BY <1>b, <3>1, Counts0
    <3> QED
      BY <2>3, <3>2 DEF Store, sems, Counted0
  <2>4. CASE Advance(x)
    <3>1. CASE p + 1 > TOTAL_LEN
      <4>1. Step(x, "advance", "last_full")
        BY <2>4, <3>1 DEF Advance
      <4>2. /\ nInside' = nInside - 1 /\ nPosting' = nPosting + 1 /\ nLastPut' = nLastPut + 1
            /\ UNCHANGED <<nPut0, nTake0, nClaim, nLastTaken>>
        BY <1>b, <4>1, Counts0
      <4> QED
        BY <1>a, <1>b, <2>4, <3>1, <4>2 DEF Advance, Counted0
    <3>2. CASE ~(p + 1 > TOTAL_LEN)
      <4>1. Step(x, "advance", "post_full")
        BY <2>4, <3>2 DEF Advance
      <4>2. /\ nInside' = nInside - 1 /\ nPosting' = nPosting + 1
            /\ UNCHANGED <<nPut0, nTake0, nClaim, nLastPut, nLastTaken>>
        BY <1>b, <4>1, Counts0
      <4> QED
        BY <1>a, <1>b, <2>4, <3>2, <4>2 DEF Advance, Counted0
    <3> QED
      BY <3>1, <3>2
  <2>5. CASE PostFull(x)
    <3>1. Step(x, "post_full", "wait_empty") \/ Step(x, "last_full", "exited")
      BY <2>5 DEF PostFull
    <3>2. /\ nPut0' = nPut0 - 1 /\ nPosting' = nPosting - 1
          /\ UNCHANGED <<nInside, nTake0, nClaim, nLastPut, nLastTaken>>
      <4>1. CASE Step(x, "post_full", "wait_empty")
        BY <1>b, <4>1, Counts0
      <4>2. CASE Step(x, "last_full", "exited")
        BY <1>b, <4>2, Counts0
      <4> QED
        BY <3>1, <4>1, <4>2
    <3> QED
      BY <1>a, <1>b, <2>5, <3>2 DEF PostFull, shared, Counted0
  <2> QED
    BY <1>3, <2>1, <2>2, <2>3, <2>4, <2>5 DEF producer_proc
<1>4. ASSUME NEW x \in Consumers, consumer_proc(x) PROVE Counted0'
  <2> x \in Procs /\ x \in Consumers /\ x \notin Producers
    BY <1>d
  <2>1. CASE WaitFull(x)
    <3>1. Step(x, "wait_full", "take_mutex")
      BY <2>1 DEF WaitFull
    <3>2. /\ nTake0' = nTake0 + 1 /\ nClaim' = nClaim + 1
          /\ UNCHANGED <<nInside, nPut0, nPosting, nLastPut, nLastTaken>>
      BY <1>b, <3>1, Counts0
    <3> QED
      BY <1>a, <1>b, <2>1, <3>2 DEF WaitFull, shared, Counted0
  <2>2. CASE TakeMutex(x)
    <3>1. Step(x, "take_mutex", "load")
      BY <2>2 DEF TakeMutex
    <3>2. /\ nInside' = nInside + 1
          /\ UNCHANGED <<nPut0, nTake0, nPosting, nClaim, nLastPut, nLastTaken>>
      BY <1>b, <3>1, Counts0
    <3> QED
      BY <1>a, <1>b, <2>2, <3>2 DEF TakeMutex, shared, Counted0
  <2>3. CASE Load(x)
    <3>1. Step(x, "load", "retreat")
      BY <2>3 DEF Load
    <3>2. UNCHANGED <<nInside, nPut0, nTake0, nPosting, nClaim, nLastPut, nLastTaken>>
      BY <1>b, <3>1, Counts0
    <3> QED
      BY <2>3, <3>2 DEF Load, shared, sems, Counted0
  <2>4. CASE Retreat(x)
    <3>1. CASE f + 1 > TOTAL_LEN
      <4>1. Step(x, "retreat", "last_empty")
        BY <2>4, <3>1 DEF Retreat
      <4>2. /\ nInside' = nInside - 1 /\ nClaim' = nClaim - 1 /\ nLastTaken' = nLastTaken + 1
            /\ UNCHANGED <<nPut0, nTake0, nPosting, nLastPut>>
        BY <1>b, <4>1, Counts0
      <4> QED
        BY <1>a, <1>b, <2>4, <3>1, <4>2 DEF Retreat, Counted0
    <3>2. CASE ~(f + 1 > TOTAL_LEN)
      <4>1. Step(x, "retreat", "post_empty")
        BY <2>4, <3>2 DEF Retreat
      <4>2. /\ nInside' = nInside - 1 /\ nClaim' = nClaim - 1
            /\ UNCHANGED <<nPut0, nTake0, nPosting, nLastPut, nLastTaken>>
        BY <1>b, <4>1, Counts0
      <4> QED
        BY <1>a, <1>b, <2>4, <3>2, <4>2 DEF Retreat, Counted0
    <3> QED
      BY <3>1, <3>2
  <2>5. CASE PostEmpty(x)
    <3>1. Step(x, "post_empty", "wait_full") \/ Step(x, "last_empty", "exited")
      BY <2>5 DEF PostEmpty
    <3>2. /\ nTake0' = nTake0 - 1
          /\ UNCHANGED <<nInside, nPut0, nPosting, nClaim, nLastPut, nLastTaken>>
      <4>1. CASE Step(x, "post_empty", "wait_full")
        BY <1>b, <4>1, Counts0
      <4>2. CASE Step(x, "last_empty", "exited")
        BY <1>b, <4>2, Counts0
      <4> QED
        BY <3>1, <4>1, <4>2
    <3> QED
      BY <1>a, <1>b, <2>5, <3>2 DEF PostEmpty, shared, Counted0
  <2> QED
    BY <1>4, <2>1, <2>2, <2>3, <2>4, <2>5 DEF consumer_proc
<1> QED
  BY <1>1, <1>2, <1>3, <1>4 DEF Next0

\* A process about to store has a free slot, one about to load finds an item.
LEMMA Window0 ==
    ASSUME Type0, Counted0, NEW x \in Procs
    PROVE  /\ f <= p
           /\ pc[x] = "store" => p < f + QUEUE_LEN
           /\ pc[x] = "load" => f < p
<1>1. /\ empty \in Nat /\ full \in Nat /\ f \in Nat /\ p \in Nat
      /\ nPut0 \in Nat /\ nTake0 \in Nat /\ nPosting \in Nat /\ nClaim \in Nat
      /\ QUEUE_LEN \in Nat
  BY CountTypes0, QueueAssumption DEF Type0
<1>2. nPosting <= nPut0 /\ nClaim <= nTake0
  <2>1. At(Posting0) \subseteq At(PutHold0) /\ At(Claim0) \subseteq At(TakeHold0)
    BY DEF At, PutHold0, TakeHold0
  <2> QED
    BY <2>1, AtFinite, FS_Subset DEF nPosting, nPut0, nClaim, nTake0
<1>3. ASSUME pc[x] = "store" PROVE nPosting < nPut0
  <2>1. x \in At(PutHold0) /\ x \notin At(Posting0) /\ At(Posting0) \subseteq At(PutHold0)
    BY <1>3 DEF At, PutHold0, Posting0
  <2>2. nPosting # nPut0
    BY <2>1, AtFinite, FS_Subset DEF nPosting, nPut0
  <2> QED
    BY <1>1, <1>2, <2>2
<1>4. ASSUME pc[x] = "load" PROVE nClaim # 0
  <2>1. x \in At(Claim0)
    BY <1>4 DEF At, Claim0
  <2> QED
    BY <2>1, AtFinite, FS_EmptySet DEF nClaim
<1> QED
  BY <1>1, <1>2, <1>3, <1>4 DEF Counted0

LEMMA Stored0Next == Inv0 /\ [Next0]_vars0 => Stored0'
<1> SUFFICES ASSUME Inv0, [Next0]_vars0 PROVE Stored0'
  OBVIOUS
<1>a. Type0 /\ Counted0 /\ Stored0 /\ TakesInOrder
  BY DEF Inv0, Stored0
<1>b. f \in Nat /\ p \in Nat /\ QUEUE_LEN \in Nat \ {0}
  BY <1>a, QueueAssumption DEF Type0
<1>c. /\ Producers \subseteq Procs /\ Consumers \subseteq Procs
  BY DEF Procs
\* A step that leaves ring and counters alone, and brings nobody to the two
\* labels that say something of them.
<1>1. ASSUME NEW x \in Procs, NEW a, NEW b, Step(x, a, b), b \notin {"advance", "retreat"},
             UNCHANGED <<queue, f, p, tmp>>
      PROVE  Stored0'
  BY <1>1, <1>a, <1>c DEF Stored0, TakesInOrder, Step, Type0
<1>2. CASE Wait \/ UNCHANGED vars0
  BY <1>2, <1>a DEF Wait, vars0, shared, sems, Stored0, TakesInOrder
<1>3. ASSUME NEW x \in Procs, Fork0(x) PROVE Stored0'
  BY <1>1, <1>3 DEF Fork0, shared
<1>4. ASSUME NEW x \in Producers, producer_proc(x) PROVE Stored0'
  <2> x \in Procs
    BY <1>c
  <2>1. CASE WaitEmpty(x) \/ PutMutex(x)
    BY <1>1, <2>1 DEF WaitEmpty, PutMutex, shared
  <2>2. CASE PostFull(x)
    BY <1>1, <2>2 DEF PostFull, shared
  <2>3. CASE Store(x)
    <3>1. pc[x] = "store" /\ pc' = [pc EXCEPT ![x] = "advance"]
          /\ tmp' = [tmp EXCEPT ![x] = p] /\ queue' = [queue EXCEPT ![p % QUEUE_LEN] = p]
          /\ f' = f /\ p' = p
      BY <2>3 DEF Store, Step
    <3>2. p < f + QUEUE_LEN
      BY <1>a, <3>1, Window0
    <3>3. p % QUEUE_LEN \in 0 .. QUEUE_LEN - 1
      BY <1>b
    <3>4. queue'[p % QUEUE_LEN] = p
      BY <3>1, <3>3, <1>a DEF Type0
    <3>5. ASSUME NEW k \in f .. p - 1 PROVE queue'[k % QUEUE_LEN] = k
      <4>1. k \in Nat /\ k < p /\ p < k + QUEUE_LEN
        BY <1>b, <3>2
      <4>2. k % QUEUE_LEN # p % QUEUE_LEN
        BY <1>b, <4>1, ModWindow
      <4>3. k % QUEUE_LEN \in 0 .. QUEUE_LEN - 1
        BY <1>b
      <4> QED
        BY <4>2, <4>3, <3>1, <1>a DEF Type0, Stored0
    <3>6. \A y \in Procs : pc[y] # "retreat"
      BY <1>a, <3>1, Alone0 DEF Inside0
    <3>7. TakesInOrder'
      BY <3>1, <3>6, <1>a, <1>c DEF TakesInOrder, Type0
    <3> QED
      BY <3>1, <3>4, <3>5, <3>7 DEF Stored0
  <2>4. CASE Advance(x)
    <3>1. pc[x] = "advance" /\ p' = p + 1 /\ f' = f /\ queue' = queue /\ tmp' = tmp
          /\ \E l \in {"last_full", "post_full"} : pc' = [pc EXCEPT ![x] = l]
      BY <2>4 DEF Advance, Step
    <3>2. \A y \in Procs : pc'[y] # "advance"
      BY <1>a, <3>1, Alone0 DEF Inside0, Type0
    <3>3. queue[p % QUEUE_LEN] = p
      BY <1>a, <3>1 DEF Stored0
    <3>4. \A k \in f .. p : queue[k % QUEUE_LEN] = k
      BY <1>a, <1>b, <3>3 DEF Stored0
    <3>5. TakesInOrder'
      BY <3>1, <1>a, <1>c DEF TakesInOrder, Type0
    <3> QED
      BY <1>b, <3>1, <3>2, <3>4, <3>5 DEF Stored0
  <2> QED
    BY <1>4, <2>1, <2>2, <2>3, <2>4 DEF producer_proc
<1>5. ASSUME NEW x \in Consumers, consumer_proc(x) PROVE Stored0'
  <2> x \in Procs
    BY <1>c
  <2>1. CASE WaitFull(x) \/ TakeMutex(x)
    BY <1>1, <2>1 DEF WaitFull, TakeMutex, shared
  <2>2. CASE PostEmpty(x)
    BY <1>1, <2>2 DEF PostEmpty, shared
  <2>3. CASE Load(x)
    <3>1. pc[x] = "load" /\ pc' = [pc EXCEPT ![x] = "retreat"]
          /\ tmp' = [tmp EXCEPT ![x] = queue[f % QUEUE_LEN]]
          /\ queue' = queue /\ f' = f /\ p' = p
      BY <2>3 DEF Load, Step, shared
    <3>2. f < p
      BY <1>a, <3>1, Window0
    <3>3. queue[f % QUEUE_LEN] = f
      BY <1>a, <1>b, <3>2 DEF Stored0
    <3> QED
      BY <3>1, <3>3, <1>a, <1>c DEF Stored0, TakesInOrder, Type0
  <2>4. CASE Retreat(x)
    <3>1. pc[x] = "retreat" /\ f' = f + 1 /\ p' = p /\ queue' = queue /\ tmp' = tmp
          /\ \E l \in {"last_empty", "post_empty"} : pc' = [pc EXCEPT ![x] = l]
      BY <2>4 DEF Retreat, Step
    <3>2. \A y \in Procs : pc'[y] # "retreat" /\ (pc'[y] = "advance" => pc[y] = "advance")
      BY <1>a, <3>1, Alone0 DEF Inside0, Type0
    <3>3. \A k \in f + 1 .. p - 1 : queue[k % QUEUE_LEN] = k
      BY <1>a, <1>b DEF Stored0
    <3>4. \A y \in Procs : pc'[y] = "advance" => queue'[p' % QUEUE_LEN] = p'
      BY <1>a, <3>1, <3>2 DEF Stored0
    <3>5. TakesInOrder'
      BY <3>2, <1>c DEF TakesInOrder
    <3> QED
      BY <3>1, <3>3, <3>4, <3>5 DEF Stored0
  <2> QED
    BY <1>5, <2>1, <2>2, <2>3, <2>4 DEF consumer_proc
<1> QED
  BY <1>2, <1>3, <1>4, <1>5 DEF Next0

\* The inductive invariant of the first version.
THEOREM Inductive0 == Spec0 => []Inv0
<1>1. Inv0 /\ [Next0]_vars0 => Inv0'
  BY Type0Next, Counted0Next, Stored0Next DEF Inv0
<1> QED
  BY <1>1, Init0Inv, PTL DEF Spec0

\* consumer_proc: whoever has loaded a node from s->queue holds the node that
\* f counts, for any number of processes, ring size and total.
THEOREM NodesInOrder == Spec0 => []TakesInOrder
<1>1. Inv0 => TakesInOrder
  BY DEF Inv0, Stored0
<1> QED
  BY <1>1, Inductive0, PTL

\* With as many consumers as producers, as main() has them, every item has been
\* taken when all have ended: TOTAL_LEN, and one more for each producer.
THEOREM NothingLeft0 ==
    ASSUME producer_num = consumer_num, producer_num > 0
    PROVE  Spec0 => []AllTaken
<1>1. Inv0 => AllTaken
  <2> SUFFICES ASSUME Inv0, main = "returned"
               PROVE  f = p /\ p = TOTAL_LEN + producer_num
    BY DEF AllTaken
  <2>1. \A x \in Procs : pc[x] = "exited"
    BY DEF Inv0, Type0
  <2>2. /\ At({"last_full", "exited"}) \cap Producers = Producers
        /\ At({"last_empty", "exited"}) \cap Consumers = Consumers
    BY <2>1 DEF At, Procs
  <2>3. Cardinality(Producers) = producer_num /\ Cardinality(Consumers) = consumer_num
    BY ProcessAssumption, FS_Interval DEF Producers, Consumers
  <2>4. nLastPut = producer_num /\ nLastTaken = producer_num
    BY <2>2, <2>3 DEF nLastPut, nLastTaken
  <2> QED
    BY <2>4, ProcessAssumption, QueueAssumption DEF Inv0, Type0, Counted0
<1> QED
  BY <1>1, Inductive0, PTL

=============================================================================
