---------------------------- MODULE SharedQueue0 ----------------------------
(***************************************************************************)
(* bounded_blocking_queue_semaphore_mmap_unnamed0/main.cpp: producers and  *)
(* consumers, forked one by one, share a ring and three semaphores in a    *)
(* mapped file.  Nobody counts his own items: each process stops when the  *)
(* counter that it shares with its kind has passed TOTAL_LEN.              *)
(*                                                                         *)
(* A step is a semaphore call, or a store to the shared memory.  A Node is *)
(* its id; the file may hold nodes of an earlier run, whose ids mean       *)
(* nothing.                                                                *)
(***************************************************************************)
EXTENDS QueueProcesses

CONSTANTS QUEUE_LEN, TOTAL_LEN

ASSUME QueueAssumption ==
    /\ QUEUE_LEN \in Nat \ {0}
    /\ TOTAL_LEN \in Nat

\* The contents of a slot that this run has not written.
Stale == -1

VARIABLES
    queue,                  \* the ring
    tmp,                    \* the node each process has at hand
    main                    \* main(): forks, waits for all, returns

shared == <<queue, f, p>>
vars0 == <<shared, sems, pc, tmp, main>>

Init0 ==
    /\ queue = [n \in 0 .. QUEUE_LEN - 1 |-> Stale]
    /\ f = 0 /\ p = 0
    /\ mutex = 1 /\ empty = QUEUE_LEN /\ full = 0
    /\ pc = [x \in Procs |-> "unborn"]
    /\ tmp = [x \in Procs |-> Stale]
    /\ main = "fork"

\* The child leaves the loop of main for its procedure.
Fork0(x) ==
    /\ main = "fork"
    /\ \A y \in Procs : y < x => pc[y] # "unborn"
    /\ Step(x, "unborn", IF x \in Producers THEN "wait_empty" ELSE "wait_full")
    /\ UNCHANGED <<shared, sems, tmp, main>>

------------------------------------------------------------------------------
(* producer_proc.                                                          *)

WaitEmpty(x) ==
    /\ Step(x, "wait_empty", "put_mutex")
    /\ empty > 0
    /\ empty' = empty - 1
    /\ UNCHANGED <<shared, mutex, full, tmp, main>>

PutMutex(x) ==
    /\ Step(x, "put_mutex", "store")
    /\ mutex > 0
    /\ mutex' = mutex - 1
    /\ UNCHANGED <<shared, empty, full, tmp, main>>

\* s->queue[addr] = tmp, whose id is s->p.
Store(x) ==
    /\ Step(x, "store", "advance")
    /\ tmp' = [tmp EXCEPT ![x] = p]
    /\ queue' = [queue EXCEPT ![p % QUEUE_LEN] = p]
    /\ UNCHANGED <<f, p, sems, main>>

\* s->p++, the test for the end, and sem_post(&s->mutex).
Advance(x) ==
    /\ Step(x, "advance", IF p + 1 > TOTAL_LEN THEN "last_full" ELSE "post_full")
    /\ p' = p + 1
    /\ mutex' = mutex + 1
    /\ UNCHANGED <<queue, f, empty, full, tmp, main>>

\* Mutant: a producer that has seen the end leaves without sem_post(&s->full).
PostFullUnlessLast(x) ==
    /\ \/ Step(x, "post_full", "wait_empty") /\ full' = full + 1
       \/ Step(x, "last_full", "exited") /\ UNCHANGED full
    /\ UNCHANGED <<shared, mutex, empty, tmp, main>>

PostFull(x) ==
    /\ Step(x, "post_full", "wait_empty") \/ Step(x, "last_full", "exited")
    /\ full' = full + 1
    /\ UNCHANGED <<shared, mutex, empty, tmp, main>>

------------------------------------------------------------------------------
(* consumer_proc.                                                          *)

WaitFull(x) ==
    /\ Step(x, "wait_full", "take_mutex")
    /\ full > 0
    /\ full' = full - 1
    /\ UNCHANGED <<shared, mutex, empty, tmp, main>>

\* Mutant: a consumer does not enter the mutex, it only leaves it.
TakeNoMutex(x) ==
    /\ Step(x, "take_mutex", "load")
    /\ UNCHANGED <<shared, sems, tmp, main>>

TakeMutex(x) ==
    /\ Step(x, "take_mutex", "load")
    /\ mutex > 0
    /\ mutex' = mutex - 1
    /\ UNCHANGED <<shared, empty, full, tmp, main>>

\* tmp = s->queue[addr].
Load(x) ==
    /\ Step(x, "load", "retreat")
    /\ tmp' = [tmp EXCEPT ![x] = queue[f % QUEUE_LEN]]
    /\ UNCHANGED <<shared, sems, main>>

\* Mutant: the end is reached one item early.
RetreatEarly(x) ==
    /\ Step(x, "retreat", IF f + 1 >= TOTAL_LEN THEN "last_empty" ELSE "post_empty")
    /\ f' = f + 1
    /\ mutex' = mutex + 1
    /\ UNCHANGED <<queue, p, empty, full, tmp, main>>

\* s->f++, the test for the end, and sem_post(&s->mutex).
Retreat(x) ==
    /\ Step(x, "retreat", IF f + 1 > TOTAL_LEN THEN "last_empty" ELSE "post_empty")
    /\ f' = f + 1
    /\ mutex' = mutex + 1
    /\ UNCHANGED <<queue, p, empty, full, tmp, main>>

PostEmpty(x) ==
    /\ Step(x, "post_empty", "wait_full") \/ Step(x, "last_empty", "exited")
    /\ empty' = empty + 1
    /\ UNCHANGED <<shared, mutex, full, tmp, main>>

------------------------------------------------------------------------------
producer_proc(x) ==
    WaitEmpty(x) \/ PutMutex(x) \/ Store(x) \/ Advance(x) \/ PostFull(x)

consumer_proc(x) ==
    WaitFull(x) \/ TakeMutex(x) \/ Load(x) \/ Retreat(x) \/ PostEmpty(x)

\* wait() until there are no more children.
Wait ==
    /\ main = "fork"
    /\ \A x \in Procs : pc[x] = "exited"
    /\ main' = "returned"
    /\ UNCHANGED <<shared, sems, pc, tmp>>

Next0 ==
    \/ Wait
    \/ \E x \in Procs : Fork0(x)
    \/ \E x \in Producers : producer_proc(x)
    \/ \E x \in Consumers : consumer_proc(x)

Spec0 == Init0 /\ [][Next0]_vars0

\* Each process that can run does; the semaphores need not be fair, for a
\* process passes them finitely often.
FairSpec0 ==
    /\ Spec0
    /\ WF_vars0(Wait)
    /\ \A x \in Procs : WF_vars0(Fork0(x))
    /\ \A x \in Producers : WF_vars0(producer_proc(x))
    /\ \A x \in Consumers : WF_vars0(consumer_proc(x))

------------------------------------------------------------------------------
(* Properties.                                                             *)

\* Nobody ever takes a node that is stale, twice, or out of order: whoever has
\* loaded a node holds the one that f counts.
TakesInOrder ==
    \A x \in Consumers : pc[x] = "retreat" => tmp[x] = f

\* Every item that was put has been taken when all processes have ended, and
\* there are TOTAL_LEN of them and one for each producer.
AllTaken ==
    main = "returned" => f = p /\ p = TOTAL_LEN + producer_num

\* With as many consumers as producers the program ends.
ProgramEnds == <>(main = "returned")
=============================================================================
