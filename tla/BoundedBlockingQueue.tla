------------------------ MODULE BoundedBlockingQueue ------------------------
(***************************************************************************)
(* process/process_communication/                                          *)
(*     bounded_blocking_queue_semaphore_mmap_unnamed1                      *)
(*                                                                         *)
(* A bounded queue in shared memory, guarded by three POSIX semaphores,    *)
(* and the program that uses it: a parent forks producer_num producers and *)
(* consumer_num consumers, waits for all of them and destroys the queue.   *)
(* A producer ends by putting a stop object, a consumer ends by taking     *)
(* one.                                                                    *)
(*                                                                         *)
(* One action is one access to shared memory: the two words of a Node are  *)
(* copied one at a time, and  p++  is a load followed by a store.          *)
(***************************************************************************)
EXTENDS QueueProcesses, Sequences

CONSTANTS
    queue_size, item_num,
    ForkFailures    \* how many fork() calls may fail

ASSUME SizeAssumption ==
    /\ queue_size \in Nat \ {0}
    /\ item_num \in Nat
    /\ ForkFailures \in Nat

\* What the bytes of a Node can hold: the words of nodes, or the zeroes of mmap().
Cell == [author : Producers \cup {-1, 0}, id : 0 .. item_num]
Stop == [author |-> -1, id |-> 0]
Slots == 0 .. queue_size - 1

VARIABLES
    que,                    \* que[s]: the Node in slot s
    parent,                 \* where main() is in the parent
    reaped,                 \* the children whose end a wait() has returned
    idx,                    \* idx[t]: the counter value t loaded from p or f
    node,                   \* node[c]: the local variable of consumer c
    cnt,                    \* cnt[t]: how many bbq_put calls t has finished
    taken                   \* taken[c]: the nodes bbq_take has returned to c

vars == <<mutex, empty, full, f, p, que, parent, reaped, pc, idx, node, cnt, taken>>

------------------------------------------------------------------------------
(* Where a child can be: inside the critical section of put or of take,    *)
(* holding a credit of empty or of full, having advanced p or f.           *)

PutDone  == {"put_author", "put_id", "put_unlock", "put_post"}
PutHold  == {"put_lock", "put_load", "put_store"} \cup PutDone
TakeDone == {"take_author", "take_id", "take_unlock", "take_post"}
TakeHold == {"take_lock", "take_load", "take_store"} \cup TakeDone
Critical == (PutHold \cup TakeHold)
                \ {"put_lock", "put_post", "take_lock", "take_post"}
ProducerLabel == {"unborn", "nofork", "put_wait", "exited"} \cup PutHold
ConsumerLabel == {"unborn", "nofork", "take_wait", "exited"} \cup TakeHold

------------------------------------------------------------------------------
(* The parent: mmap() gives zeroes, bbq_init sets the queue up.            *)

Init ==
    /\ mutex = 0 /\ empty = 0 /\ full = 0
    /\ f = 0 /\ p = 0
    /\ que = [s \in Slots |-> [author |-> 0, id |-> 0]]
    /\ parent = "start" /\ reaped = {}
    /\ pc = [t \in Procs |-> "unborn"]
    /\ idx = [t \in Procs |-> 0]
    /\ node = [c \in Consumers |-> Stop]
    /\ cnt = [t \in Producers |-> 0]
    /\ taken = [c \in Consumers |-> <<>>]

\* Mutant: one credit more than there are slots.
ExtraCreditInit ==
    /\ parent = "start"
    /\ parent' = "fork"
    /\ mutex' = 1
    /\ empty' = queue_size + 1
    /\ full' = 0
    /\ f' = 0 /\ p' = 0
    /\ UNCHANGED <<que, reaped, pc, idx, node, cnt, taken>>

bbq_init ==
    /\ parent = "start"
    /\ parent' = "fork"
    /\ mutex' = 1
    /\ empty' = queue_size
    /\ full' = 0
    /\ f' = 0 /\ p' = 0
    /\ UNCHANGED <<que, reaped, pc, idx, node, cnt, taken>>

\* fork() in the order of the ids.  A call that fails returns -1, which the
\* loop takes for a child: there is no process of that id.
Fork(t) ==
    /\ parent = "fork"
    /\ pc[t] = "unborn"
    /\ \A s \in Procs : s < t => pc[s] # "unborn"
    /\ \/ Step(t, "unborn", IF t \in Producers THEN "put_wait" ELSE "take_wait")
       \/ /\ Cardinality(At({"nofork"})) < ForkFailures
          /\ Step(t, "unborn", "nofork")
    /\ UNCHANGED <<sems, f, p, que, parent, reaped, idx, node, cnt, taken>>

AllForked == At({"unborn"}) = {}

\* wait() returns a child that has ended, which a later call does not return.
WaitReturns(t) ==
    /\ parent = "fork" /\ AllForked
    /\ pc[t] = "exited" /\ t \notin reaped
    /\ reaped' = reaped \cup {t}
    /\ UNCHANGED <<sems, f, p, que, parent, pc, idx, node, cnt, taken>>

\* Mutant: as many calls as there are producers, which end the program.
WaitForProducers ==
    /\ parent = "fork" /\ AllForked
    /\ Cardinality(reaped \cup At({"nofork"})) >= producer_num
    /\ parent' = "destroy"
    /\ UNCHANGED <<sems, f, p, que, reaped, pc, idx, node, cnt, taken>>

\* wait() returns -1 when there is no child that it has not returned.
WaitFails ==
    /\ parent = "fork" /\ AllForked
    /\ reaped \cup At({"nofork"}) = Procs
    /\ parent' = "destroy"
    /\ UNCHANGED <<sems, f, p, que, reaped, pc, idx, node, cnt, taken>>

bbq_destroy ==
    /\ parent = "destroy"
    /\ parent' = "destroyed"
    /\ UNCHANGED <<sems, f, p, que, reaped, pc, idx, node, cnt, taken>>

------------------------------------------------------------------------------
(* bbq_put, called by producer_proc with its next item.                    *)

\* Mutant: the stop object goes out before the last node.
EarlyStop(t, n) ==
    CASE n < item_num - 1 -> [author |-> t, id |-> n]
      [] n = item_num - 1 -> Stop
      [] OTHER -> [author |-> t, id |-> n - 1]

\* The item of producer t after n calls: item_num nodes, then the stop object.
Item(t, n) == IF n < item_num THEN [author |-> t, id |-> n] ELSE Stop

PutWaitEmpty(t) ==
    /\ Step(t, "put_wait", "put_lock")
    /\ empty > 0
    /\ empty' = empty - 1
    /\ UNCHANGED <<mutex, full, f, p, que, parent, reaped, idx, node, cnt, taken>>

PutLock(t) ==
    /\ Step(t, "put_lock", "put_load")
    /\ mutex > 0
    /\ mutex' = mutex - 1
    /\ UNCHANGED <<empty, full, f, p, que, parent, reaped, idx, node, cnt, taken>>

PutLoad(t) ==
    /\ Step(t, "put_load", "put_store")
    /\ idx' = [idx EXCEPT ![t] = p]
    /\ UNCHANGED <<sems, f, p, que, parent, reaped, node, cnt, taken>>

PutStore(t) ==
    /\ Step(t, "put_store", "put_author")
    /\ p' = idx[t] + 1
    /\ UNCHANGED <<sems, f, que, parent, reaped, idx, node, cnt, taken>>

\* Mutant:  ++p  in place of  p++ , the slot after the right one.
PutAuthorPreIncrement(t) ==
    /\ Step(t, "put_author", "put_id")
    /\ que' = [que EXCEPT ![(idx[t] + 1) % queue_size].author = Item(t, cnt[t]).author]
    /\ UNCHANGED <<sems, f, p, parent, reaped, idx, node, cnt, taken>>

\* memcpy into the slot, one word after the other.
PutAuthor(t) ==
    /\ Step(t, "put_author", "put_id")
    /\ que' = [que EXCEPT ![idx[t] % queue_size].author = Item(t, cnt[t]).author]
    /\ UNCHANGED <<sems, f, p, parent, reaped, idx, node, cnt, taken>>

PutId(t) ==
    /\ Step(t, "put_id", "put_unlock")
    /\ que' = [que EXCEPT ![idx[t] % queue_size].id = Item(t, cnt[t]).id]
    /\ UNCHANGED <<sems, f, p, parent, reaped, idx, node, cnt, taken>>

PutUnlock(t) ==
    /\ Step(t, "put_unlock", "put_post")
    /\ mutex' = mutex + 1
    /\ UNCHANGED <<empty, full, f, p, que, parent, reaped, idx, node, cnt, taken>>

\* Mutant: the producer ends without its stop object.
NoStopPostFull(t) ==
    /\ Step(t, "put_post", IF cnt[t] + 1 < item_num THEN "put_wait" ELSE "exited")
    /\ full' = full + 1
    /\ cnt' = [cnt EXCEPT ![t] = @ + 1]
    /\ UNCHANGED <<mutex, empty, f, p, que, parent, reaped, idx, node, taken>>

\* sem_post(full); producer_proc goes on to its next item or ends.
PutPostFull(t) ==
    /\ Step(t, "put_post", IF cnt[t] < item_num THEN "put_wait" ELSE "exited")
    /\ full' = full + 1
    /\ cnt' = [cnt EXCEPT ![t] = @ + 1]
    /\ UNCHANGED <<mutex, empty, f, p, que, parent, reaped, idx, node, taken>>

------------------------------------------------------------------------------
(* bbq_take, called by consumer_proc until it gets a stop object.          *)

TakeWaitFull(t) ==
    /\ Step(t, "take_wait", "take_lock")
    /\ full > 0
    /\ full' = full - 1
    /\ UNCHANGED <<mutex, empty, f, p, que, parent, reaped, idx, node, cnt, taken>>

TakeLock(t) ==
    /\ Step(t, "take_lock", "take_load")
    /\ mutex > 0
    /\ mutex' = mutex - 1
    /\ UNCHANGED <<empty, full, f, p, que, parent, reaped, idx, node, cnt, taken>>

TakeLoad(t) ==
    /\ Step(t, "take_load", "take_store")
    /\ idx' = [idx EXCEPT ![t] = f]
    /\ UNCHANGED <<sems, f, p, que, parent, reaped, node, cnt, taken>>

TakeStore(t) ==
    /\ Step(t, "take_store", "take_author")
    /\ f' = idx[t] + 1
    /\ UNCHANGED <<sems, p, que, parent, reaped, idx, node, cnt, taken>>

TakeAuthor(t) ==
    /\ Step(t, "take_author", "take_id")
    /\ node' = [node EXCEPT ![t].author = que[idx[t] % queue_size].author]
    /\ UNCHANGED <<sems, f, p, que, parent, reaped, idx, cnt, taken>>

TakeId(t) ==
    /\ Step(t, "take_id", "take_unlock")
    /\ node' = [node EXCEPT ![t].id = que[idx[t] % queue_size].id]
    /\ UNCHANGED <<sems, f, p, que, parent, reaped, idx, cnt, taken>>

TakeUnlock(t) ==
    /\ Step(t, "take_unlock", "take_post")
    /\ mutex' = mutex + 1
    /\ UNCHANGED <<empty, full, f, p, que, parent, reaped, idx, node, cnt, taken>>

\* sem_post(empty); consumer_proc prints the node, or ends on a stop object.
TakePostEmpty(t) ==
    /\ Step(t, "take_post", IF node[t].author # -1 THEN "take_wait" ELSE "exited")
    /\ empty' = empty + 1
    /\ taken' = [taken EXCEPT ![t] = Append(@, node[t])]
    /\ UNCHANGED <<mutex, full, f, p, que, parent, reaped, idx, node, cnt>>

------------------------------------------------------------------------------
Producer(t) ==
    \/ PutWaitEmpty(t) \/ PutLock(t) \/ PutLoad(t) \/ PutStore(t)
    \/ PutAuthor(t) \/ PutId(t) \/ PutUnlock(t) \/ PutPostFull(t)

Consumer(t) ==
    \/ TakeWaitFull(t) \/ TakeLock(t) \/ TakeLoad(t) \/ TakeStore(t)
    \/ TakeAuthor(t) \/ TakeId(t) \/ TakeUnlock(t) \/ TakePostEmpty(t)

Parent == bbq_init \/ (\E t \in Procs : Fork(t) \/ WaitReturns(t)) \/ WaitFails \/ bbq_destroy

Next ==
    \/ Parent
    \/ \E t \in Producers : Producer(t)
    \/ \E t \in Consumers : Consumer(t)

Spec == Init /\ [][Next]_vars

\* The kernel schedules every process that can run; nothing more is assumed
\* of it, nor of the order in which it wakes the waiters of a semaphore.
FairSpec ==
    /\ Spec
    /\ WF_vars(Parent)
    /\ \A t \in Producers : WF_vars(Producer(t))
    /\ \A t \in Consumers : WF_vars(Consumer(t))
------------------------------------------------------------------------------
(* Properties.                                                             *)

\* Every variable has its type; a consumer never runs bbq_put, nor a
\* producer bbq_take.
TypeOK ==
    /\ mutex \in Nat /\ empty \in Nat /\ full \in Nat
    /\ f \in Nat /\ p \in Nat
    /\ que \in [Slots -> Cell]
    /\ parent \in {"start", "fork", "destroy", "destroyed"} /\ reaped \subseteq Procs
    /\ pc \in [Procs -> ProducerLabel \cup ConsumerLabel]
    /\ \A t \in Producers : pc[t] \in ProducerLabel
    /\ \A t \in Consumers : pc[t] \in ConsumerLabel
    /\ idx \in [Procs -> Nat]
    /\ node \in [Consumers -> Cell]
    /\ cnt \in [Producers -> Nat]
    /\ taken \in [Consumers -> Seq(Cell)]

\* Between sem_wait(&mutex) and sem_post(&mutex) a process is alone, whether
\* it puts or takes.
MutualExclusion == \A s, t \in At(Critical) : s = t

\* No credit is lost or forged: each of the queue_size slots is counted by
\* empty, by full, or by one call between its two semaphores.
CreditsConserved ==
    parent # "start" =>
        empty + full + Cardinality(At(PutHold)) + Cardinality(At(TakeHold))
            = queue_size

\* The slot a put copies into holds no item that is still to be taken, and
\* the slot a take copies from holds an item that no put is writing: the
\* counters stay within one turn of the ring.
SlotSafety ==
    /\ \A t \in At({"put_author", "put_id"}) :
            \A k \in f .. p - 1 : k # idx[t] => k % queue_size # idx[t] % queue_size
    /\ \A t \in At({"take_author", "take_id"}) :
            /\ idx[t] \notin f .. p - 1
            /\ \A k \in f .. p - 1 : k % queue_size # idx[t] % queue_size

\* When bbq_destroy runs, no process can touch a semaphore again, and each of
\* them is as if no call had ever been made: the mutex is free, every credit
\* is back, and full counts what is left in the ring, whichever forks failed.
DestroyedUnused ==
    parent \in {"destroy", "destroyed"} =>
        /\ At({"nofork", "exited"}) = Procs
        /\ mutex = 1
        /\ empty + full = queue_size
        /\ full = p - f

\* As many producers as consumers were forked.
Balanced == Cardinality({t \in Producers : pc[t] # "nofork"})
                = Cardinality({t \in Consumers : pc[t] # "nofork"})

\* Where bbq_take returned x.
Deliveries(x) == UNION {{<<c, i>> : i \in {j \in DOMAIN taken[c] : taken[c][j] = x}}
                            : c \in Consumers}

\* When the program ends after balanced forks, every node of every producer
\* was returned by exactly one bbq_take, and the queue is empty: no consumer
\* took its stop object while nodes of another producer were behind it for
\* ever.
NothingLeftBehind ==
    parent = "destroyed" /\ Balanced =>
        /\ f = p
        /\ \A w \in Producers : \A n \in 0 .. item_num - 1 :
              Cardinality(Deliveries(Item(w, n))) 
                  = IF pc[w] = "nofork" THEN 0 ELSE 1

\* The program ends if the forks were balanced: no wait on a semaphore lasts
\* for ever.
Termination == (AllForked /\ Balanced) ~> (parent = "destroyed")

------------------------------------------------------------------------------
(* The inductive invariant behind MutualExclusion, CreditsConserved and    *)
(* SlotSafety.                                                             *)

\* The value of mutex and the process it admits, counted together.
MutexCount ==
    parent # "start" => mutex + Cardinality(At(Critical)) = 1

\* p - f counts the items that full announces, those that are about to be
\* announced, and those already claimed by a take that has not advanced f.
StoredCount ==
    p - f = full + Cardinality(At(PutDone)) + Cardinality(At(TakeHold \ TakeDone))

\* What the loaded counter is worth at each point of the critical section.
IndexInv ==
    \A t \in Procs :
        /\ pc[t] = "put_store" => idx[t] = p
        /\ pc[t] \in {"put_author", "put_id"} => idx[t] = p - 1
        /\ pc[t] = "take_store" => idx[t] = f
        /\ pc[t] \in {"take_author", "take_id"} => idx[t] = f - 1

StartInv == parent = "start" => pc = [t \in Procs |-> "unborn"]

\* The parent goes on only when each child was returned by a wait, and a
\* child that was has ended.
WaitedInv ==
    /\ reaped \subseteq At({"exited"})
    /\ parent \in {"destroy", "destroyed"} => reaped \cup At({"nofork"}) = Procs

IInv ==
    /\ TypeOK
    /\ StartInv
    /\ MutexCount
    /\ CreditsConserved
    /\ StoredCount
    /\ IndexInv
    /\ WaitedInv

------------------------------------------------------------------------------
(* The queue implements the blocking channel: an item is put when its last *)
(* word is in the slot, and taken when its last word is copied out.        *)

BeingPut == At({"put_author", "put_id"})
BeingTaken == At({"take_author", "take_id"})

\* Positions First .. Last - 1 of the ring hold the items of the channel.
First == f - Cardinality(BeingTaken)
Last == p - Cardinality(BeingPut)
ItemAt(k) == que[k % queue_size]
Contents == [i \in 1 .. Last - First |-> ItemAt(First + i - 1)]

\* What each producer has put and each consumer has taken: a call counts as
\* soon as it has copied its last word.
Sent == [w \in Producers |->
            cnt[w] + IF pc[w] \in {"put_unlock", "put_post"} THEN 1 ELSE 0]
Taken == [c \in Consumers |->
            IF pc[c] \in {"take_unlock", "take_post"} THEN Append(taken[c], node[c])
            ELSE taken[c]]

Channel == INSTANCE BlockingChannel WITH
    Writers <- Producers,
    Readers <- Consumers,
    Script <- [w \in Producers |-> [i \in 1 .. item_num + 1 |-> Item(w, i - 1)]],
    StopItem <- Stop,
    Capacity <- queue_size,
    chan <- Contents,
    sent <- Sent,
    taken <- Taken

\* First in, first out, nothing lost, doubled or torn, never more than
\* queue_size items: bbq_put and bbq_take are atomic operations of a channel.
ImplementsChannel == Channel!ChanSpec
=============================================================================
