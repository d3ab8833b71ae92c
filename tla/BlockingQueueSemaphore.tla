----------------------- MODULE BlockingQueueSemaphore -----------------------
(***************************************************************************)
(* pthread/blocking_queue/blocking_queue_semaphore.h: a semaphore counts   *)
(* the items; take() waits on it before it locks the mutex, put() posts it *)
(* after it has released the mutex.                                        *)
(***************************************************************************)
EXTENDS QueueThreads

VARIABLE not_empty      \* the value of the semaphore

vars == <<queue, mutex, pc, cnt, taken, main, not_empty>>

Init == ThreadsInit /\ not_empty = 0

\* sem_post.
PutPost(p) ==
    /\ NextPut(p)
    /\ not_empty' = not_empty + 1
    /\ UNCHANGED <<queue, mutex, taken, main>>

\* Mutant: take() goes on without an item.
TakeNoWait(c) ==
    /\ Goto(c, "take", "take_lock")
    /\ not_empty' = IF not_empty > 0 THEN not_empty - 1 ELSE 0
    /\ UNCHANGED <<queue, mutex, cnt, taken, main>>

\* sem_wait.
TakeWait(c) ==
    /\ Goto(c, "take", "take_lock")
    /\ not_empty > 0
    /\ not_empty' = not_empty - 1
    /\ UNCHANGED <<queue, mutex, cnt, taken, main>>

TakeLock(c) ==
    /\ Goto(c, "take_lock", "take_pop")
    /\ mutex = NULL
    /\ mutex' = c
    /\ UNCHANGED <<queue, cnt, taken, main, not_empty>>

\* There is no test: front() of an empty queue is undefined.  It is modelled
\* as a thread that does not go on; see PopNonEmpty.
TakePop(c) ==
    /\ pc[c] = "take_pop"
    /\ queue # <<>>
    /\ Pop(c)
    /\ UNCHANGED <<cnt, main, not_empty>>

------------------------------------------------------------------------------
put(p) == PutPost(p) \/ ((PutLock(p) \/ PutPush(p)) /\ UNCHANGED not_empty)

take(c) == TakeWait(c) \/ TakeLock(c) \/ TakePop(c)

Main == MainReturns /\ UNCHANGED not_empty

Next ==
    \/ \E p \in Producers : put(p)
    \/ \E c \in Consumers : take(c)
    \/ Main

Spec == Init /\ [][Next]_vars

------------------------------------------------------------------------------
(* Properties.                                                             *)

\* The queue is popped without a test: the semaphore, decremented before the
\* mutex is taken and incremented after it is released, guarantees an item
\* to every thread that gets that far.
PopNonEmpty ==
    Cardinality(At({"take_lock", "take_pop"})) <= Len(queue)
=============================================================================
