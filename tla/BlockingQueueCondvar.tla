------------------------ MODULE BlockingQueueCondvar ------------------------
(***************************************************************************)
(* pthread/blocking_queue/blocking_queue_condvar.h: take() waits on a      *)
(* condition variable while the queue is empty; put() signals it after it  *)
(* has released the mutex.                                                 *)
(***************************************************************************)
EXTENDS QueueThreads

CONSTANT SpuriousWakeups    \* bound: wakeups without a signal

VARIABLES
    not_empty,      \* the threads blocked in pthread_cond_wait(&not_empty)
    spurious        \* how many wakeups came without a signal

vars == <<queue, mutex, pc, cnt, taken, main, not_empty, spurious>>

Init == ThreadsInit /\ not_empty = {} /\ spurious = 0

\* Mutant: put() signals only when the queue was empty.
PutSignalFirst(p) ==
    /\ NextPut(p)
    /\ \/ /\ Len(queue) > 1 \/ not_empty = {}
          /\ UNCHANGED not_empty
       \/ /\ Len(queue) <= 1
          /\ \E c \in not_empty : not_empty' = not_empty \ {c}
    /\ UNCHANGED <<queue, mutex, taken, main, spurious>>

\* pthread_cond_signal wakes one of the waiting threads, if there are any.
PutSignal(p) ==
    /\ NextPut(p)
    /\ \/ /\ not_empty = {}
          /\ UNCHANGED not_empty
       \/ \E c \in not_empty : not_empty' = not_empty \ {c}
    /\ UNCHANGED <<queue, mutex, taken, main, spurious>>

SpuriousWakeup(c) ==
    /\ spurious < SpuriousWakeups
    /\ c \in not_empty
    /\ not_empty' = not_empty \ {c}
    /\ spurious' = spurious + 1
    /\ UNCHANGED threadVars

TakeLock(c) ==
    /\ Goto(c, "take", "take_test")
    /\ mutex = NULL
    /\ mutex' = c
    /\ UNCHANGED <<queue, cnt, taken, main, not_empty, spurious>>

\* queue.empty(): pthread_cond_wait releases the mutex and waits in one step.
TakeWait(c) ==
    /\ Goto(c, "take_test", "take_wait")
    /\ queue = <<>>
    /\ mutex' = NULL
    /\ not_empty' = not_empty \cup {c}
    /\ UNCHANGED <<queue, cnt, taken, main, spurious>>

TakePop(c) ==
    /\ pc[c] = "take_test"
    /\ queue # <<>>
    /\ Pop(c)
    /\ UNCHANGED <<cnt, main, not_empty, spurious>>

\* Mutant:  if  in place of  while : a woken take() pops what is there, or
\* reads the storage of an empty queue.
TakeWokenNoTest(c) ==
    /\ pc[c] = "take_wait" /\ c \notin not_empty
    /\ mutex = NULL
    /\ \/ queue # <<>> /\ Pop(c)
       \/ /\ queue = <<>>
          /\ taken' = [taken EXCEPT ![c] = Append(@, NULL)]
          /\ pc' = [pc EXCEPT ![c] = "exited"]
          /\ UNCHANGED <<queue, mutex>>
    /\ UNCHANGED <<cnt, main, not_empty, spurious>>

\* A woken thread takes the mutex again and goes back to the test.
TakeWoken(c) ==
    /\ Goto(c, "take_wait", "take_test")
    /\ c \notin not_empty
    /\ mutex = NULL
    /\ mutex' = c
    /\ UNCHANGED <<queue, cnt, taken, main, not_empty, spurious>>

------------------------------------------------------------------------------
put(p) == PutSignal(p) \/ ((PutLock(p) \/ PutPush(p)) /\ UNCHANGED <<not_empty, spurious>>)

take(c) == TakeLock(c) \/ TakeWait(c) \/ TakePop(c) \/ TakeWoken(c)

Main == MainReturns /\ UNCHANGED <<not_empty, spurious>>

Next ==
    \/ \E p \in Producers : put(p)
    \/ \E c \in Consumers : take(c) \/ SpuriousWakeup(c)
    \/ Main

Spec == Init /\ [][Next]_vars

=============================================================================
