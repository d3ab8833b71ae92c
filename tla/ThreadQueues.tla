---------------------------- MODULE ThreadQueues ----------------------------
(***************************************************************************)
(* pthread/blocking_queue/main.cpp as it can be built: with the class of   *)
(* blocking_queue_semaphore.h, or with the one of                          *)
(* blocking_queue_condvar.h, whose #include is commented out.              *)
(***************************************************************************)
EXTENDS QueueThreads

CONSTANT SpuriousWakeups

VARIABLES
    class,          \* the class of the build
    waiting,        \* not_empty of the condition-variable class
    spurious,
    count           \* not_empty of the semaphore class

vars == <<threadVars, class, waiting, spurious, count>>

Condvar == INSTANCE BlockingQueueCondvar WITH not_empty <- waiting
Semaphore == INSTANCE BlockingQueueSemaphore WITH not_empty <- count

Init ==
    /\ class \in {"condvar", "semaphore"}
    /\ Condvar!Init
    /\ Semaphore!Init

put(p) ==
    \/ class = "condvar" /\ Condvar!put(p) /\ UNCHANGED <<class, count>>
    \/ class = "semaphore" /\ Semaphore!put(p) /\ UNCHANGED <<class, waiting, spurious>>

take(c) ==
    \/ class = "condvar" /\ Condvar!take(c) /\ UNCHANGED <<class, count>>
    \/ class = "semaphore" /\ Semaphore!take(c) /\ UNCHANGED <<class, waiting, spurious>>

Next ==
    \/ class = "condvar" /\ Condvar!Next /\ UNCHANGED <<class, count>>
    \/ class = "semaphore" /\ Semaphore!Next /\ UNCHANGED <<class, waiting, spurious>>

\* Every thread that can run does.  Neither the mutex nor the semaphore need
\* be fair: each thread passes them finitely often.
FairSpec ==
    /\ Init /\ [][Next]_vars
    /\ \A p \in Producers : WF_vars(put(p))
    /\ \A c \in Consumers : WF_vars(take(c))
    /\ WF_vars(MainReturns /\ UNCHANGED <<class, waiting, spurious, count>>)

------------------------------------------------------------------------------
(* Properties: those of the classes, for the class of the build.           *)

\* Semaphore: whoever has passed it finds an item, with no test in the code.
PopNonEmpty == class = "semaphore" => Semaphore!PopNonEmpty

\* The program ends: no consumer waits for ever.
Termination == Terminates

\* put() and take() of both classes are atomic operations of a first-in
\* first-out channel.
ImplementsChannel == Channel!ChanSpec
=============================================================================
