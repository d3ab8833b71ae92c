---------------------------- MODULE QueueThreads ----------------------------
(***************************************************************************)
(* pthread/blocking_queue/main.cpp, and what its two BlockingQueue classes *)
(* have in common: an unbounded std::queue behind a mutex.  Producers put  *)
(* item_num nodes each and then NULL; a consumer takes until it gets NULL. *)
(* A step is a call of the pthread or semaphore library, with the code up  *)
(* to the next one: the queue is only touched under the mutex.             *)
(***************************************************************************)
EXTENDS Integers, Sequences, FiniteSets

CONSTANTS Producers, Consumers, item_num, NULL

ASSUME ThreadsAssumption ==
    /\ Producers \cap Consumers = {}
    /\ NULL \notin Producers \cup Consumers
    /\ IsFiniteSet(Producers \cup Consumers)
    /\ item_num \in Nat

VARIABLES
    queue,      \* the std::queue, oldest item first
    mutex,      \* the thread that owns the mutex, or NULL
    pc,         \* what each thread does next; main's is kept in main
    cnt,        \* cnt[p]: puts that producer p has begun, the loop's i
    taken,      \* taken[c]: what take() has returned to consumer c
    main        \* main(): joins the threads, then destroys the queue

threadVars == <<queue, mutex, pc, cnt, taken, main>>

Threads == Producers \cup Consumers

\* The i-th item of producer p: a Node of its own, or NULL at the end.
Item(p, i) == IF i < item_num THEN <<p, i>> ELSE NULL

Items == (Producers \X (0 .. item_num - 1)) \cup {NULL}

At(L) == {t \in Threads : pc[t] \in L}

Goto(t, from, to) == pc[t] = from /\ pc' = [pc EXCEPT ![t] = to]

ThreadsInit ==
    /\ queue = <<>>
    /\ mutex = NULL
    /\ pc = [t \in Threads |-> IF t \in Producers THEN "put_lock" ELSE "take"]
    /\ cnt = [p \in Producers |-> 0]
    /\ taken = [c \in Consumers |-> <<>>]
    /\ main = "join"

PutLock(p) ==
    /\ Goto(p, "put_lock", "put_push")
    /\ mutex = NULL
    /\ mutex' = p
    /\ UNCHANGED <<queue, cnt, taken, main>>

\* queue.push and pthread_mutex_unlock.
PutPush(p) ==
    /\ Goto(p, "put_push", "put_notify")
    /\ queue' = Append(queue, Item(p, cnt[p]))
    /\ mutex' = NULL
    /\ UNCHANGED <<cnt, taken, main>>

\* put() returns: the loop of producer() goes on, or the thread ends.
NextPut(p) ==
    /\ Goto(p, "put_notify", IF cnt[p] < item_num THEN "put_lock" ELSE "exited")
    /\ cnt' = [cnt EXCEPT ![p] = @ + 1]

\* queue.front, queue.pop, pthread_mutex_unlock; take() returns, and consumer()
\* calls it again or ends.
Pop(c) ==
    /\ queue' = Tail(queue)
    /\ taken' = [taken EXCEPT ![c] = Append(@, Head(queue))]
    /\ mutex' = NULL
    /\ pc' = [pc EXCEPT ![c] = IF Head(queue) # NULL THEN "take" ELSE "exited"]

\* pthread_join on every thread, and then the destructor of the queue.
MainReturns ==
    /\ main = "join"
    /\ At({"exited"}) = Threads
    /\ main' = "returned"
    /\ UNCHANGED <<queue, mutex, pc, cnt, taken>>

\* The program ends when there are as many producers as consumers: no
\* consumer waits for ever.
Terminates == <>(main = "returned")

\* The queue as a channel without a bound: an item is put by queue.push and
\* taken by queue.pop.
Channel == INSTANCE BlockingChannel WITH
    Writers <- Producers,
    Readers <- Consumers,
    Script <- [p \in Producers |-> [i \in 1 .. item_num + 1 |-> Item(p, i - 1)]],
    StopItem <- NULL,
    Capacity <- Cardinality(Producers) * (item_num + 1),
    chan <- queue,
    sent <- [p \in Producers |-> cnt[p] + IF pc[p] = "put_notify" THEN 1 ELSE 0]
=============================================================================
