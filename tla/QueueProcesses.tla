--------------------------- MODULE QueueProcesses ---------------------------
(***************************************************************************)
(* What the two programs of process_communication that pass items from     *)
(* process to process have in common: the processes that main() forks, one *)
(* for each number it counts through, and the three semaphores and two     *)
(* counters that they share.                                               *)
(***************************************************************************)
EXTENDS Integers, FiniteSets

CONSTANTS producer_num, consumer_num

ASSUME ProcessAssumption ==
    /\ producer_num \in Nat
    /\ consumer_num \in Nat

\* The ids main() counts through, one fork each.
Producers == 0 .. producer_num - 1
Consumers == producer_num .. producer_num + consumer_num - 1
Procs == Producers \cup Consumers

VARIABLES
    mutex, empty, full,     \* the values of the three semaphores
    f, p,                   \* how many items were taken and put so far
    pc                      \* pc[t]: what child t does next

sems == <<mutex, empty, full>>

At(L) == {t \in Procs : pc[t] \in L}

\* Child t goes from one point of its program to the next.
Step(t, from, to) == pc[t] = from /\ pc' = [pc EXCEPT ![t] = to]
=============================================================================
