-------------------------- MODULE BlockingChannel --------------------------
(***************************************************************************)
(* What a blocking queue promises to the programs of this repository that  *)
(* talk through one: a first-in first-out channel of at most Capacity      *)
(* items.  A writer puts the items of its script in order and waits while  *)
(* the channel is full; a reader takes the oldest item and waits while it  *)
(* is empty, until it takes a stop object.                                 *)
(***************************************************************************)
EXTENDS Integers, Sequences

CONSTANTS
    Writers,    \* those who put
    Readers,    \* those who take
    Script,     \* Script[w]: the items writer w puts, in order
    StopItem,   \* the object that ends the reader that takes it
    Capacity    \* the most items the channel holds

VARIABLES
    chan,       \* the items in the channel, oldest first
    sent,       \* sent[w]: how many items of its script w has put
    taken       \* taken[r]: the items r has taken, in order

chanVars == <<chan, sent, taken>>

ChanInit ==
    /\ chan = <<>>
    /\ sent = [w \in Writers |-> 0]
    /\ taken = [r \in Readers |-> <<>>]

Stopped(r) == taken[r] # <<>> /\ taken[r][Len(taken[r])] = StopItem

Put(w) ==
    /\ sent[w] < Len(Script[w])
    /\ Len(chan) < Capacity
    /\ chan' = Append(chan, Script[w][sent[w] + 1])
    /\ sent' = [sent EXCEPT ![w] = @ + 1]
    /\ UNCHANGED taken

Take(r) ==
    /\ ~Stopped(r)
    /\ chan # <<>>
    /\ taken' = [taken EXCEPT ![r] = Append(@, Head(chan))]
    /\ chan' = Tail(chan)
    /\ UNCHANGED sent

ChanNext ==
    \/ \E w \in Writers : Put(w)
    \/ \E r \in Readers : Take(r)

ChanSpec == ChanInit /\ [][ChanNext]_chanVars
=============================================================================
