------------------------------ MODULE TcpPipe ------------------------------
(***************************************************************************)
(* The TCP connections between the clients of network/tcp_echo that block  *)
(* in send and the servers that are run against them, as far as the two    *)
(* sides can tell.  A connection is a pair of bounded queues of words; a   *)
(* recv may return any part of what is there, for the rest may still be on *)
(* its way.  SIGPIPE is left out: a send on a broken connection fails.     *)
(***************************************************************************)
EXTENDS Integers, Sequences

CONSTANTS
    Programs,   \* the clients that are checked, with their arguments
    Conns,
    Cap,        \* the words that one direction of a connection holds
    AcceptFailures  \* how many calls of accept fail at most, with any of them

ASSUME PipeAssumption ==
    /\ Cap \in Nat \ {0} /\ AcceptFailures \in Nat
    /\ \A g \in Programs :
        /\ g.name \in {"verify", "bench", "v4", "v6", "udp", "udp_connect", "udp6"}
        /\ g.used \in (SUBSET Conns) \ {{}}
        /\ g.size \in Nat
        /\ g.failures \in 0 .. AcceptFailures
        /\ g.size = 0 => g.name \in {"udp", "udp_connect", "udp6"}

VARIABLES
    program,    \* a member of Programs: its connections, the words of a packet, the server's
                \* loops, and how many calls of accept may fail
    sock,       \* sock[s][c]: the socket of side s: "none", "open", "closed"
    wire,       \* wire[s][c]: the words that side s may receive
    broken      \* connections that were reset

pipeVars == <<program, sock, wire, broken>>

Sides == {"client", "server"}

Far(s) == IF s = "client" THEN "server" ELSE "client"

Used == program.used
size == program.size

PipeInit ==
    /\ program \in Programs
    /\ sock = [s \in Sides |-> [c \in Conns |-> "none"]]
    /\ wire = [s \in Sides |-> [c \in Conns |-> <<>>]]
    /\ broken = {}

\* The kernel completes the connection before the server accepts it.
Establish(c) ==
    /\ sock' = [s \in Sides |-> [sock[s] EXCEPT ![c] = "open"]]
    /\ UNCHANGED <<program, wire, broken>>

\* A connect that is refused leaves a socket on which calls fail.
Unconnected(c) ==
    /\ sock' = [sock EXCEPT !["client"][c] = "open"]
    /\ broken' = broken \cup {c}
    /\ UNCHANGED <<program, wire>>

Eof(s, c) == wire[s][c] = <<>> /\ sock[Far(s)][c] = "closed"

Readable(s, c) ==
    sock[s][c] = "open" /\ (wire[s][c] # <<>> \/ Eof(s, c) \/ c \in broken)

\* How many words a recv for n may return.
Arrived(s, c, n) == 1 .. (IF n < Len(wire[s][c]) THEN n ELSE Len(wire[s][c]))

\* recv returns the first k words, or 0 or -1.
Receive(s, c, k) ==
    /\ wire' = [wire EXCEPT ![s][c] = SubSeq(@, k + 1, Len(@))]
    /\ UNCHANGED <<program, sock, broken>>

RecvFails(s, c) ==
    /\ Eof(s, c) \/ c \in broken
    /\ UNCHANGED pipeVars

Room(s, c) == Cap - Len(wire[Far(s)][c])

\* The words go out; a far side that is closed answers with a reset.
Transmit(s, c, words) ==
    /\ c \notin broken
    /\ IF sock[Far(s)][c] = "closed"
       THEN broken' = broken \cup {c} /\ UNCHANGED wire
       ELSE wire' = [wire EXCEPT ![Far(s)][c] = @ \o words] /\ UNCHANGED broken
    /\ UNCHANGED <<program, sock>>

\* The sockets in S of side s are closed, and the connections in R reset.
Shut(s, S, R) ==
    /\ sock' = [sock EXCEPT ![s] = [c \in Conns |-> IF c \in S THEN "closed" ELSE @[c]]]
    /\ broken' = broken \cup R
    /\ wire' = [wire EXCEPT ![s] = [c \in Conns |-> IF c \in S THEN <<>> ELSE @[c]]]
    /\ UNCHANGED program

\* Words that nobody will receive make a close a reset.
Unread(s, S) == {c \in S : sock[s][c] = "open" /\ wire[s][c] # <<>>}

\* close(2)
CloseAll(s, S) == Shut(s, S, Unread(s, S))
=============================================================================
