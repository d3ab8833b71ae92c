----------------------------- MODULE EchoBench -----------------------------
(***************************************************************************)
(* client_epoll_verify.cpp and client_epoll_bench.cpp against              *)
(* server_epoll_bench.cpp.                                                 *)
(*                                                                         *)
(* The client (one of its event loops) sends a packet on each connection,  *)
(* and another one for each recv that returns something.  Both programs    *)
(* look into what a recv returned only if it is as long as a packet:       *)
(* "verify" compares its words with the numbers that come next, "bench"    *)
(* takes its first words for the time stamp of the packet.  Here the words *)
(* that a connection sends are 0, 1, 2, ... for both, modulo SeqRange.     *)
(*                                                                         *)
(* The server has a thread that accepts, and loops with a thread each.     *)
(* Its sockets do not block.                                               *)
(***************************************************************************)
EXTENDS TcpPipe, FiniteSets

CONSTANTS
    duration,       \* ticks after which the client's main stops
    SeqRange,       \* sequence numbers are unsigned: 2^64 of them in the code
    Loops,          \* the event loops of the server
    NoConn          \* NULL, where the code has a pointer to a connection

\* "bench" has time stamps and no numbers.  Its numbers start over between two
\* packets here: the word whose number is a multiple of the size is the first
\* of its packet, the one with the time stamp.
ASSUME BenchAssumption ==
    /\ IsFiniteSet(Conns) /\ NoConn \notin Conns
    /\ duration \in Nat
    /\ SeqRange \in Nat \ {0}
    /\ IsFiniteSet(Loops)
    /\ \A g \in Programs : g.name \in {"verify", "bench"} =>
          g.loops \subseteq Loops /\ g.loops # {}
    /\ \A g \in Programs : g.name = "bench" => SeqRange % g.size = 0

VARIABLES
    phase,          \* client: main() is at "connect", "first", "tick", "join", "end"
    ticks,
    running,        \* running of the client's EventLoop
    thread,         \* what the client's loop does next
    events, at,     \* what a loop over connections has still to do; the one at hand
    left,           \* words that send_full has still to send
    tx_seq, rx_seq,
    alarms,         \* connections on which a word or a time stamp was wrong
    split,          \* connections on which a recv returned part of a packet
    backlog,        \* server: connections to be accepted
    accepted,       \* the connection that the acceptor has at hand, or NoConn
    failed,         \* the calls of accept4 that have failed
    buf_conns,      \* buf_conns[l]: the queue of loop l; NoConn for an accept4 that failed
    conns,          \* conns[l]: what dump_conn has pushed; NoConn when removed
    loop,           \* loop[l]: "dump", "wait", "recv", "send"
    batch,          \* batch[l]: the indexes still to be handled
    cur, held       \* cur[l]: the index that is being handled; held[l]: what to send it

clientVars == <<phase, ticks, running, thread, events, at, left, tx_seq, rx_seq, alarms, split>>
serverVars == <<backlog, accepted, failed, buf_conns, conns, loop, batch, cur, held>>
benchVars == <<clientVars, serverVars>>

InitBench ==
    /\ PipeInit
    /\ phase = "connect" /\ ticks = 0 /\ running = FALSE
    /\ thread = "none" /\ events = Used /\ at = NoConn /\ left = 0
    /\ tx_seq = [c \in Conns |-> 0] /\ rx_seq = [c \in Conns |-> 0]
    /\ alarms = {} /\ split = {}
    /\ backlog = {} /\ accepted = NoConn /\ failed = 0
    /\ buf_conns = [l \in Loops |-> <<>>]
    /\ conns = [l \in Loops |-> <<>>]
    /\ loop = [l \in Loops |-> "dump"]
    /\ batch = [l \in Loops |-> {}]
    /\ cur = [l \in Loops |-> 0]
    /\ held = [l \in Loops |-> <<>>]

------------------------------------------------------------------------------
(* The client.                                                             *)

\* The constructor of EventLoop: first all connections ...
Connect(c) ==
    /\ phase = "connect" /\ sock["client"][c] = "none"
    /\ Establish(c)
    /\ backlog' = backlog \cup {c}
    /\ phase' = IF \E d \in Used \ {c} : sock["client"][d] = "none" THEN "connect" ELSE "first"
    /\ UNCHANGED <<ticks, running, thread, events, at, left, tx_seq, rx_seq, alarms, split,
                   accepted, failed, buf_conns, conns, loop, batch, cur, held>>

\* send() writes the next numbers, or the time, into the packet.
Fill(c) ==
    /\ at' = c
    /\ left' = size
    /\ tx_seq' = [tx_seq EXCEPT ![c] = (@ + size) % SeqRange]

\* ... then a packet on each, and then the thread.
FirstSend(c) ==
    /\ phase = "first" /\ at = NoConn
    /\ c \in events
    /\ events' = events \ {c}
    /\ Fill(c)
    /\ UNCHANGED <<pipeVars, phase, ticks, running, thread, rx_seq, alarms, split, serverVars>>

StartThread ==
    /\ phase = "first" /\ at = NoConn
    /\ events = {}
    /\ phase' = "tick"
    /\ running' = TRUE
    /\ thread' = "test"
    /\ UNCHANGED <<pipeVars, ticks, events, at, left, tx_seq, rx_seq, alarms, split, serverVars>>

\* send_full: blocks while there is no room, and gives up on an error.  When it
\* is through, run() goes on with the next event.
SendFull ==
    /\ left > 0
    /\ \/ /\ at \in broken
          /\ left' = 0
          /\ UNCHANGED pipeVars
       \/ /\ Room("client", at) > 0
          /\ LET n == IF left < Room("client", at) THEN left ELSE Room("client", at)
             IN  /\ Transmit("client", at, [k \in 1 .. n |-> (tx_seq[at] - left + k - 1) % SeqRange])
                 /\ left' = left - n
    /\ at' = IF left' = 0 THEN NoConn ELSE at
    /\ thread' = IF left' = 0 /\ thread = "send" THEN "dispatch" ELSE thread
    /\ UNCHANGED <<phase, ticks, running, events, tx_seq, rx_seq, alarms, split, serverVars>>

\* while (running) epoll_wait(..., -1).
TestRunning ==
    /\ thread = "test"
    /\ thread' = IF running THEN "wait" ELSE "ended"
    /\ UNCHANGED <<pipeVars, phase, ticks, running, events, at, left, tx_seq, rx_seq, alarms, split, serverVars>>

EpollWait ==
    /\ thread = "wait"
    /\ events' = {c \in Used : Readable("client", c)}
    /\ events' # {}
    /\ thread' = "dispatch"
    /\ UNCHANGED <<pipeVars, phase, ticks, running, at, left, tx_seq, rx_seq, alarms, split, serverVars>>

Dispatch ==
    /\ thread = "dispatch"
    /\ \/ /\ events = {}
          /\ thread' = "test"
          /\ UNCHANGED <<events, at>>
       \/ \E c \in events :
            /\ events' = events \ {c}
            /\ at' = c
            /\ thread' = "recv"
    /\ UNCHANGED <<pipeVars, phase, ticks, running, left, tx_seq, rx_seq, alarms, split, serverVars>>

\* Mutant: rx_seq is advanced once for a packet.
InspectOnce(c, words) ==
    /\ alarms' = IF \E k \in 1 .. Len(words) : words[k] # (rx_seq[c] + k - 1) % SeqRange
                 THEN alarms \cup {c} ELSE alarms
    /\ rx_seq' = [rx_seq EXCEPT ![c] = (@ + 1) % SeqRange]

\* recv() of "bench" takes the first word for the time stamp of the packet.
TakeStamp(c, words) ==
    /\ alarms' = IF words[1] % size # 0 THEN alarms \cup {c} ELSE alarms
    /\ UNCHANGED rx_seq

\* What recv() does with the words of a whole packet.
Inspect(c, words) ==
    \/ /\ Len(words) = size /\ program.name = "verify"
       /\ alarms' = IF \E k \in 1 .. size : words[k] # (rx_seq[c] + k - 1) % SeqRange
                    THEN alarms \cup {c} ELSE alarms
       /\ rx_seq' = [rx_seq EXCEPT ![c] = (@ + size) % SeqRange]
    \/ /\ Len(words) = size /\ program.name = "bench"
       /\ TakeStamp(c, words)
    \/ /\ Len(words) < size
       /\ UNCHANGED <<alarms, rx_seq>>

\* handle(): one recv, and one packet for it.
Recv(c) ==
    /\ thread = "recv" /\ at = c
    /\ \E k \in Arrived("client", c, size) :
        /\ Receive("client", c, k)
        /\ Inspect(c, SubSeq(wire["client"][c], 1, k))
        /\ split' = IF k < size THEN split \cup {c} ELSE split
    /\ Fill(c)
    /\ thread' = "send"
    /\ UNCHANGED <<phase, ticks, running, events, serverVars>>

\* recv() returned 0 or -1: the loop breaks, whatever else there is to handle.
HandleFails(c) ==
    /\ thread = "recv" /\ at = c
    /\ RecvFails("client", c)
    /\ running' = FALSE
    /\ events' = {}
    /\ at' = NoConn
    /\ thread' = "test"
    /\ UNCHANGED <<phase, ticks, left, tx_seq, rx_seq, alarms, split, serverVars>>

\* The timer of main() has expired: report(), unless the loop has stopped.
Tick ==
    /\ phase = "tick" /\ running /\ ticks < duration
    /\ ticks' = ticks + 1
    /\ UNCHANGED <<pipeVars, phase, running, thread, events, at, left, tx_seq, rx_seq, alarms, split, serverVars>>

\* Mutant: the loop is not told to stop.
StopUntold ==
    /\ phase = "tick" /\ (~running \/ ticks = duration)
    /\ phase' = "join"
    /\ UNCHANGED <<pipeVars, ticks, running, thread, events, at, left, tx_seq, rx_seq, alarms, split, serverVars>>

Stop ==
    /\ phase = "tick" /\ (~running \/ ticks = duration)
    /\ running' = FALSE
    /\ phase' = "join"
    /\ UNCHANGED <<pipeVars, ticks, thread, events, at, left, tx_seq, rx_seq, alarms, split, serverVars>>

\* The destructors: of EventLoop, which joins, and of its connections.
Join ==
    /\ phase = "join" /\ thread = "ended"
    /\ CloseAll("client", Used)
    /\ phase' = "end"
    /\ UNCHANGED <<ticks, running, thread, events, at, left, tx_seq, rx_seq, alarms, split, serverVars>>

------------------------------------------------------------------------------
(* The server.                                                             *)

\* accept4; the loop is chosen by the descriptor, whose number is anybody's.
Accept(c) ==
    /\ c \in backlog /\ accepted = NoConn
    /\ backlog' = backlog \ {c}
    /\ accepted' = c
    /\ UNCHANGED <<pipeVars, clientVars, failed, buf_conns, conns, loop, batch, cur, held>>

\* accept4 returns -1: the error is printed, and a loop is given a connection
\* all the same, of which epoll will never tell.
AcceptFails(l) ==
    /\ accepted = NoConn /\ failed < program.failures
    /\ failed' = failed + 1
    /\ buf_conns' = [buf_conns EXCEPT ![l] = Append(@, NoConn)]
    /\ UNCHANGED <<pipeVars, clientVars, backlog, accepted, conns, loop, batch, cur, held>>

add_conn(l) ==
    /\ accepted # NoConn
    /\ buf_conns' = [buf_conns EXCEPT ![l] = Append(@, accepted)]
    /\ accepted' = NoConn
    /\ UNCHANGED <<pipeVars, clientVars, backlog, failed, conns, loop, batch, cur, held>>

\* Mutant: one connection is taken from the queue and the rest is dropped.
DumpOne(l) ==
    /\ loop[l] = "dump"
    /\ conns' = [conns EXCEPT ![l] = IF buf_conns[l] = <<>> THEN @ ELSE Append(@, Head(buf_conns[l]))]
    /\ buf_conns' = [buf_conns EXCEPT ![l] = <<>>]
    /\ loop' = [loop EXCEPT ![l] = "wait"]
    /\ UNCHANGED <<pipeVars, clientVars, backlog, accepted, failed, batch, cur, held>>

dump_conn(l) ==
    /\ loop[l] = "dump"
    /\ conns' = [conns EXCEPT ![l] = @ \o buf_conns[l]]
    /\ buf_conns' = [buf_conns EXCEPT ![l] = <<>>]
    /\ loop' = [loop EXCEPT ![l] = "wait"]
    /\ UNCHANGED <<pipeVars, clientVars, backlog, accepted, failed, batch, cur, held>>

\* epoll_wait returns what is readable; without any, after 100 ms.
ServerWait(l) ==
    /\ loop[l] = "wait"
    /\ batch' = [batch EXCEPT ![l] =
                   {n \in 1 .. Len(conns[l]) : conns[l][n] # NoConn /\ Readable("server", conns[l][n])}]
    /\ loop' = [loop EXCEPT ![l] = IF batch'[l] = {} THEN "dump" ELSE "pick"]
    /\ UNCHANGED <<pipeVars, clientVars, backlog, accepted, failed, buf_conns, conns, cur, held>>

\* The next event; epoll reports them in any order.
Pick(l) ==
    /\ loop[l] = "pick"
    /\ \E n \in batch[l] :
        /\ cur' = [cur EXCEPT ![l] = n]
        /\ batch' = [batch EXCEPT ![l] = @ \ {n}]
    /\ loop' = [loop EXCEPT ![l] = "recv"]
    /\ UNCHANGED <<pipeVars, clientVars, backlog, accepted, failed, buf_conns, conns, held>>

\* The handler returned.
Handled(l) ==
    /\ cur' = [cur EXCEPT ![l] = 0]
    /\ held' = [held EXCEPT ![l] = <<>>]
    /\ loop' = [loop EXCEPT ![l] = IF batch[l] = {} THEN "dump" ELSE "pick"]
    /\ UNCHANGED batch

\* rm_conn(std::move(conns[idx])): the pointer is left null and the socket closed.
rm_conn(l) ==
    /\ conns' = [conns EXCEPT ![l][cur[l]] = NoConn]
    /\ CloseAll("server", {conns[l][cur[l]]})

\* The recv of Connection::handle; the server's buffer holds all there may be.
ServerRecv(l) ==
    /\ loop[l] = "recv"
    /\ LET c == conns[l][cur[l]]
       IN  \/ \E k \in Arrived("server", c, Cap) :
                /\ Receive("server", c, k)
                /\ held' = [held EXCEPT ![l] = SubSeq(wire["server"][c], 1, k)]
                /\ loop' = [loop EXCEPT ![l] = "send"]
                /\ UNCHANGED <<conns, batch, cur>>
           \/ /\ Eof("server", c) \/ c \in broken
              /\ rm_conn(l)
              /\ Handled(l)
    /\ UNCHANGED <<clientVars, backlog, accepted, failed, buf_conns>>

\* Its send: what does not fit is lost, and nothing at all is an error.
ServerSend(l) ==
    /\ loop[l] = "send"
    /\ LET c == conns[l][cur[l]]
           k == IF Len(held[l]) < Room("server", c) THEN Len(held[l]) ELSE Room("server", c)
       IN  \/ /\ k > 0
              /\ Transmit("server", c, SubSeq(held[l], 1, k))
              /\ UNCHANGED conns
           \/ /\ k = 0 \/ c \in broken
              /\ rm_conn(l)
    /\ Handled(l)
    /\ UNCHANGED <<clientVars, backlog, accepted, failed, buf_conns>>

------------------------------------------------------------------------------
Main ==
    \/ \E c \in Used : Connect(c) \/ FirstSend(c)
    \/ (thread = "none" /\ SendFull)
    \/ StartThread \/ Tick \/ Stop \/ Join

Thread ==
    \/ TestRunning \/ EpollWait \/ Dispatch
    \/ (thread = "send" /\ SendFull)
    \/ \E c \in Used : Recv(c) \/ HandleFails(c)

Acceptor ==
    \/ \E c \in Used : Accept(c)
    \/ \E l \in program.loops : AcceptFails(l) \/ add_conn(l)

EventLoop(l) == dump_conn(l) \/ ServerWait(l) \/ Pick(l) \/ ServerRecv(l) \/ ServerSend(l)

NextBench == Main \/ Thread \/ Acceptor \/ \E l \in program.loops : EventLoop(l)

------------------------------------------------------------------------------
(* Properties.                                                             *)

\* The programs of this module; of others its state says nothing.
Epoll == program.name \in {"verify", "bench"}

\* Until a connection has received part of a packet, there is one packet on the
\* way at most, however the server cuts it, and the client raises no alarm and
\* takes no wrong time stamp.
InStep ==
    Epoll =>
    \A c \in Used \ split :
        LET holding == {l \in Loops : loop[l] = "send" /\ conns[l][cur[l]] = c}
        IN  /\ Len(wire["client"][c]) + Len(wire["server"][c]) + (IF at = c THEN left ELSE 0)
                + (IF holding = {} THEN 0 ELSE Len(held[CHOOSE l \in holding : TRUE])) <= size
            /\ c \notin alarms

\* Where c is in the sequences of the loops.
Places(lists, c) ==
    UNION {{l} \X {j \in 1 .. Len(lists[l]) : lists[l][j] = c} : l \in Loops}

\* An established connection is in one place of the server: to be accepted, in
\* the acceptor's hand, in one queue, or once with one loop; or it was removed.
HandedOver ==
    Epoll =>
    \A c \in Used :
        LET places == (IF c \in backlog THEN 1 ELSE 0) + (IF accepted = c THEN 1 ELSE 0)
                + Cardinality(Places(buf_conns, c)) + Cardinality(Places(conns, c))
        IN  places = IF sock["server"][c] = "open" THEN 1 ELSE 0

\* The client ends when its time is up, although it waits for events without
\* a timeout, and whatever the server loses.
ClientEnds == Epoll => <>(phase = "end")
=============================================================================
