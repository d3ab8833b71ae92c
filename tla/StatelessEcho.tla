---------------------------- MODULE StatelessEcho ----------------------------
(***************************************************************************)
(* The echo servers of network/tcp_echo that keep nothing between two      *)
(* events: what one recv takes is given to one send, and what that send    *)
(* does not take is dropped.  They are                                     *)
(*   "epoll"      server_epoll.cpp                                         *)
(*   "handle"     server_epoll_handle.cpp, server_epoll_handle.c and       *)
(*                server_epoll_reuseport.cpp (one of its loops: each has   *)
(*                sockets and an epoll instance of its own)                *)
(*   "poll"       server_poll_handle.cpp, with a table of descriptors      *)
(*                                                                         *)
(* The table has room for max_fds descriptors over the life of the poll    *)
(* server: the slot of a closed connection is not used again, and add_fd   *)
(* writes beyond the table when it is full.  What the program does then is *)
(* undefined; the model stops, and its properties end there.  Descriptors  *)
(* are limited to no less than max_fds, or poll() would fail before that.  *)
(*                                                                         *)
(* Byte n of a client's stream is the number n.  Sockets are registered    *)
(* for input only, and an error is reported with input: the branches for   *)
(* events without input are never taken.                                   *)
(***************************************************************************)
EXTENDS TcpPeers, FiniteSetsExt

CONSTANTS
    Programs,       \* the programs that are checked
    Callers,        \* Callers[g]: the clients that connect to program g
    buf_size, fd_range,
    max_fds,        \* the slots of class Poller
    Listener, NULL

ASSUME EchoAssumption ==
    /\ Programs \subseteq {"epoll", "handle", "poll"}
    /\ Callers \in [Programs -> SUBSET Clients]
    /\ buf_size \in Nat \ {0}
    /\ fd_range \in Nat \ {0} /\ max_fds \in Nat \ {0}
    /\ Listener \notin Clients
    /\ NULL \notin Clients \cup {Listener}

VARIABLES
    program,        \* the program that runs
    conns,          \* the clients whose socket is open and registered
    refused,        \* the clients whose socket is open and was not added
    fd,             \* fd[c]: the descriptor of that socket
    reported,       \* resets that a call has returned: after it, end of file
    short,          \* clients to whom a send took less than it was given
    loop,           \* what loop() does next
    batch,          \* epoll: who is still to be handled
    cur,            \* who is being handled
    held,           \* how many bytes echo_buf holds for cur
    pfds, handlers, \* class Poller; pfds has the first num slots only
    i               \* poll: the slot that the loop has come to

tableVars == <<pfds, handlers, i>>
echoVars == <<reported, short>>
serverVars == <<program, conns, refused, fd, echoVars, loop, batch, cur, held, tableVars>>
vars == <<peerVars, serverVars>>

ListenFd == 0

Init ==
    /\ PeersInit
    /\ program \in Programs
    /\ conns = {} /\ refused = {}
    /\ fd = [c \in Clients |-> -1]
    /\ reported = {} /\ short = {}
    /\ loop = "wait"
    /\ batch = {}
    /\ cur = Listener
    /\ held = 0
    /\ pfds = <<[fd |-> ListenFd, revents |-> {}]>>
    /\ handlers = [n \in 0 .. fd_range - 1 |-> NULL]
    /\ i = 1

\* The handler returned: on in the batch or in the table, or wait again.
Return ==
    /\ loop' = IF program = "poll" THEN "walk"
               ELSE IF batch = {} THEN "wait" ELSE "dispatch"
    /\ cur' = Listener
    /\ held' = 0

------------------------------------------------------------------------------
(* The loops over epoll.                                                   *)

EpollWait ==
    /\ program # "poll" /\ loop = "wait"
    /\ batch' = {c \in conns : Events(c) # {}} \cup {l \in {Listener} : backlog # {}}
    /\ batch' # {}
    /\ loop' = "dispatch"
    /\ UNCHANGED <<peerVars, program, conns, refused, fd, echoVars, cur, held, tableVars>>

Dispatch ==
    /\ loop = "dispatch"
    /\ \E h \in batch :
        /\ batch' = batch \ {h}
        /\ cur' = h
        /\ loop' = IF h = Listener THEN "accept" ELSE "recv"
    /\ UNCHANGED <<peerVars, program, conns, refused, fd, echoVars, held, tableVars>>

------------------------------------------------------------------------------
(* class Poller, and the loop over poll.                                   *)

\* What poll reports for a descriptor; nothing for a negative one.
Revents(n) ==
    IF n = ListenFd THEN IF backlog # {} THEN {"IN"} ELSE {}
    ELSE UNION {Events(c) : c \in {d \in conns : fd[d] = n}}

Poll ==
    /\ program = "poll" /\ loop = "wait"
    /\ \E s \in 1 .. Len(pfds) : Revents(pfds[s].fd) # {}
    /\ pfds' = [s \in 1 .. Len(pfds) |-> [pfds[s] EXCEPT !.revents = Revents(pfds[s].fd)]]
    /\ i' = 1
    /\ loop' = "walk"
    /\ UNCHANGED <<peerVars, program, conns, refused, fd, echoVars, batch, cur, held, handlers>>

\* The next slot with events, which may have been added during the walk.
Walk ==
    LET todo == {s \in i .. Len(pfds) : pfds[s].revents # {}}
        s == Min(todo)
    IN  /\ loop = "walk"
        /\ \/ /\ todo = {}
              /\ loop' = "wait"
              /\ UNCHANGED <<cur, pfds, i>>
           \/ /\ todo # {}
              /\ pfds' = [pfds EXCEPT ![s].revents = {}]
              /\ i' = s + 1
              /\ loop' = IF pfds[s].fd = ListenFd THEN "accept" ELSE "recv"
              /\ cur' = IF pfds[s].fd = ListenFd THEN Listener ELSE handlers[pfds[s].fd]
        /\ UNCHANGED <<peerVars, program, conns, refused, fd, echoVars, batch, held, handlers>>

\* add_fd refuses a descriptor that is out of range or in the table.
Refuses(n) == n >= fd_range \/ \E s \in 1 .. Len(pfds) : pfds[s].fd = n

add_fd(n, c) ==
    /\ pfds' = Append(pfds, [fd |-> n, revents |-> {}])
    /\ handlers' = [handlers EXCEPT ![n] = c]
    /\ UNCHANGED i

\* Mutant: the slot keeps its descriptor.
remove_fd_handler(n) ==
    /\ handlers' = [handlers EXCEPT ![n] = NULL]
    /\ UNCHANGED <<pfds, i>>

\* The slot stays, as a hole.
remove_fd(n) ==
    /\ pfds' = [s \in 1 .. Len(pfds) |->
                   IF pfds[s].fd = n THEN [pfds[s] EXCEPT !.fd = -1] ELSE pfds[s]]
    /\ handlers' = [handlers EXCEPT ![n] = NULL]
    /\ UNCHANGED i

------------------------------------------------------------------------------
(* handle_accept, echo and close.                                          *)

\* accept4 returns the lowest descriptor that is free.
FreeFd == Min({n \in 1 .. Cardinality(Clients) : \A c \in conns \cup refused : fd[c] # n})

AcceptedBy(c) ==
    /\ loop = "accept" /\ c \in backlog
    /\ backlog' = backlog \ {c}
    /\ fd' = [fd EXCEPT ![c] = FreeFd]
    /\ Return
    /\ UNCHANGED <<peer, sent, recvd, tx, got, program, echoVars, batch>>

\* The socket is registered, by handle_accept or by a constructor.
Register(c) ==
    /\ conns' = conns \cup {c}
    /\ interest' = [interest EXCEPT ![c] = {"IN"}]
    /\ UNCHANGED refused

AcceptEpoll(c) ==
    /\ program # "poll" /\ AcceptedBy(c)
    /\ Register(c)
    /\ UNCHANGED tableVars

\* The constructor of the poll server's Connection ignores what add_fd says.
AcceptPoll(c) ==
    /\ program = "poll" /\ AcceptedBy(c)
    /\ \/ /\ Refuses(FreeFd)
          /\ refused' = refused \cup {c}
          /\ UNCHANGED <<conns, interest, tableVars>>
       \/ /\ ~Refuses(FreeFd) /\ Len(pfds) < max_fds
          /\ Register(c)
          /\ add_fd(FreeFd, c)

\* add_fd does not compare num with max_fds.
AcceptOverruns(c) ==
    /\ program = "poll" /\ loop = "accept" /\ c \in backlog
    /\ ~Refuses(FreeFd) /\ Len(pfds) = max_fds
    /\ loop' = "overrun"
    /\ UNCHANGED <<peerVars, program, conns, refused, fd, echoVars, batch, cur, held, tableVars>>

AcceptFails ==
    /\ loop = "accept"
    /\ Return
    /\ UNCHANGED <<peerVars, program, conns, refused, fd, echoVars, batch, tableVars>>

\* Mutant: the end of the file does not close.
ClosesOnError(r) == r < 0

\* Whether the loop closes the socket when the echo returned r.
Closes(r) == r = 0 \/ (r < 0 /\ program # "epoll")

\* The socket is taken out of epoll, or of the table, and closed.
close_fd(c) ==
    /\ conns' = conns \ {c}
    /\ interest' = [interest EXCEPT ![c] = {}]
    /\ IF program = "poll" THEN remove_fd(fd[c]) ELSE UNCHANGED tableVars

\* The echo on the socket of c returned r.
EchoReturns(c, r) ==
    /\ IF Closes(r) THEN close_fd(c) ELSE UNCHANGED <<conns, interest, tableVars>>
    /\ Return

\* recv; on a connection that was reset it fails once, and then returns 0.
Recv(c) ==
    LET n == Min({Unread(c), buf_size})
    IN  /\ loop = "recv" /\ cur = c
        /\ UNCHANGED <<peer, sent, tx, got, backlog, program, refused, fd, short, batch>>
        /\ \/ /\ peer[c] # "reset" /\ n > 0
              /\ recvd' = [recvd EXCEPT ![c] = @ + n]
              /\ held' = n
              /\ loop' = "send"
              /\ UNCHANGED <<conns, interest, reported, cur, tableVars>>
           \/ /\ peer[c] = "eof" /\ n = 0
              /\ EchoReturns(c, 0)
              /\ UNCHANGED <<recvd, reported>>
           \/ /\ peer[c] = "reset"
              /\ EchoReturns(c, IF c \in reported THEN 0 ELSE -1)
              /\ reported' = reported \cup {c}
              /\ UNCHANGED recvd

\* Mutant: a short send is repeated, from the start of the buffer.
SendAgain(c) ==
    /\ loop = "send" /\ cur = c
    /\ UNCHANGED <<peer, sent, recvd, got, backlog, program, refused, fd, batch>>
    /\ \/ /\ peer[c] = "reset"
          /\ EchoReturns(c, -1)
          /\ reported' = reported \cup {c}
          /\ short' = short \cup {c}
          /\ UNCHANGED tx
       \/ /\ peer[c] # "reset"
          /\ \E n \in Min({1, Room(c)}) .. Min({held, Room(c)}) :
              /\ tx' = [tx EXCEPT ![c] = @ \o [k \in 1 .. n |-> recvd[c] - held + k]]
              /\ short' = IF n < held THEN short \cup {c} ELSE short
              /\ IF 0 < n /\ n < held THEN UNCHANGED <<conns, interest, loop, cur, held, tableVars>>
                 ELSE EchoReturns(c, IF n = 0 THEN -1 ELSE n)
          /\ UNCHANGED reported

\* send takes some of the bytes, or none (EAGAIN), and the rest is gone.
Send(c) ==
    /\ loop = "send" /\ cur = c
    /\ UNCHANGED <<peer, sent, recvd, got, backlog, program, refused, fd, batch>>
    /\ \/ /\ peer[c] = "reset"
          /\ EchoReturns(c, -1)
          /\ reported' = reported \cup {c}
          /\ short' = short \cup {c}
          /\ UNCHANGED tx
       \/ /\ peer[c] # "reset"
          /\ \E n \in Min({1, Room(c)}) .. Min({held, Room(c)}) :
              /\ tx' = [tx EXCEPT ![c] = @ \o [k \in 1 .. n |-> recvd[c] - held + k]]
              /\ short' = IF n < held THEN short \cup {c} ELSE short
              /\ EchoReturns(c, IF n = 0 THEN -1 ELSE n)
          /\ UNCHANGED reported

------------------------------------------------------------------------------
Server ==
    \/ EpollWait \/ Dispatch \/ Poll \/ Walk \/ AcceptFails
    \/ \E c \in Clients : AcceptEpoll(c) \/ AcceptPoll(c) \/ AcceptOverruns(c) \/ Recv(c) \/ Send(c)

Client(c) ==
    /\ Connect(c) \/ ClientSend(c) \/ ClientRead(c) \/ ClientShutdown(c) \/ ClientReset(c)
    /\ UNCHANGED serverVars

Next == Server \/ \E c \in Callers[program] : Client(c)

Spec == Init /\ [][Next]_vars

\* The server's thread runs.
FairSpec == Spec /\ WF_vars(Server)

------------------------------------------------------------------------------
(* Properties.                                                             *)

\* The poll server has written beyond its table.
Overrun == loop = "overrun"

\* What a client is sent is in the order it sent it, and nothing twice; it is
\* everything the server took, until a send took less than it was given.
EchoUntilShort ==
    ~Overrun =>
    \A c \in Clients :
        LET stream == got[c] \o tx[c]
            rest == IF cur = c THEN held ELSE 0
        IN  /\ \A n \in 1 .. Len(stream) - 1 : stream[n] < stream[n + 1]
            /\ c \in conns \ short => stream = [n \in 1 .. recvd[c] - rest |-> n]

\* Until the table of the poll server is full and add_fd writes beyond it: a
\* slot for each open connection, with its handler, whatever was removed and
\* which descriptors were used again; and events only in slots whose handler
\* is there to be called.
PollTable ==
    program = "poll" /\ ~Overrun =>
        /\ Len(pfds) <= max_fds
        /\ \A c \in conns :
              /\ handlers[fd[c]] = c
              /\ Cardinality({s \in 1 .. Len(pfds) : pfds[s].fd = fd[c]}) = 1
        /\ {pfds[s].fd : s \in 1 .. Len(pfds)} \subseteq {-1, ListenFd} \cup {fd[c] : c \in conns}
        /\ \A s \in 1 .. Len(pfds) : pfds[s].revents # {} => pfds[s].fd # -1
        /\ loop \in {"recv", "send"} => cur \in conns

\* A connection that its client has ended is closed in the end, unless the
\* poll server could not add it to its table, or overruns the table.
EndCloses ==
    \A c \in Clients : (c \in conns /\ peer[c] # "open") ~> (c \notin conns \/ Overrun)
=============================================================================
