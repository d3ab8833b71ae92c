---------------------------- MODULE BlockingEcho ----------------------------
(***************************************************************************)
(* client.cpp against server.cpp ("v4"), and their copies in ipv6_tcp_echo *)
(* ("v6"), which take less notice of errors.  Both use a thread for each   *)
(* connection and sockets that block.  The client sends a request, waits   *)
(* for all of the answer, and does so request_num times.  What the bytes   *)
(* are makes no difference: here the number of the socket, which v4 sends. *)
(* Either process may be killed.                                           *)
(* The server's arrays of max_conns = 4096 slots are taken to be longer    *)
(* than the run: it does not stop at their end, nor use a slot twice.      *)
(***************************************************************************)
EXTENDS TcpPipe, FiniteSets

CONSTANTS
    request_num,
    NULL        \* the descriptor -1

VARIABLES
    requester,      \* requester[c]: what worker() of the client does next
    remaining,      \* remaining[c]: of send_full or recv_full
    send_len,       \* send_len[c]: what send_full returned
    answered,       \* answered[c]: the loop's i
    acceptor,       \* main() of the server: "accept", "create", "count"
    arriving,       \* connections to be accepted
    sock_fds, sock_num,
    worker,         \* worker[n]: what the thread of slot n does next
    fd,             \* fd[n]: the socket that it has read from its argument
    buf,            \* buf[n]: what it has to send
    killed          \* the sides whose process was killed

requestVars == <<requester, remaining, send_len, answered>>
workerVars == <<acceptor, arriving, sock_fds, sock_num, worker, fd, buf>>
vars == <<pipeVars, requestVars, workerVars, killed>>

Slots == 0 .. Cardinality(Conns) + AcceptFailures - 1

Init ==
    /\ PipeInit
    /\ requester = [c \in Conns |-> "none"]
    /\ remaining = [c \in Conns |-> 0]
    /\ send_len = [c \in Conns |-> 0]
    /\ answered = [c \in Conns |-> 0]
    /\ acceptor = "accept" /\ arriving = {}
    /\ sock_fds = [n \in Slots |-> NULL] /\ sock_num = 0
    /\ worker = [n \in Slots |-> "none"]
    /\ fd = [n \in Slots |-> NULL]
    /\ buf = [n \in Slots |-> <<>>]
    /\ killed = {}

------------------------------------------------------------------------------
(* The client.                                                             *)

Goto(c, from, to) == requester[c] = from /\ requester' = [requester EXCEPT ![c] = to]

\* main(): a connection and its thread.
Connect(c) ==
    /\ killed = {}
    /\ Goto(c, "none", "send")
    /\ Establish(c)
    /\ arriving' = arriving \cup {c}
    /\ remaining' = [remaining EXCEPT ![c] = size]
    /\ UNCHANGED <<send_len, answered, acceptor, sock_fds, sock_num, worker, fd, buf, killed>>

\* Nobody listens: the error is printed, and the thread runs on a socket that
\* has no connection.
ConnectFails(c) ==
    /\ "server" \in killed
    /\ Goto(c, "none", "send")
    /\ Unconnected(c)
    /\ remaining' = [remaining EXCEPT ![c] = size]
    /\ UNCHANGED <<send_len, answered, workerVars, killed>>

\* send_full returned n; recv_full begins.
Sent(c, n) ==
    /\ Goto(c, "send", "recv")
    /\ send_len' = [send_len EXCEPT ![c] = n]
    /\ remaining' = [remaining EXCEPT ![c] = size]

\* send_full of the client.  With an error the v4 version breaks; the v6 one
\* adds a byte to remaining and goes on for ever: no step.
SendFull(c) ==
    /\ requester[c] = "send"
    /\ \/ /\ Room("client", c) > 0
          /\ LET n == IF remaining[c] < Room("client", c) THEN remaining[c] ELSE Room("client", c)
             IN  /\ Transmit("client", c, [k \in 1 .. n |-> c])
                 /\ IF n = remaining[c] THEN Sent(c, size)
                    ELSE /\ remaining' = [remaining EXCEPT ![c] = @ - n]
                         /\ UNCHANGED <<requester, send_len>>
       \/ /\ c \in broken /\ program.name = "v4"
          /\ Sent(c, size - remaining[c])
          /\ UNCHANGED pipeVars
    /\ UNCHANGED <<answered, workerVars, killed>>

\* The loop of worker(): the next request, or close.
NextRequest(c) ==
    /\ answered' = [answered EXCEPT ![c] = @ + 1]
    /\ Goto(c, "recv", IF answered'[c] < request_num THEN "send" ELSE "close")
    /\ remaining' = [remaining EXCEPT ![c] = size]

\* recv_full, until it has all of the answer ...
RecvFull(c) ==
    /\ requester[c] = "recv"
    /\ \E k \in Arrived("client", c, remaining[c]) :
        /\ Receive("client", c, k)
        /\ IF k = remaining[c] THEN NextRequest(c)
           ELSE /\ remaining' = [remaining EXCEPT ![c] = @ - k]
                /\ UNCHANGED <<requester, answered>>
    /\ UNCHANGED <<send_len, workerVars, killed>>

\* ... or a recv fails; the v6 client does not look at what was received.
RecvBreaks(c) ==
    /\ requester[c] = "recv"
    /\ RecvFails("client", c)
    /\ IF program.name = "v4" /\ size - remaining[c] < send_len[c]
       THEN Goto(c, "recv", "close") /\ UNCHANGED <<remaining, answered>>
       ELSE NextRequest(c)
    /\ UNCHANGED <<send_len, workerVars, killed>>

Close(c) ==
    /\ Goto(c, "close", "exited")
    /\ CloseAll("client", {c})
    /\ UNCHANGED <<remaining, send_len, answered, workerVars, killed>>

------------------------------------------------------------------------------
(* The server.                                                             *)

\* main(): accept into the next slot, ...
Accept(c) ==
    /\ acceptor = "accept" /\ c \in arriving
    /\ arriving' = arriving \ {c}
    /\ sock_fds' = [sock_fds EXCEPT ![sock_num] = c]
    /\ acceptor' = "create"
    /\ UNCHANGED <<pipeVars, requestVars, sock_num, worker, fd, buf, killed>>

\* accept returns -1: the error is printed, and the slot gets it.
AcceptFails ==
    /\ acceptor = "accept"
    /\ Cardinality({n \in 0 .. sock_num - 1 : sock_fds[n] = NULL}) < program.failures
    /\ acceptor' = "create"
    /\ UNCHANGED <<pipeVars, requestVars, arriving, sock_fds, sock_num, worker, fd, buf, killed>>

\* ... pthread_create with the address of the slot, and sock_num++.
Create ==
    /\ acceptor = "create"
    /\ worker' = [worker EXCEPT ![sock_num] = "start"]
    /\ sock_num' = sock_num + 1
    /\ acceptor' = "accept"
    /\ UNCHANGED <<pipeVars, requestVars, arriving, sock_fds, fd, buf, killed>>

WorkerGoto(n, from, to) == worker[n] = from /\ worker' = [worker EXCEPT ![n] = to]

\* Mutant: the thread is given the variable that accept stores to next.
StartShared(n) ==
    /\ WorkerGoto(n, "start", "recv")
    /\ fd' = [fd EXCEPT ![n] = IF sock_num \in Slots /\ sock_fds[sock_num] # NULL
                               THEN sock_fds[sock_num] ELSE sock_fds[n]]
    /\ UNCHANGED <<pipeVars, requestVars, acceptor, arriving, sock_fds, sock_num, buf, killed>>

\* The thread reads the slot, perhaps after main has accepted more.
Start(n) ==
    /\ WorkerGoto(n, "start", "recv")
    /\ fd' = [fd EXCEPT ![n] = sock_fds[n]]
    /\ UNCHANGED <<pipeVars, requestVars, acceptor, arriving, sock_fds, sock_num, buf, killed>>

\* recv; on the descriptor -1 it fails.
WorkerRecv(n) ==
    /\ worker[n] = "recv"
    /\ \/ /\ fd[n] # NULL
          /\ \E k \in Arrived("server", fd[n], Cap) :
                /\ Receive("server", fd[n], k)
                /\ buf' = [buf EXCEPT ![n] = SubSeq(wire["server"][fd[n]], 1, k)]
                /\ WorkerGoto(n, "recv", "send")
       \/ /\ IF fd[n] = NULL THEN UNCHANGED pipeVars ELSE RecvFails("server", fd[n])
          /\ WorkerGoto(n, "recv", "close")
          /\ UNCHANGED buf
    /\ UNCHANGED <<requestVars, acceptor, arriving, sock_fds, sock_num, fd, killed>>

\* send_full of the server: after an error, v4 closes and v6 never returns.
WorkerSend(n) ==
    /\ worker[n] = "send"
    /\ \/ /\ Room("server", fd[n]) > 0
          /\ LET k == IF Len(buf[n]) < Room("server", fd[n]) THEN Len(buf[n]) ELSE Room("server", fd[n])
             IN  /\ Transmit("server", fd[n], SubSeq(buf[n], 1, k))
                 /\ buf' = [buf EXCEPT ![n] = SubSeq(@, k + 1, Len(@))]
                 /\ worker' = [worker EXCEPT ![n] = IF k = Len(buf[n]) THEN "recv" ELSE "send"]
       \/ /\ fd[n] \in broken /\ program.name = "v4"
          /\ WorkerGoto(n, "send", "close")
          /\ UNCHANGED <<pipeVars, buf>>
    /\ UNCHANGED <<requestVars, acceptor, arriving, sock_fds, sock_num, fd, killed>>

WorkerClose(n) ==
    /\ WorkerGoto(n, "close", "exited")
    /\ CloseAll("server", {fd[n]} \ {NULL})
    /\ UNCHANGED <<requestVars, acceptor, arriving, sock_fds, sock_num, fd, buf, killed>>

------------------------------------------------------------------------------
\* A process is killed: the kernel closes its sockets.
KillClient ==
    /\ killed = {}
    /\ killed' = {"client"}
    /\ CloseAll("client", {c \in Conns : sock["client"][c] = "open"})
    /\ requester' = [c \in Conns |-> "exited"]
    /\ UNCHANGED <<remaining, send_len, answered, workerVars>>

\* Connections that were not accepted are reset with the listening socket.
KillServer ==
    /\ killed = {}
    /\ killed' = {"server"}
    /\ LET S == {c \in Conns : sock["server"][c] = "open"}
       IN  Shut("server", S, arriving \cup Unread("server", S))
    /\ worker' = [n \in Slots |-> "exited"]
    /\ acceptor' = "exited" /\ arriving' = {}
    /\ UNCHANGED <<requestVars, sock_fds, sock_num, fd, buf>>

Requester(c) ==
    Connect(c) \/ ConnectFails(c) \/ SendFull(c) \/ RecvFull(c) \/ RecvBreaks(c) \/ Close(c)
Acceptor == Create \/ AcceptFails \/ \E c \in Conns : Accept(c)
Worker(n) == Start(n) \/ WorkerRecv(n) \/ WorkerSend(n) \/ WorkerClose(n)

Next ==
    \/ \E c \in Used : Requester(c)
    \/ Acceptor
    \/ \E n \in Slots : Worker(n)
    \/ KillClient \/ KillServer

------------------------------------------------------------------------------
(* Properties.                                                             *)

\* What can be on its way: both directions, and a word in a worker's hands.
Fits == size <= 2 * Cap + 1

\* A v6 thread repeats for ever a send that fails.
Repeats(c, doing) == program.name = "v6" /\ c \in broken /\ doing = "send"

\* While a request fits, every thread of the client ends, and the server
\* closes every connection that was established, each in a thread of its own,
\* whatever calls of accept have failed.  If neither process is killed, a
\* connection is established and each of its requests is answered.  If one is
\* killed, at any time, the threads of the other end as well, those too that
\* connect to nobody afterwards; except a v6 thread whose send fails.
AllAnswered ==
    /\ Fits => <>(\A c \in Used :
                    /\ requester[c] = "exited" \/ Repeats(c, requester[c])
                    /\ \/ sock["server"][c] = "closed"
                       \/ sock["server"][c] = "none" /\ killed # {}
                       \/ \E n \in Slots : fd[n] = c /\ Repeats(c, worker[n]))
    /\ [](\A c \in Used : requester[c] = "exited" /\ killed = {} => answered[c] = request_num)
=============================================================================
