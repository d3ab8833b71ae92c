--------------------------- MODULE OneShotServer ---------------------------
(***************************************************************************)
(* network/tcp_echo: server_epollout.cpp, server_epollout_simple.cpp and   *)
(* server_epoll_et.cpp "send a reponse upon connection establish, and then *)
(* close".  The constructor of a Connection starts to send, EPOLLOUT goes  *)
(* on with it.  What a client sends is read and dropped.                   *)
(*                                                                         *)
(* The programs differ in how often send_buf calls send, in what a new     *)
(* socket is registered for, and in that server_epoll_et.cpp registers it  *)
(* once, edge-triggered: epoll_wait then reports a socket once for each    *)
(* time that something new happened to it.                                 *)
(***************************************************************************)
EXTENDS EpollServer, FiniteSetsExt

CONSTANTS
    reponse_size,
    Programs,           \* the programs that are checked
    AcceptFailures      \* bound: calls of accept4 that fail

ASSUME OneShotAssumption ==
    /\ reponse_size \in Nat \ {0}
    /\ Programs \subseteq {"epollout", "simple", "et"}
    /\ AcceptFailures \in Nat

VARIABLES
    program,            \* the program that runs
    edge,               \* edge[c]: something happened to the socket of c
    nospace,            \* nospace[c]: it was found full, which the kernel notes
    closed,             \* the clients that the server has closed
    send_len,
    failures            \* failed calls of accept4

epollVars == <<program, edge, nospace>>
serverVarsOnce == <<conns, closed, send_len, enable_epollout, loop, batch, cur, failures>>
varsOnce == <<peerVars, epollVars, serverVarsOnce>>

InitOnce ==
    /\ PeersInit
    /\ program \in Programs
    /\ edge = [c \in Clients |-> FALSE]
    /\ nospace = [c \in Clients |-> FALSE]
    /\ conns = {} /\ closed = {}
    /\ send_len = [c \in Clients |-> 0]
    /\ enable_epollout = [c \in Clients |-> FALSE]
    /\ loop = "wait"
    /\ batch = {}
    /\ cur = Idle
    /\ failures = 0

SendLoops == program # "simple"

FirstInterest == IF program = "epollout" THEN {"IN"} ELSE {"IN", "OUT"}

\* The sockets that epoll_wait looks at.
Polled == {c \in Clients : interest[c] # {} /\ (program = "et" => edge[c])}

ReadyOnce ==
    {[h |-> c, ev |-> Events(c)] : c \in {d \in Polled : Events(d) # {}}}
        \cup (IF backlog # {} THEN {[h |-> Acceptor, ev |-> {"IN"}]} ELSE {})

\* epoll_wait: max_events is 4096, all that is ready is reported.  The kernel
\* looks at a socket that something happened to, and notes if it is full.
EpollWaitOnce ==
    /\ loop = "wait"
    /\ ReadyOnce # {} \/ (program = "et" /\ Polled # {})
    /\ batch' = ReadyOnce
    /\ loop' = IF ReadyOnce = {} THEN "wait" ELSE "dispatch"
    /\ edge' = [c \in Clients |-> edge[c] /\ c \notin Polled]
    /\ nospace' = [c \in Clients |->
                      nospace[c] \/ (program = "et" /\ c \in Polled /\ Room(c) = 0)]
    /\ UNCHANGED <<peerVars, program, conns, closed, send_len, enable_epollout, cur, failures>>

\* handle returned -1.  What is in the send buffer is still delivered, unless
\* unread bytes of the client are dropped: the client is then sent a reset,
\* and loses what has not arrived.
close_conn(c, buffered) ==
    /\ conns' = conns \ {c}
    /\ closed' = closed \cup {c}
    /\ interest' = [interest EXCEPT ![c] = {}]
    /\ \E k \in 0 .. Len(buffered) :
        /\ Unread(c) = 0 => k = Len(buffered)
        /\ tx' = [tx EXCEPT ![c] = SubSeq(buffered, 1, k)]
    /\ Return

\* The for loop of loop(), and the first decisions of Connection::handle.
DispatchOnce ==
    /\ loop = "dispatch"
    /\ UNCHANGED <<peer, sent, recvd, got, backlog, epollVars, send_len, enable_epollout, failures>>
    /\ \E e \in batch :
        /\ batch' = batch \ {e}
        /\ \/ /\ "ERR" \in e.ev
              /\ close_conn(e.h, tx[e.h])
           \/ /\ "ERR" \notin e.ev
              /\ loop' = IF e.h = Acceptor THEN "accept"
                         ELSE IF "OUT" \in e.ev THEN "send" ELSE "recv"
              /\ cur' = e
              /\ UNCHANGED <<conns, closed, interest, tx>>

\* handle_accept up to the body of the constructor.
AcceptOnce ==
    /\ loop = "accept"
    /\ UNCHANGED <<peer, sent, recvd, tx, got, program, nospace, closed, batch, failures>>
    /\ \E c \in backlog :
        /\ backlog' = backlog \ {c}
        /\ interest' = [interest EXCEPT ![c] = FirstInterest]
        /\ edge' = [edge EXCEPT ![c] = program = "et"]
        /\ conns' = conns \cup {c}
        /\ send_len' = [send_len EXCEPT ![c] = 0]
        /\ enable_epollout' = [enable_epollout EXCEPT ![c] = FALSE]
        /\ loop' = "construct"
        /\ cur' = [h |-> c, ev |-> {}]

\* accept4 returns -1: handle_accept returns, epoll will report it again.
AcceptFailsOnce ==
    /\ loop = "accept"
    /\ failures < AcceptFailures
    /\ failures' = failures + 1
    /\ UNCHANGED <<peerVars, epollVars, conns, closed, send_len, enable_epollout, batch>>
    /\ Return

------------------------------------------------------------------------------
(* send_buf for connection c: one step for each call of send.              *)

\* send_buf returned 0: back to loop(), or on to handle_recv.
SendReturns0 ==
    /\ UNCHANGED <<conns, closed>>
    /\ \/ /\ loop = "send" /\ "IN" \in cur.ev
          /\ loop' = "recv"
          /\ UNCHANGED cur
       \/ /\ loop = "construct" \/ "IN" \notin cur.ev
          /\ Return

\* The constructor drops what send_buf returns, even when all is sent.
ConstructorReturns == Return /\ UNCHANGED <<conns, closed>>

Sending(c) == loop \in {"construct", "send"} /\ cur.h = c

\* Mutant: each call sends from the start of the response.
FromStart(c, n) == [k \in 1 .. n |-> k]

\* The n bytes at reponse + send_len.
Following(c, n) == [k \in 1 .. n |-> send_len[c] + k]

\* Mutant: the last send does not close.
SentAllStays(c, buffered) ==
    /\ tx' = [tx EXCEPT ![c] = buffered]
    /\ set_epollout(c, FALSE)
    /\ ConstructorReturns

\* The response is complete: EPOLLOUT is dropped if it was asked for, and
\* send_buf returns 1, on which handle_send, and it alone, closes.
SentAll(c, buffered) ==
    \/ /\ loop = "construct"
       /\ tx' = [tx EXCEPT ![c] = buffered]
       /\ IF enable_epollout[c] THEN set_epollout(c, FALSE)
          ELSE UNCHANGED <<interest, enable_epollout>>
       /\ ConstructorReturns
    \/ /\ loop = "send"
       /\ enable_epollout' = [enable_epollout EXCEPT ![c] = FALSE]
       /\ close_conn(c, buffered)

\* What is left of the response.
Asked(c) == reponse_size - send_len[c]

\* send takes n bytes.  Short of the whole the loop, if it is one, goes on.
Send(c) ==
    /\ Sending(c) /\ send_len[c] < reponse_size /\ peer[c] # "reset" /\ Room(c) > 0
    /\ UNCHANGED <<peer, sent, recvd, got, backlog, epollVars, batch, failures>>
    /\ \E n \in 1 .. Min({Room(c), Asked(c)}) :
        LET buffered == tx[c] \o Following(c, n)
        IN  /\ send_len' = [send_len EXCEPT ![c] = @ + n]
            /\ \/ /\ send_len[c] + n # reponse_size
                  /\ tx' = [tx EXCEPT ![c] = buffered]
                  /\ UNCHANGED <<interest, enable_epollout>>
                  /\ IF SendLoops THEN UNCHANGED <<conns, closed, loop, cur>>
                     ELSE SendReturns0
               \/ /\ send_len[c] + n = reponse_size
                  /\ SentAll(c, buffered)

\* Mutant: EPOLLOUT is not asked for.
SendFullUnarmedOnce(c) ==
    /\ Sending(c) /\ send_len[c] < reponse_size /\ peer[c] # "reset" /\ Room(c) = 0
    /\ UNCHANGED <<peerVars, program, edge, send_len, enable_epollout, batch, failures>>
    /\ nospace' = [nospace EXCEPT ![c] = program = "et"]
    /\ SendReturns0

\* send fails with EAGAIN: EPOLLOUT is asked for, unless it has been.
SendFullOnce(c) ==
    /\ Sending(c) /\ send_len[c] < reponse_size /\ peer[c] # "reset" /\ Room(c) = 0
    /\ UNCHANGED <<peer, sent, recvd, tx, got, backlog, program, edge, send_len, batch, failures>>
    /\ nospace' = [nospace EXCEPT ![c] = program = "et"]
    /\ IF enable_epollout[c] \/ program = "et" THEN UNCHANGED <<interest, enable_epollout>>
       ELSE set_epollout(c, TRUE)
    /\ SendReturns0

\* send fails otherwise.
SendFailsOnce(c) ==
    /\ Sending(c) /\ send_len[c] < reponse_size /\ peer[c] = "reset"
    /\ UNCHANGED <<peer, sent, recvd, got, backlog, epollVars, send_len, enable_epollout, batch, failures>>
    /\ \/ /\ loop = "construct"
          /\ UNCHANGED <<tx, interest>>
          /\ ConstructorReturns
       \/ /\ loop = "send"
          /\ close_conn(c, tx[c])

\* Everything had been sent before, by the constructor.
SendNothingOnce(c) ==
    /\ loop = "send" /\ cur.h = c /\ send_len[c] = reponse_size
    /\ UNCHANGED <<peer, sent, recvd, got, backlog, epollVars, send_len, enable_epollout, batch, failures>>
    /\ close_conn(c, tx[c])

\* handle_recv: recv until there is nothing, which is fine, or until the end
\* of the stream or an error, which is not.
RecvOnce(c) ==
    /\ loop = "recv" /\ cur.h = c
    /\ UNCHANGED <<peer, sent, got, backlog, epollVars, send_len, enable_epollout, batch, failures>>
    /\ \/ /\ Unread(c) > 0 /\ peer[c] # "reset"
          /\ recvd' = [recvd EXCEPT ![c] = sent[c]]
          /\ UNCHANGED <<tx, interest, conns, closed, loop, cur>>
       \/ /\ Unread(c) = 0 /\ peer[c] = "open"
          /\ UNCHANGED <<tx, recvd, interest, conns, closed>>
          /\ Return
       \/ /\ peer[c] = "reset" \/ (Unread(c) = 0 /\ peer[c] = "eof")
          /\ UNCHANGED recvd
          /\ close_conn(c, tx[c])

------------------------------------------------------------------------------
ServerOnce ==
    \/ EpollWaitOnce \/ DispatchOnce \/ AcceptOnce \/ AcceptFailsOnce
    \/ \E c \in Clients :
          Send(c) \/ SendFullOnce(c) \/ SendFailsOnce(c) \/ SendNothingOnce(c) \/ RecvOnce(c)

\* What a step of client c means to an edge-triggered epoll: something new,
\* except that it has read from a socket that nobody found full.
Wakes(c) ==
    /\ edge' = [edge EXCEPT ![c] =
          edge[c] \/ (program = "et" /\ interest[c] # {} /\ (tx' = tx \/ nospace[c]))]
    /\ nospace' = [nospace EXCEPT ![c] = @ /\ tx' = tx]
    /\ UNCHANGED <<program, serverVarsOnce>>

\* A client does not go on to send once the server has closed.
ClientOnce(c) ==
    /\ c \in closed => UNCHANGED sent
    /\ Connect(c) \/ ClientSend(c) \/ ClientRead(c) \/ ClientShutdown(c) \/ ClientReset(c)
    /\ Wakes(c)

NextOnce == ServerOnce \/ \E c \in Clients : ClientOnce(c)

SpecOnce == InitOnce /\ [][NextOnce]_varsOnce

\* The server thread runs, and a client reads what it can read.
FairSpecOnce ==
    /\ SpecOnce
    /\ WF_varsOnce(ServerOnce)
    /\ \A c \in Clients : WF_varsOnce(ClientRead(c) /\ Wakes(c))

------------------------------------------------------------------------------
(* Properties.                                                             *)

\* What a client is sent is the response from its first byte on, without a
\* gap or a repetition wherever send stops.  The server closes on a client
\* that keeps its side open only when send has taken the whole response, and
\* if the client never sends, all of it reaches the client.
ResponseExact ==
    \A c \in Clients :
        LET stream == got[c] \o tx[c]
        IN  /\ stream = [n \in 1 .. Len(stream) |-> n]
            /\ c \in closed /\ peer[c] = "open" =>
                  /\ send_len[c] = reponse_size
                  /\ sent[c] = 0 => Len(stream) = reponse_size

\* A client that sends nothing and keeps its side open reads the whole
\* response: the rest of it never waits for an event nobody asked for.
ResponseDelivered ==
    \A c \in Clients :
        (c \in backlog) ~> (peer[c] # "open" \/ sent[c] > 0 \/ Len(got[c]) = reponse_size)

\* "send a reponse upon connection establish, and then close".
ThenClose ==
    \A c \in Clients : (c \in backlog) ~> (peer[c] # "open" \/ c \in closed)

\* The two programs that ask for EPOLLOUT from the start do close.
ClosesAfterResponse ==
    \A c \in Clients :
        (c \in backlog /\ program # "epollout") ~> (peer[c] # "open" \/ c \in closed)
=============================================================================
