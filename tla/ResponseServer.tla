--------------------------- MODULE ResponseServer ---------------------------
(***************************************************************************)
(* network/tcp_echo/server_epollout_response.cpp: every request of         *)
(* request_size bytes is answered by response_buf, response_size bytes     *)
(* long.  A Connection counts the responses it owes; one of them may be    *)
(* half sent, with EPOLLOUT asked for while the socket is full.            *)
(*                                                                         *)
(* Byte n of a response is the number n.  What requests hold is never      *)
(* looked at, so of the RingBuffer only the counters are kept: f, and p,   *)
(* which counts the bytes received and is recvd[c] here.  One action is    *)
(* one system call, with the computation up to the next one.               *)
(***************************************************************************)
EXTENDS EpollServer, RingBuffer, FiniteSetsExt

CONSTANTS max_events, response_size, request_size

\* The ring holds less than one request between two calls of recv_buf, and so
\* is never full when recv_buf starts.
ASSUME ResponseAssumption ==
    /\ max_events \in Nat \ {0}
    /\ response_size \in Nat \ {0}
    /\ request_size \in 1 .. max_pkt_size - 1

VARIABLES
    f,                  \* f[c]: bytes of complete requests taken from the ring
    response_cnt,       \* response_cnt[c]: responses not begun
    response_pos        \* response_pos[c]: bytes sent of the current one

respVars == <<response_cnt, response_pos>>
serverVars == <<conns, f, respVars, enable_epollout, loop, batch, cur>>
vars == <<peerVars, serverVars>>

Init ==
    /\ PeersInit
    /\ conns = {}
    /\ f = [c \in Clients |-> 0]
    /\ response_cnt = [c \in Clients |-> 0]
    /\ response_pos = [c \in Clients |-> response_size]
    /\ enable_epollout = [c \in Clients |-> FALSE]
    /\ loop = "wait"
    /\ batch = {}
    /\ cur = Idle

------------------------------------------------------------------------------
(* EventLoop::run                                                          *)

Ready ==
    {[h |-> c, ev |-> Events(c)] : c \in {d \in Clients : Events(d) # {}}}
        \cup (IF backlog # {} THEN {[h |-> Acceptor, ev |-> {"IN"}]} ELSE {})

EpollWait ==
    /\ loop = "wait"
    /\ Ready # {}
    /\ batch' \in kSubset(Min({Cardinality(Ready), max_events}), Ready)
    /\ loop' = "dispatch"
    /\ UNCHANGED <<peerVars, conns, f, respVars, enable_epollout, cur>>

\* A handler returned a negative value:  delete handler.
Delete(c) ==
    /\ conns' = conns \ {c}
    /\ interest' = [interest EXCEPT ![c] = {}]
    /\ Return

\* The constructor of Connection.
NewConnection(c) ==
    /\ conns' = conns \cup {c}
    /\ interest' = [interest EXCEPT ![c] = {"IN"}]
    /\ enable_epollout' = [enable_epollout EXCEPT ![c] = FALSE]
    /\ response_cnt' = [response_cnt EXCEPT ![c] = 0]
    /\ response_pos' = [response_pos EXCEPT ![c] = response_size]

\* Acceptor::handle
Accept ==
    /\ loop = "accept"
    /\ UNCHANGED <<peer, sent, recvd, tx, got, f, batch>>
    /\ \E c \in backlog : backlog' = backlog \ {c} /\ NewConnection(c)
    /\ Return

\* accept4 fails, and run() deletes an Acceptor that lives on main's stack:
\* the C library stops the program, and the kernel closes its sockets.
AcceptFails ==
    /\ loop = "accept"
    /\ loop' = "aborted"
    /\ conns' = {}
    /\ interest' = [c \in Clients |-> {}]
    /\ batch' = {}
    /\ UNCHANGED <<peer, sent, recvd, tx, got, backlog, f, respVars, enable_epollout, cur>>

\* Connection::handle: EPOLLOUT before EPOLLIN, anything else deletes.
Dispatch ==
    /\ loop = "dispatch"
    /\ UNCHANGED <<peer, sent, recvd, tx, got, backlog, f, respVars, enable_epollout>>
    /\ \E e \in batch :
        /\ batch' = batch \ {e}
        /\ \/ /\ "ERR" \in e.ev
              /\ Delete(e.h)
           \/ /\ "ERR" \notin e.ev
              /\ loop' = IF e.h = Acceptor THEN "accept"
                         ELSE IF "OUT" \in e.ev THEN "send" ELSE "recv"
              /\ cur' = e
              /\ UNCHANGED <<conns, interest>>

------------------------------------------------------------------------------
(* Connection::recv_request and send_response, for the connection c.       *)

\* recv_request counts the complete requests held after n more bytes.
Requests(c, n) == get_exist_size(f[c], recvd[c] + n) \div request_size

\* recv_buf, one recvmsg into all of the ring that is free, then recv_request,
\* and send_response follows.
Recv(c) ==
    LET n == Min({Unread(c), Total(get_blank_iovec(f[c], recvd[c]))})
        ended == peer[c] = "reset" \/ (peer[c] = "eof" /\ Unread(c) = 0)
    IN  /\ loop = "recv" /\ cur.h = c
        /\ UNCHANGED <<peer, sent, tx, got, backlog, response_pos, enable_epollout, batch>>
        /\ \/ /\ ended
              /\ Delete(c)
              /\ UNCHANGED <<recvd, f, response_cnt>>
           \/ /\ ~ended
              /\ recvd' = [recvd EXCEPT ![c] = @ + n]
              /\ response_cnt' = [response_cnt EXCEPT ![c] = @ + Requests(c, n)]
              /\ f' = [f EXCEPT ![c] = @ + Requests(c, n) * request_size]
              /\ loop' = "send"
              /\ cur' = [cur EXCEPT !.ev = {}]
              /\ UNCHANGED <<conns, interest>>

\* send_response returned 0: recv_request follows handle_write.
SendReturns ==
    IF "IN" \in cur.ev
    THEN loop' = "recv" /\ UNCHANGED cur
    ELSE Return

Owes(cnt, pos) == cnt > 0 \/ pos < response_size

\* Mutant: a response that is half sent is dropped for the next one.
StartedAnew(c) ==
    IF response_cnt[c] > 0
    THEN [cnt |-> response_cnt[c] - 1, pos |-> 0]
    ELSE [cnt |-> response_cnt[c], pos |-> response_pos[c]]

\* Where the next send starts: a new response once the last is sent whole.
Started(c) ==
    IF response_pos[c] = response_size
    THEN [cnt |-> response_cnt[c] - 1, pos |-> 0]
    ELSE [cnt |-> response_cnt[c], pos |-> response_pos[c]]

SendNothing(c) ==
    /\ loop = "send" /\ cur.h = c /\ ~Owes(response_cnt[c], response_pos[c])
    /\ UNCHANGED <<peerVars, conns, f, respVars, enable_epollout, batch>>
    /\ SendReturns

SendFails(c) ==
    /\ loop = "send" /\ cur.h = c /\ Owes(response_cnt[c], response_pos[c])
    /\ peer[c] = "reset"
    /\ response_cnt' = [response_cnt EXCEPT ![c] = Started(c).cnt]
    /\ response_pos' = [response_pos EXCEPT ![c] = Started(c).pos]
    /\ UNCHANGED <<peer, sent, recvd, tx, got, backlog, f, enable_epollout, batch>>
    /\ Delete(c)

\* Mutant: EPOLLOUT stays on.
SendSomeArmed(c) ==
    /\ loop = "send" /\ cur.h = c /\ Owes(response_cnt[c], response_pos[c])
    /\ peer[c] # "reset" /\ Room(c) > 0
    /\ \E n \in 1 .. Min({Room(c), response_size - Started(c).pos}) :
        /\ tx' = [tx EXCEPT ![c] = @ \o [k \in 1 .. n |-> Started(c).pos + k]]
        /\ response_cnt' = [response_cnt EXCEPT ![c] = Started(c).cnt]
        /\ response_pos' = [response_pos EXCEPT ![c] = Started(c).pos + n]
    /\ UNCHANGED <<peer, sent, recvd, got, backlog, interest, conns, f, enable_epollout, loop, batch, cur>>

\* send takes n bytes, which need not be all; the loop goes on.  EPOLLOUT is
\* dropped with the last byte owed.
SendSome(c) ==
    /\ loop = "send" /\ cur.h = c /\ Owes(response_cnt[c], response_pos[c])
    /\ peer[c] # "reset" /\ Room(c) > 0
    /\ \E n \in 1 .. Min({Room(c), response_size - Started(c).pos}) :
        /\ tx' = [tx EXCEPT ![c] = @ \o [k \in 1 .. n |-> Started(c).pos + k]]
        /\ response_cnt' = [response_cnt EXCEPT ![c] = Started(c).cnt]
        /\ response_pos' = [response_pos EXCEPT ![c] = Started(c).pos + n]
        /\ IF ~Owes(Started(c).cnt, Started(c).pos + n) /\ enable_epollout[c]
           THEN set_epollout(c, FALSE)
           ELSE UNCHANGED <<interest, enable_epollout>>
    /\ UNCHANGED <<peer, sent, recvd, got, backlog, conns, f, loop, batch, cur>>

\* Mutant: EPOLLOUT is not asked for.
SendFullUnarmed(c) ==
    /\ loop = "send" /\ cur.h = c /\ Owes(response_cnt[c], response_pos[c])
    /\ peer[c] # "reset" /\ Room(c) = 0
    /\ response_cnt' = [response_cnt EXCEPT ![c] = Started(c).cnt]
    /\ response_pos' = [response_pos EXCEPT ![c] = Started(c).pos]
    /\ UNCHANGED <<peerVars, conns, f, enable_epollout, batch>>
    /\ SendReturns

\* EAGAIN: EPOLLOUT is asked for if it is off, and the loop ends.
SendFull(c) ==
    /\ loop = "send" /\ cur.h = c /\ Owes(response_cnt[c], response_pos[c])
    /\ peer[c] # "reset" /\ Room(c) = 0
    /\ response_cnt' = [response_cnt EXCEPT ![c] = Started(c).cnt]
    /\ response_pos' = [response_pos EXCEPT ![c] = Started(c).pos]
    /\ IF enable_epollout[c] THEN UNCHANGED <<interest, enable_epollout>>
       ELSE set_epollout(c, TRUE)
    /\ UNCHANGED <<peer, sent, recvd, tx, got, backlog, conns, f, batch>>
    /\ SendReturns

------------------------------------------------------------------------------
Server ==
    \/ EpollWait \/ Dispatch \/ Accept \/ AcceptFails
    \/ \E c \in Clients :
          Recv(c) \/ SendNothing(c) \/ SendFails(c) \/ SendSome(c) \/ SendFull(c)

Client(c) ==
    /\ Connect(c) \/ ClientSend(c) \/ ClientRead(c) \/ ClientShutdown(c) \/ ClientReset(c)
    /\ UNCHANGED serverVars

Next == Server \/ \E c \in Clients : Client(c)

Spec == Init /\ [][Next]_vars

\* The server thread runs, and a client that has something to read reads it.
FairSpec ==
    /\ Spec
    /\ WF_vars(Server)
    /\ \A c \in Clients : WF_vars(ClientRead(c) /\ UNCHANGED serverVars)

------------------------------------------------------------------------------
(* Properties.                                                             *)

\* A client is sent whole responses one after the other, each from its first
\* byte on, wherever send stops and however many requests come in meanwhile;
\* with what its connection still owes they are one for each request.
OneResponsePerRequest ==
    \A c \in Clients :
        LET stream == got[c] \o tx[c]
        IN  /\ stream = [n \in 1 .. Len(stream) |-> ((n - 1) % response_size) + 1]
            /\ c \in conns =>
                  Len(stream) + response_cnt[c] * response_size
                              + (response_size - response_pos[c])
                      = response_size * (recvd[c] \div request_size)

\* Between handlers, EPOLLOUT is registered exactly for the connections that
\* owe bytes, and no connection holds a whole request that is not counted.
ArmedIffOwed ==
    \A c \in conns : cur.h # c =>
        /\ enable_epollout[c] <=> Owes(response_cnt[c], response_pos[c])
        /\ enable_epollout[c] <=> "OUT" \in interest[c]
        /\ recvd[c] - f[c] < request_size

\* A client that keeps its side open and reads gets a response to each of its
\* complete requests, as long as the program runs.
EventuallyAnswered ==
    \A c \in Clients :
        []<>(\/ Len(got[c]) = response_size * (sent[c] \div request_size)
             \/ peer[c] \in {"eof", "reset"} \/ loop = "aborted")
=============================================================================
