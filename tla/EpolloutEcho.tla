---------------------------- MODULE EpolloutEcho ----------------------------
(***************************************************************************)
(* network/tcp_echo/server_epollout_handle.cpp: a single-threaded echo     *)
(* server over level-triggered epoll.  Each Connection echoes through a    *)
(* RingBuffer and asks for EPOLLOUT only while bytes are held that the     *)
(* socket would not take.                                                  *)
(*                                                                         *)
(* One action is one system call that can meet a change made by a client:  *)
(* epoll_wait, accept4, each recv, each send, with the computation up to   *)
(* the next one.  The events of a batch stay as epoll_wait reported them   *)
(* while the sockets move on.                                              *)
(***************************************************************************)
EXTENDS TcpPeers, RingBuffer, FiniteSetsExt

CONSTANTS max_events, Acceptor

ASSUME LoopAssumption == max_events \in Nat \ {0} /\ Acceptor \notin Clients

VARIABLES
    conns,              \* the clients with a live Connection object
    f, p, buf,          \* their rings: counters, and the byte in each slot
    enable_epollout,
    loop,               \* what run() does next
    batch,              \* events of this epoll_wait that are still to be handled
    cur,                \* the handler under way and its events
    iov, i,             \* blocks of the recv or send loop and the current one
    to_send, have_send  \* locals of send_buf_native

ringVars == <<f, p, buf>>
callVars == <<iov, i, to_send, have_send>>
serverVars == <<conns, f, p, buf, enable_epollout, loop, batch, cur, iov, i, to_send, have_send>>
vars == <<peerVars, serverVars>>

Idle == [h |-> Acceptor, ev |-> {}]

Init ==
    /\ PeersInit
    /\ conns = {}
    /\ f = [c \in Clients |-> 0]
    /\ p = [c \in Clients |-> 0]
    /\ buf = [c \in Clients |-> [s \in RingSlots |-> 0]]
    /\ enable_epollout = [c \in Clients |-> FALSE]
    /\ loop = "wait"
    /\ batch = {}
    /\ cur = Idle
    /\ iov = <<>> /\ i = 1
    /\ to_send = 0 /\ have_send = 0

------------------------------------------------------------------------------
(* EventLoop::run                                                          *)

\* The events ready for each handler; the listening socket is readable
\* while a connection waits.
Ready ==
    {[h |-> c, ev |-> Events(c)] : c \in {d \in Clients : Events(d) # {}}}
        \cup (IF backlog # {} THEN {[h |-> Acceptor, ev |-> {"IN"}]} ELSE {})

EpollWait ==
    /\ loop = "wait"
    /\ Ready # {}
    /\ LET n == Cardinality(Ready)
       IN  batch' \in kSubset(IF n < max_events THEN n ELSE max_events, Ready)
    /\ loop' = "dispatch"
    /\ UNCHANGED <<peerVars, conns, ringVars, enable_epollout, cur, callVars>>

\* The handler returned: the next event of the batch, or epoll_wait again.
Return ==
    /\ loop' = IF batch' = {} THEN "wait" ELSE "dispatch"
    /\ cur' = Idle
    /\ iov' = <<>> /\ i' = 1
    /\ to_send' = 0 /\ have_send' = 0

\* Mutant: the connection deletes itself, and its handler goes on.
DeleteAndGoOn(c) ==
    /\ conns' = conns \ {c}
    /\ interest' = [interest EXCEPT ![c] = {}]
    /\ UNCHANGED <<loop, cur, callVars>>

\* A handler returned a negative value:  delete handler.  The destructor
\* takes the socket out of epoll and closes it.
Delete(c) ==
    /\ conns' = conns \ {c}
    /\ interest' = [interest EXCEPT ![c] = {}]
    /\ Return

------------------------------------------------------------------------------
(* Acceptor::handle                                                        *)

\* Connection::Connection registers the new socket for EPOLLIN.
Accept ==
    /\ loop = "accept"
    /\ UNCHANGED <<peer, sent, recvd, tx, got, ringVars, batch>>
    /\ \E c \in backlog :
          /\ backlog' = backlog \ {c}
          /\ conns' = conns \cup {c}
          /\ interest' = [interest EXCEPT ![c] = {"IN"}]
          /\ enable_epollout' = [enable_epollout EXCEPT ![c] = FALSE]
    /\ Return

\* accept4 fails (descriptors run out, or addr_len, which nothing sets, is
\* negative): run() deletes the Acceptor, which lives on the stack of main().
\* The C library stops the program, and the kernel closes its sockets.
AcceptFails ==
    /\ loop = "accept"
    /\ loop' = "aborted"
    /\ conns' = {}
    /\ interest' = [c \in Clients |-> {}]
    /\ batch' = {}
    /\ UNCHANGED <<peer, sent, recvd, tx, got, backlog, ringVars, enable_epollout, cur, callVars>>

------------------------------------------------------------------------------
(* Connection::handle and what it calls, for the connection c.             *)

set_epollout(c, flag) ==
    /\ interest' = [interest EXCEPT ![c] = IF flag THEN {"IN", "OUT"} ELSE {"IN"}]
    /\ enable_epollout' = [enable_epollout EXCEPT ![c] = flag]

\* Mutant: EPOLLOUT is dropped but never asked for.
RearmOff(c, finished) ==
    IF enable_epollout[c] /\ finished
    THEN set_epollout(c, FALSE)
    ELSE UNCHANGED <<interest, enable_epollout>>

\* After a send: EPOLLOUT is dropped when everything is sent and asked for
\* when not, if that is a change.
Rearm(c, finished) ==
    IF enable_epollout[c] = finished
    THEN set_epollout(c, ~finished)
    ELSE UNCHANGED <<interest, enable_epollout>>

\* handle_read, called for the event e, up to its first recv, or past it when the
\* ring is full: then send_buf_native up to its first send, or the end of
\* handle.
EnterSend(e, f1, p1) ==
    IF get_exist_size(f1, p1) <= 0
    THEN Return
    ELSE /\ loop' = "send" /\ cur' = e
         /\ iov' = get_exist_iovec(f1, p1) /\ i' = 1
         /\ to_send' = get_exist_size(f1, p1) /\ have_send' = 0

EnterRecv(e, f1, p1) ==
    IF get_blank_size(f1, p1) <= 0
    THEN EnterSend(e, f1, p1)
    ELSE /\ loop' = "recv" /\ cur' = e
         /\ iov' = get_blank_iovec(f1, p1) /\ i' = 1
         /\ to_send' = 0 /\ have_send' = 0

\* The first decisions of handle, for the event e.
Handle(e) ==
    \/ /\ "ERR" \in e.ev
       /\ Delete(e.h)
    \/ /\ "ERR" \notin e.ev /\ "OUT" \in e.ev
       /\ loop' = "write" /\ cur' = e
       /\ UNCHANGED <<conns, interest, callVars>>
    \/ /\ e.ev = {"IN"}
       /\ EnterRecv(e, f[e.h], p[e.h])
       /\ UNCHANGED <<conns, interest>>

Dispatch ==
    /\ loop = "dispatch"
    /\ UNCHANGED <<peer, sent, recvd, tx, got, backlog, ringVars, enable_epollout>>
    /\ \E e \in batch :
        /\ batch' = batch \ {e}
        /\ \/ /\ e.h = Acceptor
              /\ loop' = "accept" /\ cur' = e
              /\ UNCHANGED <<conns, interest, callVars>>
           \/ e.h # Acceptor /\ Handle(e)

\* What a send of at most len bytes on the socket of c may accept: some of
\* what there is room for, or nothing (EAGAIN).
Accepted(c, len) ==
    LET most == IF Room(c) < len THEN Room(c) ELSE len
    IN  IF most = 0 THEN {0} ELSE 1 .. most

\* handle_write: send_buf, one sendmsg of everything held; then handle goes
\* on with handle_read if EPOLLIN was reported.
HandleWrite(c) ==
    LET v == get_exist_iovec(f[c], p[c])
        held == get_exist_size(f[c], p[c])
    IN  /\ loop = "write" /\ cur.h = c
        /\ UNCHANGED <<peer, sent, recvd, got, backlog, p, buf, batch>>
        /\ \/ /\ held > 0 /\ peer[c] = "reset"
              /\ Delete(c)
              /\ UNCHANGED <<f, tx, enable_epollout>>
           \/ /\ held > 0 => peer[c] # "reset"
              /\ \E n \in Accepted(c, held) :
                    /\ tx' = [tx EXCEPT ![c] =
                                 @ \o [k \in 1 .. n |-> buf[c][SlotOf(v, k - 1)]]]
                    /\ f' = [f EXCEPT ![c] = @ + n]
                    /\ IF held > 0 THEN Rearm(c, n = held)
                                   ELSE UNCHANGED <<interest, enable_epollout>>
                    /\ IF "IN" \in cur.ev
                       THEN EnterRecv(cur, f[c] + n, p[c])
                       ELSE Return
              /\ UNCHANGED conns

\* One recv of the loop of recv_buf_native.  It fails or finds the end of
\* file, or takes what there is (nothing: EAGAIN) and stops if that is short.
Recv(c) ==
    LET b == iov[i]
        n == IF Unread(c) < b.len THEN Unread(c) ELSE b.len
        closed == peer[c] = "reset" \/ (peer[c] = "eof" /\ Unread(c) = 0)
    IN  /\ loop = "recv" /\ cur.h = c
        /\ UNCHANGED <<peer, sent, tx, got, backlog, f, enable_epollout, batch>>
        /\ \/ /\ closed
              /\ Delete(c)
              /\ UNCHANGED <<recvd, p, buf>>
           \/ /\ ~closed
              /\ buf' = [buf EXCEPT ![c] = [s \in RingSlots |->
                            IF s \in b.base .. b.base + n - 1
                            THEN recvd[c] + 1 + s - b.base ELSE @[s]]]
              /\ recvd' = [recvd EXCEPT ![c] = @ + n]
              /\ p' = [p EXCEPT ![c] = @ + n]
              /\ IF n < b.len \/ i = Len(iov)
                 THEN EnterSend(cur, f[c], p[c] + n)
                 ELSE i' = i + 1 /\ UNCHANGED <<loop, cur, iov, to_send, have_send>>
              /\ UNCHANGED <<conns, interest>>

\* Mutant: a short send does not end the loop.
SendNoBreak(c) ==
    LET b == iov[i]
    IN  /\ loop = "send" /\ cur.h = c
        /\ UNCHANGED <<peer, sent, recvd, got, backlog, p, buf, batch>>
        /\ \/ /\ peer[c] = "reset"
              /\ Delete(c)
              /\ UNCHANGED <<f, tx, enable_epollout>>
           \/ /\ peer[c] # "reset"
              /\ \E n \in Accepted(c, b.len) :
                   LET finished == have_send + n = to_send
                   IN  /\ tx' = [tx EXCEPT ![c] =
                                    @ \o [k \in 1 .. n |-> buf[c][b.base + k - 1]]]
                       /\ f' = [f EXCEPT ![c] = @ + n]
                       /\ IF finished \/ n < b.len
                          THEN Rearm(c, finished)
                          ELSE UNCHANGED <<interest, enable_epollout>>
                       /\ IF finished \/ i = Len(iov)
                          THEN Return
                          ELSE /\ i' = i + 1
                               /\ have_send' = have_send + n
                               /\ UNCHANGED <<loop, cur, iov, to_send>>
              /\ UNCHANGED conns

\* Mutant: a block sent whole is taken for everything sent.
SendOneBlock(c) ==
    LET b == iov[i]
    IN  /\ loop = "send" /\ cur.h = c
        /\ UNCHANGED <<peer, sent, recvd, got, backlog, p, buf, batch>>
        /\ \/ /\ peer[c] = "reset"
              /\ Delete(c)
              /\ UNCHANGED <<f, tx, enable_epollout>>
           \/ /\ peer[c] # "reset"
              /\ \E n \in Accepted(c, b.len) :
                   LET finished == n = b.len
                   IN  /\ tx' = [tx EXCEPT ![c] =
                                    @ \o [k \in 1 .. n |-> buf[c][b.base + k - 1]]]
                       /\ f' = [f EXCEPT ![c] = @ + n]
                       /\ IF finished \/ n < b.len
                          THEN Rearm(c, finished)
                          ELSE UNCHANGED <<interest, enable_epollout>>
                       /\ IF finished \/ n < b.len
                          THEN Return
                          ELSE /\ i' = i + 1
                               /\ have_send' = have_send + n
                               /\ UNCHANGED <<loop, cur, iov, to_send>>
              /\ UNCHANGED conns

\* One send of the loop of send_buf_native.
Send(c) ==
    LET b == iov[i]
    IN  /\ loop = "send" /\ cur.h = c
        /\ UNCHANGED <<peer, sent, recvd, got, backlog, p, buf, batch>>
        /\ \/ /\ peer[c] = "reset"
              /\ Delete(c)
              /\ UNCHANGED <<f, tx, enable_epollout>>
           \/ /\ peer[c] # "reset"
              /\ \E n \in Accepted(c, b.len) :
                   LET finished == have_send + n = to_send
                   IN  /\ tx' = [tx EXCEPT ![c] =
                                    @ \o [k \in 1 .. n |-> buf[c][b.base + k - 1]]]
                       /\ f' = [f EXCEPT ![c] = @ + n]
                       /\ IF finished \/ n < b.len
                          THEN Rearm(c, finished)
                          ELSE UNCHANGED <<interest, enable_epollout>>
                       /\ IF finished \/ n < b.len
                          THEN Return
                          ELSE /\ i' = i + 1
                               /\ have_send' = have_send + n
                               /\ UNCHANGED <<loop, cur, iov, to_send>>
              /\ UNCHANGED conns

------------------------------------------------------------------------------
Server ==
    \/ EpollWait \/ Dispatch \/ Accept \/ AcceptFails
    \/ \E c \in Clients : HandleWrite(c) \/ Recv(c) \/ Send(c)

Client(c) ==
    /\ Connect(c) \/ ClientSend(c) \/ ClientRead(c) \/ ClientShutdown(c) \/ ClientReset(c)
    /\ UNCHANGED serverVars

Next == Server \/ \E c \in Clients : Client(c)

Spec == Init /\ [][Next]_vars

\* The server thread runs, and a client that has something to read reads it.
\* Nothing is assumed of what the clients send.
FairSpec ==
    /\ Spec
    /\ WF_vars(Server)
    /\ \A c \in Clients : WF_vars(ClientRead(c) /\ UNCHANGED serverVars)

------------------------------------------------------------------------------
(* Properties.                                                             *)

\* The bytes in the ring of c, oldest first.
Held(c) == [k \in 1 .. p[c] - f[c] |-> buf[c][(f[c] + k - 1) % max_pkt_size]]

\* What a client reads is what it sent, from its first byte on, in order and
\* without a gap: read, under way and held bytes make up everything the
\* server received, wherever the ring wraps and however sends are cut short.
EchoInOrder ==
    \A c \in Clients :
        LET stream == got[c] \o tx[c]
        IN  /\ stream = [n \in 1 .. Len(stream) |-> n]
            /\ c \in conns => stream \o Held(c) = [n \in 1 .. recvd[c] |-> n]

\* Between handlers, EPOLLOUT is registered exactly for the connections that
\* hold bytes: no byte waits for an event that never comes, and no idle
\* connection keeps the loop spinning.
ArmedIffPending ==
    \A c \in conns : cur.h # c =>
        /\ enable_epollout[c] <=> f[c] # p[c]
        /\ interest[c] = IF enable_epollout[c] THEN {"IN", "OUT"} ELSE {"IN"}

\* recv never writes over a byte that is still to be sent, and never asks
\* for zero bytes, which recv_buf_native would take for the end of file.
RecvIntoFree ==
    loop = "recv" =>
        LET c == cur.h
            b == iov[i]
        IN  /\ b.len > 0
            /\ b.base + b.len <= max_pkt_size
            /\ \A k \in f[c] .. p[c] - 1 :
                  k % max_pkt_size \notin b.base .. b.base + b.len - 1

\* The loop holds no pointer to a deleted Connection: not in the rest of the
\* batch, and not in the handler under way.
NoDangling ==
    {e.h : e \in batch \cup {cur}} \subseteq conns \cup {Acceptor}

\* Every byte sent comes back to a client that keeps its side open, as long
\* as the program runs.
EventuallyEchoed ==
    \A c \in Clients :
        []<>(Len(got[c]) = sent[c] \/ peer[c] \in {"eof", "reset"} \/ loop = "aborted")
=============================================================================
