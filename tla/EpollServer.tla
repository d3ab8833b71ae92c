---------------------------- MODULE EpollServer ----------------------------
(***************************************************************************)
(* What the servers of network/tcp_echo that send responses have in common *)
(* (ResponseServer and OneShotServer): a loop over the events that one     *)
(* call of epoll_wait has returned, and connections that ask for EPOLLOUT  *)
(* while a response does not fit into the socket.                          *)
(***************************************************************************)
EXTENDS TcpPeers

CONSTANT Acceptor       \* the listening socket, and the handler of it

ASSUME AcceptorAssumption == Acceptor \notin Clients

VARIABLES
    conns,              \* the clients with a live Connection object
    enable_epollout,
    loop,               \* what the loop does next
    batch,              \* events of this epoll_wait that are still to be handled
    cur                 \* the handler under way and the events left to it

Idle == [h |-> Acceptor, ev |-> {}]

\* The handler returned: the next event of the batch, or epoll_wait again.
Return ==
    /\ loop' = IF batch' = {} THEN "wait" ELSE "dispatch"
    /\ cur' = Idle

set_epollout(c, flag) ==
    /\ interest' = [interest EXCEPT ![c] = IF flag THEN {"IN", "OUT"} ELSE {"IN"}]
    /\ enable_epollout' = [enable_epollout EXCEPT ![c] = flag]
=============================================================================
