------------------------------ MODULE TcpPeers ------------------------------
(***************************************************************************)
(* The far side of the servers in network/tcp_echo: clients, and the       *)
(* kernel's sockets and epoll instance, as far as the servers can tell.    *)
(* Byte n of a client's stream is the number n.  Sockets do not block; the *)
(* epoll instance is level-triggered.                                      *)
(***************************************************************************)
EXTENDS Integers, Sequences, FiniteSets

CONSTANTS
    Clients,
    Bytes,      \* Bytes[c]: how many bytes client c may send
    RxCap,      \* what the receive buffer of a server socket holds
    TxCap       \* TxCap[c]: what its send buffer holds

ASSUME PeersAssumption ==
    /\ IsFiniteSet(Clients)
    /\ Bytes \in [Clients -> Nat]
    /\ RxCap \in Nat \ {0}
    /\ TxCap \in [Clients -> Nat \ {0}]

VARIABLES
    peer,       \* peer[c]: "idle", "open", "eof" (it sent FIN), "reset" (it sent RST)
    sent,       \* sent[c]: bytes c has sent
    recvd,      \* recvd[c]: bytes the server has received from c
    tx,         \* tx[c]: bytes the server has sent and c has not read
    got,        \* got[c]: bytes c has read
    backlog,    \* clients whose connection waits to be accepted
    interest    \* interest[c]: the events registered for the socket of c

peerVars == <<peer, sent, recvd, tx, got, backlog, interest>>

PeersInit ==
    /\ peer = [c \in Clients |-> "idle"]
    /\ sent = [c \in Clients |-> 0]
    /\ recvd = [c \in Clients |-> 0]
    /\ tx = [c \in Clients |-> <<>>]
    /\ got = [c \in Clients |-> <<>>]
    /\ backlog = {}
    /\ interest = [c \in Clients |-> {}]

------------------------------------------------------------------------------
Connect(c) ==
    /\ peer[c] = "idle"
    /\ peer' = [peer EXCEPT ![c] = "open"]
    /\ backlog' = backlog \cup {c}
    /\ UNCHANGED <<sent, recvd, tx, got, interest>>

ClientSend(c) ==
    /\ peer[c] = "open"
    /\ sent[c] < Bytes[c]
    /\ sent[c] - recvd[c] < RxCap
    /\ sent' = [sent EXCEPT ![c] = @ + 1]
    /\ UNCHANGED <<peer, recvd, tx, got, backlog, interest>>

ClientRead(c) ==
    /\ peer[c] \in {"open", "eof"}
    /\ tx[c] # <<>>
    /\ got' = [got EXCEPT ![c] = Append(@, Head(tx[c]))]
    /\ tx' = [tx EXCEPT ![c] = Tail(@)]
    /\ UNCHANGED <<peer, sent, recvd, backlog, interest>>

\* shutdown(SHUT_WR): the server reads what was sent, then end of file.
ClientShutdown(c) ==
    /\ peer[c] = "open"
    /\ peer' = [peer EXCEPT ![c] = "eof"]
    /\ UNCHANGED <<sent, recvd, tx, got, backlog, interest>>

ClientReset(c) ==
    /\ peer[c] \in {"open", "eof"}
    /\ peer' = [peer EXCEPT ![c] = "reset"]
    /\ UNCHANGED <<sent, recvd, tx, got, backlog, interest>>

------------------------------------------------------------------------------
(* What the server sees of the socket of c.                                *)

Unread(c) == sent[c] - recvd[c]
Room(c) == TxCap[c] - Len(tx[c])

\* What epoll_wait reports of the socket: an error or a hang-up always.
Events(c) ==
    IF interest[c] = {} THEN {}
    ELSE {e \in interest[c] : \/ e = "IN" /\ (Unread(c) > 0 \/ peer[c] # "open")
                              \/ e = "OUT" /\ (Room(c) > 0 \/ peer[c] = "reset")}
            \cup (IF peer[c] = "reset" THEN {"ERR"} ELSE {})
=============================================================================
