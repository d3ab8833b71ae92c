---------------------------- MODULE EchoClients ----------------------------
(***************************************************************************)
(* The echo clients of network/, each with the server it is run against:   *)
(* EchoBench and BlockingEcho over the connections of TcpPipe, and UdpEcho.*)
(***************************************************************************)
EXTENDS EchoBench

CONSTANT request_num

\* The v6 client stores to send_buf[i] in its i-th request.
ASSUME ClientsAssumption ==
    /\ request_num \in Nat \ {0}
    /\ \A g \in Programs : g.name = "v6" => request_num <= g.size

VARIABLES
    requester, remaining, send_len, answered,
    acceptor, arriving, sock_fds, sock_num, worker, fd, buf, killed,
    asker, i, net, refused, echoer, client_addr, faulty, stale

Blocking == INSTANCE BlockingEcho WITH NULL <- NoConn
Udp == INSTANCE UdpEcho WITH NULL <- NoConn

blockingVars == <<requester, remaining, send_len, answered,
                  acceptor, arriving, sock_fds, sock_num, worker, fd, buf, killed>>
udpVars == <<asker, i, net, refused, echoer, client_addr, faulty, stale>>
clientsVars == <<pipeVars, benchVars, blockingVars, udpVars>>

Datagrams == program.name \in {"udp", "udp_connect", "udp6"}

InitClients == InitBench /\ Blocking!Init /\ Udp!Init

OfBench(A) == Epoll /\ A /\ UNCHANGED <<blockingVars, udpVars>>
OfBlocking(A) == ~Epoll /\ ~Datagrams /\ A /\ UNCHANGED <<benchVars, udpVars>>
OfUdp(A) == Datagrams /\ A /\ UNCHANGED <<pipeVars, benchVars, blockingVars>>

NextClients == OfBench(NextBench) \/ OfBlocking(Blocking!Next) \/ OfUdp(Udp!Next)

SpecClients == InitClients /\ [][NextClients]_clientsVars

\* Every thread runs, and a datagram arrives unless it is lost.  No process
\* need be killed.  The program never changes, so that one condition serves a
\* thread of each program.
FairSpecClients ==
    /\ SpecClients
    /\ WF_clientsVars(OfBench(Main) \/ OfBlocking(Blocking!Acceptor) \/ OfUdp(Udp!Echo))
    /\ WF_clientsVars(OfBench(Thread) \/ OfUdp(Udp!Refuse))
    /\ WF_clientsVars(OfBench(Acceptor))
    /\ \A l \in Loops : WF_clientsVars(OfBench(l \in program.loops /\ EventLoop(l)))
    /\ \A c \in Conns : WF_clientsVars(OfBlocking(c \in Used /\ Blocking!Requester(c)) \/ OfUdp(c \in Used /\ Udp!Asker(c)))
    /\ \A n \in Blocking!Slots : WF_clientsVars(OfBlocking(Blocking!Worker(n)))

------------------------------------------------------------------------------
(* Properties: those of EchoBench, and these of the other two modules.      *)

\* Blocking clients: every request is answered, as long as requests fit into
\* the connection; nobody waits for ever.
AllAnswered == ~Epoll /\ ~Datagrams => Blocking!AllAnswered

\* Datagrams: a client that no fault of the network hits gets all its answers.
EachAnswered == Datagrams => Udp!EachAnswered
=============================================================================
