------------------------------ MODULE UdpEcho ------------------------------
(***************************************************************************)
(* The clients of udp_echo and ipv6_udp_echo with the server of each:      *)
(* client.cpp ("udp"), client_connect.cpp ("udp_connect"), and the IPv6    *)
(* copies ("udp6").  A client sends a datagram, waits for one without a    *)
(* timeout, and does so request_num times, whatever the two calls return.  *)
(* The network may lose or repeat a datagram.  Nobody looks at what is in  *)
(* a datagram; here it is the number of the request.                       *)
(***************************************************************************)
EXTENDS TcpPipe, FiniteSets

CONSTANTS request_num, NULL

VARIABLES
    asker,          \* asker[c]: "send", "recv", "end"
    i,              \* i[c]: the loop's i
    net,            \* datagrams under way: [to, of, n], a request, an answer or an error
    refused,        \* sockets with an error to report
    echoer,         \* the server: "recv", "ended" by itself, "killed"
    client_addr,    \* whose datagram the server has at hand, or NULL
    faulty,         \* clients of whose datagrams one was lost or repeated
    stale           \* clients that took the answer to another request

askVars == <<asker, i>>
vars == <<askVars, net, refused, echoer, client_addr, faulty, stale>>

Init ==
    /\ asker = [c \in Conns |-> "send"]
    /\ i = [c \in Conns |-> 1]
    /\ net = {} /\ refused = {}
    /\ echoer = "recv" /\ client_addr = NULL
    /\ faulty = {} /\ stale = {}

Datagram(to, c, n) == [to |-> to, of |-> c, n |-> n]

\* sendto, or send; an error that is pending on the socket is returned instead.
Send(c) ==
    /\ asker[c] = "send"
    /\ asker' = [asker EXCEPT ![c] = "recv"]
    /\ net' = IF c \in refused THEN net ELSE net \cup {Datagram("server", c, i[c])}
    /\ refused' = refused \ {c}
    /\ UNCHANGED <<i, echoer, client_addr, faulty, stale>>

NextRequest(c) ==
    /\ i' = [i EXCEPT ![c] = @ + 1]
    /\ asker' = [asker EXCEPT ![c] = IF i[c] < request_num THEN "send" ELSE "end"]

\* recvfrom, or recv.
Recv(c) ==
    /\ asker[c] = "recv"
    /\ \/ \E d \in net :
            /\ d.to = "client" /\ d.of = c
            /\ net' = net \ {d}
            /\ stale' = IF d.n = i[c] THEN stale ELSE stale \cup {c}
            /\ UNCHANGED refused
       \/ /\ c \in refused
          /\ refused' = refused \ {c}
          /\ UNCHANGED <<net, stale>>
    /\ NextRequest(c)
    /\ UNCHANGED <<echoer, client_addr, faulty>>

\* Mutant: an answer goes to the client of the datagram before.
EchoPrevious ==
    /\ echoer = "recv" /\ size > 0
    /\ \E d \in net :
        /\ d.to = "server"
        /\ net' = (net \ {d}) \cup {Datagram("client", IF client_addr = NULL THEN d.of ELSE client_addr, d.n)}
        /\ client_addr' = d.of
    /\ UNCHANGED <<askVars, refused, echoer, faulty, stale>>

\* udp_echo(): recvfrom, and sendto to whom it came from.
EchoAnswer ==
    /\ echoer = "recv" /\ size > 0
    /\ \E d \in net :
        /\ d.to = "server"
        /\ net' = (net \ {d}) \cup {Datagram("client", d.of, d.n)}
        /\ client_addr' = d.of
    /\ UNCHANGED <<askVars, refused, echoer, faulty, stale>>

\* An empty datagram, for which recvfrom returns 0, ends the server.
EchoEnds ==
    /\ echoer = "recv" /\ size = 0
    /\ \E d \in net :
        /\ d.to = "server"
        /\ net' = net \ {d}
        /\ client_addr' = d.of
    /\ echoer' = "ended"
    /\ UNCHANGED <<askVars, refused, faulty, stale>>

Echo == EchoAnswer \/ EchoEnds

Kill ==
    /\ echoer = "recv"
    /\ echoer' = "killed"
    /\ UNCHANGED <<askVars, net, refused, client_addr, faulty, stale>>

\* A datagram for a port that nobody has open is answered with an error,
\* which the kernel keeps for a socket that is connected.
Refuse ==
    /\ echoer # "recv"
    /\ \E d \in net :
        /\ d.to = "server"
        /\ net' = net \ {d}
        /\ refused' = IF program.name = "udp_connect" /\ asker[d.of] # "end"
                      THEN refused \cup {d.of} ELSE refused
    /\ UNCHANGED <<askVars, echoer, client_addr, faulty, stale>>

\* By the network, or in the hands of a server that is killed.
Lose ==
    /\ \E d \in net : net' = net \ {d} /\ faulty' = faulty \cup {d.of}
    /\ UNCHANGED <<askVars, refused, echoer, client_addr, stale>>

\* A repeated datagram: the server answers the one and finds the other again.
Repeat ==
    /\ echoer = "recv"
    /\ \E d \in net :
        /\ d.to = "server" /\ size > 0
        /\ net' = net \cup {Datagram("client", d.of, d.n)}
        /\ client_addr' = d.of
        /\ faulty' = faulty \cup {d.of}
    /\ UNCHANGED <<askVars, refused, echoer, stale>>

Asker(c) == Send(c) \/ Recv(c)
Next == (\E c \in Used : Asker(c)) \/ Echo \/ Kill \/ Refuse \/ Lose \/ Repeat

------------------------------------------------------------------------------
(* Properties.                                                             *)

\* A client of whose datagrams none is lost or repeated gets the answer to
\* each of its requests before it sends the next, whatever happens to those of
\* the others; and it ends, also when the server is killed if its socket is
\* connected.  Only an empty datagram, which gets no answer, ends the server.
EachAnswered ==
    /\ <>(\A c \in Used \ faulty :
            \/ asker[c] = "end"
            \/ echoer # "recv" /\ (program.name # "udp_connect" \/ size = 0))
    /\ [](stale \subseteq faulty /\ (size > 0 => echoer # "ended"))
=============================================================================
