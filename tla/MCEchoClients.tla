--------------------------- MODULE MCEchoClients ---------------------------
EXTENDS EchoClients

CONSTANTS c1, c2, l1, l2

Args(names, used, sizes, loops, failures) ==
    [name : names, used : {used}, size : sizes, loops : {loops}, failures : {failures}]

\* Packets that can be cut on one connection, also when the numbers start over
\* within a packet; two connections and two loops with packets that cannot be;
\* requests up to the most that fits; datagrams, also empty.
Checked ==
    Args({"verify", "bench"}, {c1}, {2}, {l1}, 1)
        \cup Args({"verify"}, {c1}, {3}, {l1}, 0)
        \cup Args({"verify"}, {c1, c2}, {1}, {l1, l2}, 0)
        \cup Args({"v4"}, {c1, c2}, {1}, {}, 1)
        \cup Args({"v4", "v6"}, {c1}, {2, 5}, {}, 1)
        \cup Args({"udp"}, {c1, c2}, {0, 1}, {}, 0)
        \cup Args({"udp_connect", "udp6"}, {c1}, {0, 1}, {}, 0)
=============================================================================
