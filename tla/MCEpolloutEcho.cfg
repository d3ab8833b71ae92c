SPECIFICATION FairSpec
CONSTANTS
    c1 = c1
    c2 = c2
    Clients = {c1, c2}
    Acceptor = Acceptor
    Bytes <- MCBytes
    RxCap = 3
    TxCap <- MCTxCap
    max_pkt_size = 4
    max_events = 3
INVARIANTS
    EchoInOrder
    ArmedIffPending
    RecvIntoFree
    NoDangling
PROPERTIES
    EventuallyEchoed
\* Clients may stop sending, and the program may abort.
CHECK_DEADLOCK FALSE
