SPECIFICATION FairSpec
CONSTANTS
    c1 = c1
    c2 = c2
    Clients = {c1, c2}
    Acceptor = Acceptor
    Bytes <- MCBytes
    RxCap = 3
    TxCap <- MCTxCap
    max_pkt_size = 4
    max_events = 2
    response_size = 3
    request_size = 2
INVARIANTS
    OneResponsePerRequest
    ArmedIffOwed
PROPERTIES
    EventuallyAnswered
\* Clients may stop sending, and the program may abort.
CHECK_DEADLOCK FALSE
