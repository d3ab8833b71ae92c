SPECIFICATION FairSpecOnce
CONSTANTS
    c1 = c1
    c2 = c2
    Clients = {c1, c2}
    Bytes <- MCBytes
    RxCap = 1
    TxCap <- MCTxCap
    reponse_size = 3
    Programs = {"epollout", "simple", "et"}
    Acceptor = Acceptor
    AcceptFailures = 1
INVARIANTS
    ResponseExact
PROPERTIES
    ResponseDelivered
    ClosesAfterResponse
\* Clients may stop for good.
CHECK_DEADLOCK FALSE
