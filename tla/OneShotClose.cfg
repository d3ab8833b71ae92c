SPECIFICATION FairSpecOnce
CONSTANTS
    c1 = c1
    c2 = c2
    Clients = {c1}
    Bytes <- MCBytes
    RxCap = 1
    TxCap <- MCTxCap
    reponse_size = 3
    Programs = {"epollout"}
    Acceptor = Acceptor
    AcceptFailures = 1
PROPERTIES
    ThenClose
\* Clients may stop for good.
CHECK_DEADLOCK FALSE
