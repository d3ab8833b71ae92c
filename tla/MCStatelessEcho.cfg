SPECIFICATION FairSpec
CONSTANTS
    c1 = c1
    c2 = c2
    c3 = c3
    c4 = c4
    Clients = {c1, c2, c3, c4}
    Listener = Listener
    NULL = NULL
    Programs = {"epoll", "handle", "poll"}
    Callers <- MCCallers
    Bytes <- MCBytes
    RxCap = 3
    TxCap <- MCTxCap
    buf_size = 2
    fd_range = 3
    max_fds = 3
INVARIANTS
    EchoUntilShort
    PollTable
PROPERTIES
    EndCloses
\* Clients may stop for good.
CHECK_DEADLOCK FALSE
