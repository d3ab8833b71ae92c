SPECIFICATION FairSpecClients
CONSTANTS
    c1 = c1
    c2 = c2
    l1 = l1
    l2 = l2
    Programs <- Checked
    Conns = {c1, c2}
    Cap = 2
    duration = 1
    SeqRange = 4
    Loops = {l1, l2}
    request_num = 2
    AcceptFailures = 1
    NoConn = NoConn
INVARIANTS
    InStep
    HandedOver
PROPERTIES
    ClientEnds
    AllAnswered
    EachAnswered
\* The programs end; and a request that does not fit stops them.
CHECK_DEADLOCK FALSE
