SPECIFICATION FairSpec
CONSTANTS
    Producers = {p1, p2}
    Consumers = {c1, c2}
    item_num = 2
    NULL = NULL
    SpuriousWakeups = 2
INVARIANTS
    PopNonEmpty
PROPERTIES
    Termination
    ImplementsChannel
\* The program ends.
CHECK_DEADLOCK FALSE
