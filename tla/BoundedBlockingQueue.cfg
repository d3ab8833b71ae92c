SPECIFICATION FairSpec
CONSTANTS
    producer_num = 2
    consumer_num = 2
    queue_size = 2
    item_num = 2
    ForkFailures = 2
INVARIANTS
    SlotSafety
    DestroyedUnused
    NothingLeftBehind
PROPERTIES
    Termination
    ImplementsChannel
\* The program ends, and after unbalanced forks it may stop earlier.
CHECK_DEADLOCK FALSE
