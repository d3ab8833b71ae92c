SPECIFICATION FairSpec0
CONSTANTS
    producer_num = 3
    consumer_num = 3
    QUEUE_LEN = 2
    TOTAL_LEN = 2
INVARIANTS
    TakesInOrder
    AllTaken
PROPERTIES
    ProgramEnds
\* The program ends.
CHECK_DEADLOCK FALSE
