SPECIFICATION FairSpec
CONSTANTS
    Programs = {"timer", "tasklet", "work0", "work1", "sched", "tracepoint", "kprobe", "irq", "irq_test", "normal", "seq", "entry0"}
    Cpus = {k1, k2}
    LastExpiry = 10
    ENTRY_LEN = 3
    NONE = NONE
INVARIANTS
    NothingLeft
    CountersThere
    ReadsText
PROPERTIES
    TimerStops
\* Nothing happens any more when the module is gone.
CHECK_DEADLOCK FALSE
