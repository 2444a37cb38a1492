\* Three threads, with and without store buffers.
CONSTANTS
    Threads = {t1, t2, t3}
    NoThread = NoThread
    SpinMax = 1
    MaxDepth = 2
SPECIFICATION FairSpec
INVARIANTS
    TypeOK
    Exclusive
    SemaphoreExact
    OrderedNoLostWakeup
PROPERTIES
    ImplementsLock
    SleeperWoken
