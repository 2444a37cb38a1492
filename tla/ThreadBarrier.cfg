\* Three threads.
CONSTANTS
    Threads = {t1, t2, t3}
    NoThread = NoThread
SPECIFICATION Spec
INVARIANTS
    RoundsExact
    NoStaleEvent
PROPERTIES
    ImplementsBarrier
