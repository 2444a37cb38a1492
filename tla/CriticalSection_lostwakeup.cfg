\* Two threads; the store that frees the lock may stay in a store buffer.
CONSTANTS
    Threads = {t1, t2}
    NoThread = NoThread
    SpinMax = 0
    MaxDepth = 1
SPECIFICATION Spec
INVARIANTS
    NoLostWakeup
CHECK_DEADLOCK FALSE
