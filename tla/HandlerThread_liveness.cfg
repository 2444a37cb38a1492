\* Every kind of handler thread; a message may be deferred.
CONSTANTS
    m1 = m1  m2 = m2  b = b  x = x  h1 = h1  h2 = h2
    Clients = {c1, c2}
    Waiters = {c1}
    Messages <- Plain
    Parts <- NoBatch
    Deferrable = {m1}
    Handlers <- MCHandlers
    Accepts <- MCAccepts
    EarlyHandlers <- TwoHandlers
    LateHandlers = {}
    Removable = {}
    Modes = {"blocking", "timeout", "runthrough"}
    MaxOpens = 1
SPECIFICATION FairSpec
\* The port may stay closed, and a message may stay unhandled.
CHECK_DEADLOCK FALSE
INVARIANTS
    HandlersPaired
PROPERTIES
    MessagesDelivered
    DeferredCompleted
    WaitReturns
    CloseReturns
