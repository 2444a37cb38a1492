\* Two clients, a batch, a late and a removed handler.
CONSTANTS
    m1 = m1  m2 = m2  b = b  x = x  h1 = h1  h2 = h2
    Clients = {c1, c2}
    Waiters = {c1}
    Messages <- WithBatch
    Parts <- OneBatch
    Deferrable = {x}
    Handlers <- MCHandlers
    Accepts <- MCAccepts
    EarlyHandlers <- OneHandler
    LateHandlers = {h2}
    Removable = {h2}
    Modes = {"blocking", "timeout", "runthrough"}
    MaxOpens = 1
SPECIFICATION Spec
\* The port may stay closed, and a message may stay unhandled.
CHECK_DEADLOCK FALSE
INVARIANTS
    TypeOK
    NoLostMessage
    NoMissedStop
    WaiterSignalled
PROPERTIES
    ImplementsPort
