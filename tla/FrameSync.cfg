\* One message; lock-step mode is entered up to twice.
CONSTANTS
    Master = render
    Slave = main
    NoThread = NoThread
    Messages = {m1}
    Frames = 4
    MaxEnters = 2
SPECIFICATION FairSpec
INVARIANTS
    TypeOK
    NoMessageLost
    LockStep
    DisjointBuffers
PROPERTIES
    SyncPointReturns
    MessagesHandled
