CONSTANTS
    Conns = {c1, c2}
    Main = main
    NoConn = none
    Replies = {1}
    SendCap = 1
    MaxClients = 2
    MayStop = FALSE
SPECIFICATION FairSpec
INVARIANTS
    TypeOK
    RegisteredHasReader
PROPERTIES
    OnlyDeadEndsBlockBroadcasts
    OnlyDeadEndsBlockHandlers
\* Every goroutine may be left waiting for a connection nobody serves.
CHECK_DEADLOCK FALSE
