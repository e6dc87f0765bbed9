CONSTANTS
    Conns = {c1, c2}
    Main = main
    NoConn = none
    Replies = {1}
    SendCap = 1
    MaxClients = 2
    MayStop = FALSE
SPECIFICATION FairSpec
PROPERTIES
    EveryBroadcastEnds
CHECK_DEADLOCK FALSE
