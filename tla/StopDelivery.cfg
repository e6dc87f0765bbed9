CONSTANTS
    Conns = {c1, c2}
    Main = main
    NoConn = none
    Replies = {1}
    SendCap = 1
    MaxClients = 2
    MayStop = TRUE
SPECIFICATION FairSpec
INVARIANTS
    StopMissesAtMostOne
PROPERTIES
    StopReleases
\* The connection that Stop missed may be a dead end.
CHECK_DEADLOCK FALSE
