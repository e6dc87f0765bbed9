\* One hash thread: threads meet at connMu, which the read loop takes as well.
CONSTANTS
    Workers = {w1}
    Nobody = nobody
    UpCap = 1
    DownCap = 1
    MaxJobs = 2
    MaxSessions = 2
    MaxShares = 2
SPECIFICATION FairSpec
INVARIANTS
    TypeOK
    SettledJob
    MinesForThisConnection
    SharesAccounted
    OnlyRacersAreStale
PROPERTIES
    NewWorkIsNoticed
    Unwinds
