CONSTANTS
    None = none
    MaxSessions = 3
    MaxJobs = 2
    MaxRequests = 3
SPECIFICATION FairSpec
INVARIANTS
    TypeOK
    Paired
PROPERTIES
    
    StopEndsOrBlocks
