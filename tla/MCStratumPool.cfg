\* Two miners, two node events, two solved blocks of which the second is
\* discarded, a registry of two jobs (it evicts: three can be issued).
CONSTANTS
    Miners = {m1, m2}
    Main = main
    NoWork = nil
    Times = {0}
    Revs = {0, 1}
    Configured = {2}
    MaxJobs = 2
    MaxEvents = 2
    MaxFinds = 2
SYMMETRY MinerSymmetry
SPECIFICATION Spec
INVARIANTS
    TypeOK
    ToldJobsResolve
    NoMissedWork
    OneResponse
    BlocksAccounted
    CurrentFollowsNode
PROPERTIES
    FreshWorkAfterThrottle
    
    NewParentIsClean
