\* No throttling: a subscribe handler sends the job it read before the main loop
\* broadcast the work of a new parent.
CONSTANTS
    Miners = {m1, m2}
    Main = main
    NoWork = nil
    Times = {0}
    Revs = {0}
    Configured = {1}
    MaxJobs = 2
    MaxEvents = 2
    MaxFinds = 2
SYMMETRY MinerSymmetry
SPECIFICATION Spec
PROPERTIES
    NotifiedParentsAdvance
