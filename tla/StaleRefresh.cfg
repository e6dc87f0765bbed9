\* A submit handler refreshes the work it read before the node announced a new
\* parent: the current job goes back to the old parent.
CONSTANTS
    Miners = {m1, m2}
    Main = main
    NoWork = nil
    Times = {0}
    Revs = {0}
    Configured = {2}
    MaxJobs = 2
    MaxEvents = 2
    MaxFinds = 2
SYMMETRY MinerSymmetry
SPECIFICATION Spec
PROPERTIES
    ParentNeverRegresses
