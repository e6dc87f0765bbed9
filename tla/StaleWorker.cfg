CONSTANTS
    Workers = {w1, w2}
    Nobody = nobody
    UpCap = 1
    DownCap = 1
    MaxJobs = 2
    MaxSessions = 2
    MaxShares = 2
SPECIFICATION Spec
INVARIANT NewWorkSupersedes
