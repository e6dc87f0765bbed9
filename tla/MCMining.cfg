\* A registry of three jobs and seven identifiers: it fills and slides, and
\* malformed data leaves holes in the identifiers.  The throttle has three full
\* rounds of its largest divisor, 0 (disabled) included.
CONSTANTS
    t1 = t1
    t2 = t2
    malformed = malformed
    nil = nil
    NoWork = nil
    Data <- MCData
    ValidData <- MCValidData
    MaxJobs = 3
    MaxSeq = 7
    MaxFound = 20
SPECIFICATION MCSpec
INVARIANTS
    TypeOK
    RegistryInv
    Quota
PROPERTIES
    JobNamesOneTemplate
    EvictsOnlyOldest
    ImplementsRecentJobs
\* Both are passive: they stop when no templates and no blocks come any more.
CHECK_DEADLOCK FALSE
