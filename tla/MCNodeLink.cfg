\* A channel of two events and five templates: more can be announced before the
\* event loop starts than the channel and the reader hold.
CONSTANTS
    Setup = setup
    Handlers = {h1, h2}
    QueueCap = 2
    MaxTemplates = 5
SPECIFICATION FairSpec
INVARIANTS
    TypeOK
    WaitIsQuiet
    OnlyInitialWorkIsLate
PROPERTIES
    ConnectEndsOrJams
    SubmissionsReturn
