CONSTANTS
    CpuMiners = {c}
    GpuMiners = {g}
    Threads = 2
    Nonces = 4
    ExtraNonce1s = 2
    ExtraNonce2s = 2
    Batch = 2
    Base = 3
    Width = 2
    PowLimit = 7
    Difficulties = {2}
    BlockTargets = {0, 2, 7}
    MaxConnections = 2
SPECIFICATION Spec
INVARIANTS
    TypeOK
    NoDoubleWork
    VerdictsAgree
