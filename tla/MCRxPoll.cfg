SPECIFICATION Spec
CONSTANTS
    Sub = {}
    Fetch = {f1}
    Ctrl = {c1}
    Dgram = {}
    None = None
    QueueLimit = 2
    NotifyLimit = 2
    NotifyBelow = 2
    LoopMax = 4
    MayClose = TRUE
    MaxBuf = 3
INVARIANTS ClosedAfterData
PROPERTIES Delivers
