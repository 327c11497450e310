SPECIFICATION FairSpec
CONSTANTS
    Sub = {s1}
    Fetch = {}
    Ctrl = {}
    Dgram = {d1}
    None = None
    QueueLimit = 2
    NotifyLimit = 3
    NotifyBelow = 2
    LoopMax = 4
    MayClose = TRUE
    MaxBuf = 2
INVARIANTS UniNotified
PROPERTIES NothingAfterClosed Handed Reclaimed
