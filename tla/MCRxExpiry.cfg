SPECIFICATION Spec
CONSTANTS
    Sub = {s1}
    Fetch = {}
    Ctrl = {}
    Dgram = {}
    None = None
    QueueLimit = 2
    NotifyLimit = 4
    NotifyBelow = 2
    LoopMax = 4
    MayClose = FALSE
    MaxBuf = 2
INVARIANT UnknownExpires
