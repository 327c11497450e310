SPECIFICATION Spec
CONSTANTS
    Tracks = {a1, a2, p1}
    Announce = {a1, a2}
    None = None
    MayClose = TRUE
    MaxReq = 2
    MaxPeer = 1
    MaxTo = 2
INVARIANTS StatusAgrees EndIsTold ContextHeld NamespaceFound 
CHECK_DEADLOCK FALSE
