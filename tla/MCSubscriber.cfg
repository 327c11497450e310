SPECIFICATION Spec
CONSTANTS
    Subs = {s1, s2}
    Joining = {s1}
    Absolute = {s2}
    Fetches = {f1}
    None = None
    Overlap = FALSE
    Again = FALSE
    MayClose = TRUE
    MaxReq = 4
    MaxTo = 2
INVARIANTS MapsAgree OkIsServed NoOrphan
CHECK_DEADLOCK FALSE
