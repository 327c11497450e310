SPECIFICATION Spec
CONSTANTS
    Tracks = {t1}
    Subs = {s1, s2}
    Pubs = {p1, p2}
    Wide = {p2}
    None = None
    Null = Null
    OneSub = TRUE
    Mixed = FALSE
    MaxReq = 2
    MaxUp = 2
    MaxLost = 2
INVARIANTS NoNull SubscribersCurrent UpstreamFollows NoOrphan StatusFound SubscriberServed
CHECK_DEADLOCK FALSE
SYMMETRY Sym
