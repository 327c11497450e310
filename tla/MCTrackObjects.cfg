SPECIFICATION Spec
CONSTANTS
    Group = {1, 2}
    SubGroup = {0, 1}
    ObjId = {0, 1, 3}
    None = None
    MayUpdate = TRUE
    MayDrop = TRUE
    MaxPerBuf = 2
    MaxPub = 4
    MaxStream = 3
INVARIANTS IdsAgree 
CHECK_DEADLOCK FALSE
