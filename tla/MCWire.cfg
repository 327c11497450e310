SPECIFICATION Spec
CHECK_DEADLOCK FALSE
CONSTANTS
    nullopt = nullopt
    Kinds = {"subgroup", "fetch", "joining", "datagram", "status", "control"}
    HeaderTypes = {16, 17, 19, 21, 29}
    Val = {1, 64, 16384}
    Exts <- MCExts
    Imms <- MCImms
    MaxObjs = 2
INVARIANTS DecodedIsSent OneForEach
