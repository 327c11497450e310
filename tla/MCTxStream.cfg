SPECIFICATION FairSpec
CONSTANTS
  Ctx = {c1}
  BiDir = {}
  None = None
  Rank = {1, 2}
  MixedRanks = FALSE
  ObjLen = 2
  RunnerLimit = 4
  UseResetWait = TRUE
  MaxObj = 2
  MaxStream = 3
INVARIANTS WakeupPending OnOneStream ContextAlive
PROPERTY Drains
CHECK_DEADLOCK FALSE
