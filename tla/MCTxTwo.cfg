SPECIFICATION Spec
CONSTANTS
  Ctx = {c1, c2}
  BiDir = {c2}
  None = None
  Rank = {1}
  MixedRanks = FALSE
  ObjLen = 1
  RunnerLimit = 2
  UseResetWait = FALSE
  MaxObj = 2
  MaxStream = 3
INVARIANTS MarkFlagHonest LinkedAlive
CHECK_DEADLOCK FALSE
