SPECIFICATION FairLifeSpec
CONSTANTS
  CpuSet = {0}
  Sched = {0}
  Worker = {w1, w2, w3}
  CL = {l1}
  None = None
  l1 = l1
  list <- OneList
  ListOf <- MCListOf
  ClidList <- MCClidList
  UserList <- MCUserList
  Parked = {w1, w2, w3}
  MAX_WT = 3
  MaxYields = 1
INVARIANTS NoFreedUse
PROPERTIES MainEnds
CHECK_DEADLOCK FALSE
