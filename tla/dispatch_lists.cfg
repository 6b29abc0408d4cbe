SPECIFICATION Spec
CONSTANTS
  Sched = {s1, s2}
  Worker = {w1, w2}
  CL = {l1, l2}
  None = None
  s1 = s1
  s2 = s2
  w1 = w1
  w2 = w2
  l2 = l2
  l1 = l1
  ListOf <- MCListOf
  ClidList <- MCClidList
  UserList <- MCUserList
  Parked = {w1, w2}
  MAX_WT = 1
  MaxYields = 1
INVARIANTS TypeOK LeavesAfterAllDone ReadyAccounting
CHECK_DEADLOCK FALSE
