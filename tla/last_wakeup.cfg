SPECIFICATION FairSpec
CONSTANTS
  Sched = {s1, s2}
  Worker = {w1}
  CL = {l1}
  None = None
  l1 = l1
  ListOf <- MCListOf
  ClidList <- MCClidList
  UserList <- MCUserList
  Parked = {w1}
  MAX_WT = 2
  MaxYields = 0
PROPERTIES EmptyListNoticed
CHECK_DEADLOCK FALSE
