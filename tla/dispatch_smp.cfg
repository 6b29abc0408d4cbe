SPECIFICATION Spec
CONSTANTS
  Sched = {s1, s2}
  Worker = {w1, w2}
  CL = {l1}
  None = None
  l1 = l1
  ListOf <- MCListOf
  ClidList <- MCClidList
  UserList <- MCUserList
  Parked = {}
  MAX_WT = 2
  MaxYields = 1
SYMMETRY MCSymmetry
INVARIANTS RunsOnlyWhenDispatched LeavesAfterAllDone ReadyAccounting
PROPERTIES ReleasedAfterRun ImplementsScheduling
CHECK_DEADLOCK FALSE
