SPECIFICATION FairUniSpec
CONSTANTS
  Sched = {s1, s2}
  Worker = {w1, w2}
  CL = {l1}
  None = None
  l1 = l1
  ListOf <- MCListOf
  ClidList <- MCClidList
  UserList <- MCUserList
  Parked = {w1, w2}
  MAX_WT = 2
  MaxYields = 1
INVARIANTS DispatchedIsAwake DequeuedAreReady ThreadsReadyIsCount LockedIsExecuted ScanIsSafe CurrSchedIsHolder NoOops
PROPERTIES SchedulersReturn WorkersReturn EmptyListNoticed
CHECK_DEADLOCK FALSE
