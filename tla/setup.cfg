SPECIFICATION FairSpec
CONSTANTS
  Creator = {c1}
  Worker = {w1, w2, w3}
  CL = {l1, l2}
  None = None
  c1 = c1
  w1 = w1
  w2 = w2
  w3 = w3
  l1 = l1
  l2 = l2
  ListsOf <- OneListsOf
  WorkersOf <- OneWorkersOf
  MAX_WT = 2
INVARIANTS FrameOutlivesUse AddsCreatedWorker UniqueIds SetupComplete ArraysKeepUp
PROPERTIES WokenReturns
CHECK_DEADLOCK FALSE
