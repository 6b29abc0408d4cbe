SPECIFICATION FairSpec
CONSTANTS
  Creator = {c1, c2}
  Worker = {w1, w2}
  CL = {l1, l2}
  None = None
  c1 = c1
  w1 = w1
  w2 = w2
  w3 = w3
  l1 = l1
  l2 = l2
  ListsOf <- TwoListsOf
  WorkersOf <- TwoWorkersOf
  MAX_WT = 2
INVARIANTS UniqueIds
CHECK_DEADLOCK FALSE
