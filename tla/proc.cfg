SPECIFICATION Spec
CONSTANTS
  Proc = {p1}
  Sched = {s1, s2}
  Worker = {w1, w2}
  Reader = {r1}
  Root = Root
  None = None
  p1 = p1
  p2 = p2
  s1 = s1
  s2 = s2
  s3 = s3
  w1 = w1
  w2 = w2
  LeaderOf <- MCLeaderOf
  PidHash <- MCPidHash
  NBuckets = 2
INVARIANTS OwnDirectory OwnFile FindsItsEntry WorkersListed
CHECK_DEADLOCK FALSE
