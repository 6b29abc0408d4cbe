------------------------------ MODULE MCUmsProc ------------------------------
(* Instances of UmsProc.  The pids of the processes hash to different buckets,  *)
(* or to one.                                                                   *)
EXTENDS UmsProc

CONSTANTS p1, p2, s1, s2, s3, w1, w2

\* p1 has the schedulers s1 and s2 and all workers, p2 only s3
MCLeaderOf == [t \in Sched \cup Worker |-> IF t = s3 THEN p2 ELSE p1]
MCPidHash == [p \in Proc |-> IF p = p1 THEN 0 ELSE 1]
MCSamePidHash == [p \in Proc |-> 0]

===============================================================================
