--------------------------- MODULE MCUmsUniprocessor ---------------------------
(* Instances of UmsUniprocessor whose schedulers and workers share one list.   *)
EXTENDS UmsUniprocessor

CONSTANTS l1

MCListOf == [s \in Sched |-> l1]
MCClidList == [w \in Worker |-> <<l1>>]
MCUserList == [c \in CL |-> Worker]
================================================================================
