----------------------------- MODULE MCUmsDispatch -----------------------------
(* Instances of UmsDispatch whose schedulers and workers share one list.       *)
EXTENDS UmsDispatch, TLC

CONSTANTS l1

MCListOf == [s \in Sched |-> l1]
MCClidList == [w \in Worker |-> <<l1>>]
MCUserList == [c \in CL |-> Worker]
MCSymmetry == Permutations(Sched) \cup Permutations(Worker)
================================================================================
