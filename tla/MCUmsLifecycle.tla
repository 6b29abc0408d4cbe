---------------------------- MODULE MCUmsLifecycle ----------------------------
(* Instances of UmsLifecycle: every worker is on all lists, as in the example.  *)
EXTENDS UmsLifecycle

CONSTANTS l1

OneList == <<l1>>

MCListOf == [cpu \in Started |-> ListAt(cpu)]
MCClidList == [w \in Worker |-> ClidsAfter(list)]
MCUserList == [c \in CL |-> Worker]
===============================================================================
