------------------------------ MODULE MCUmsLists ------------------------------
(* Two schedulers that dequeue two lists, with both workers on both lists as   *)
(* main of the example puts them, but added in opposite orders.  The arrays of *)
(* the library have room for one worker: the second completion_list_add of     *)
(* each list failed, and COMPLLISTADD was sent all the same.                   *)
EXTENDS UmsDispatch, TLC

CONSTANTS s1, s2, w1, w2, l1, l2

MCListOf == [s \in Sched |-> IF s = s1 THEN l1 ELSE l2]
MCClidList == [w \in Worker |-> IF w = w1 THEN <<l2, l1>> ELSE <<l1, l2>>]
MCUserList == [c \in CL |-> IF c = l1 THEN {w2} ELSE {w1}]
================================================================================
