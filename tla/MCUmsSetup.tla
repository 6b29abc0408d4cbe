------------------------------ MODULE MCUmsSetup ------------------------------
(* Instances of UmsSetup: one creator with all lists and workers, as main of   *)
(* the example, or two with a list and a worker each, as two processes.        *)
EXTENDS UmsSetup

CONSTANTS c1, w1, w2, w3, l1, l2

OneListsOf == [c \in Creator |-> <<l1, l2>>]
\* w3 finds the arrays of two full
OneWorkersOf == [c \in Creator |-> <<w1, w2, w3>>]

PairWorkersOf == [c \in Creator |-> <<w1, w2>>]
TwoListsOf == [c \in Creator |-> IF c = c1 THEN <<l1>> ELSE <<l2>>]
TwoWorkersOf == [c \in Creator |-> IF c = c1 THEN <<w1>> ELSE <<w2>>]
================================================================================
