---------------------------- MODULE MCTableAction ----------------------------
(* Instances of TableAction for TLC.                                       *)
EXTENDS TableAction, TLC

CONSTANTS t1, t2, demo

(* t2 is the action of a later analysis of the email of t1.                *)
Chain == [a \in Actions |-> IF a = t2 THEN {t1} ELSE {}]

Alike == Permutations(Workers) \cup Permutations(Requests)
=============================================================================
