---------------------------- MODULE MCSyncQueue ----------------------------
(* Instances of SyncQueue for TLC.                                          *)
EXTENDS SyncQueue

Goods2 == 1..2
Goods3 == 1..3
AllListed == [p \in Platforms |-> {}]
FirstUnlisted == [p \in Platforms |-> IF p \in {"prom", "horoshop"} THEN {1} ELSE {}]
EveryMinute == [s \in Scheduled |-> 1]
PromMoreOften == [s \in Scheduled |-> IF s = "prom" THEN 1 ELSE 2]
WorkerSymmetry == Permutations(Workers)
=============================================================================
