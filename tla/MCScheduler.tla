----------------------------- MODULE MCScheduler -----------------------------
(* A plan with a join on the probe side of a join, two lanes each:           *)
(*   1 unload - 2 join - 3 build source                                      *)
(*                     - 4 join (probe) - 5 build source                     *)
(*                                      - 6 probe source                     *)
EXTENDS Scheduler

MCHeight     == <<0, 1, 2, 2, 3, 3>>
MCReadyLanes == <<1, 2, 1, 1, 1, 1>>
MCSubtreeEnd == <<7, 7, 4, 7, 6, 7>>
MCJoinNodes  == {2, 4}
MCProbeStart == [j \in {2, 4} |-> IF j = 2 THEN 4 ELSE 6]
MCJoinLanes  == [j \in {2, 4} |-> 2]
=============================================================================
