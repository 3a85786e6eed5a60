--------------------------------- MODULE MCEcuM ---------------------------------
(* Instances of EcuM for TLC: the tasks scaled to a supervision cycle of   *)
(* two ticks, and the calendar around the end of February 2028.            *)
EXTENDS EcuM, TLC

CONSTANTS sched, conn

MCPeriod == sched :> 1 @@ conn :> 2
MCBudget == sched :> 0 @@ conn :> 1
MCAliveMin == sched :> 2 @@ conn :> 0
MCAliveMax == sched :> 3 @@ conn :> 2
MCDeadline == sched :> 1 @@ conn :> 3

(* The instance has the room that the theorem about punctual tasks asks    *)
(* for.                                                                    *)
ASSUME MCSchedulable == Schedulable
=============================================================================
