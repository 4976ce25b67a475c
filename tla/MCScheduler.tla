---------------------------- MODULE MCScheduler ----------------------------
(* TLC instances of Scheduler: idle_gateway is periodic, start runs once   *)
(* and submits the periodic heartbeat and idle_route.                      *)
EXTENDS Scheduler

CONSTANTS idle_gateway, start, heartbeat, idle_route

MCTasks == {idle_gateway, start, heartbeat, idle_route}
MCInitial == {idle_gateway, start}
MCSubmits ==
    [t \in MCTasks |-> IF t = start THEN {heartbeat, idle_route} ELSE {t}]
=============================================================================
