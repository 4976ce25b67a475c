----------------------------- MODULE Lifecycle -----------------------------
(***************************************************************************)
(* What the life of the service is for its users (core/conn.rs: stop,      *)
(* wait, wait_timeout, the stop callback), without listeners, locks,       *)
(* counters or park tokens: workers join until the service is stopped and  *)
(* part at any time; once it is stopped and the last one has parted, those *)
(* who wait are told and the end is announced, once.                       *)
(***************************************************************************)
EXTENDS Integers

CONSTANTS
    Members,     \* the workers there may be
    Watchers     \* who may wait for the end

VARIABLES
    stopping,    \* the service was stopped
    alive,       \* the workers of the service
    told,        \* who was told that it is over
    announced    \* how often the end was announced

vars == <<stopping, alive, told, announced>>

Over == stopping /\ alive = {}

Init == stopping = FALSE /\ alive = {} /\ told = {} /\ announced = 0

Join(w) ==
    /\ ~ stopping /\ w \notin alive
    /\ alive' = alive \cup {w}
    /\ UNCHANGED <<stopping, told, announced>>

Part(w) ==
    /\ w \in alive
    /\ alive' = alive \ {w}
    /\ UNCHANGED <<stopping, told, announced>>

Stop ==
    /\ ~ stopping
    /\ stopping' = TRUE
    /\ UNCHANGED <<alive, told, announced>>

Tell(s) ==
    /\ Over
    /\ told' = told \cup {s}
    /\ UNCHANGED <<stopping, alive, announced>>

Announce ==
    /\ Over /\ announced = 0
    /\ announced' = 1
    /\ UNCHANGED <<stopping, alive, told>>

Next ==
    \/ \E w \in Members : Join(w) \/ Part(w)
    \/ Stop
    \/ \E s \in Watchers : Tell(s)
    \/ Announce

Spec == Init /\ [][Next]_vars
=============================================================================
