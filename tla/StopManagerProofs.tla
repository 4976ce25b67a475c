------------------------- MODULE StopManagerProofs -------------------------
(***************************************************************************)
(* Theorems about StopManager for any number of workers, stoppers and      *)
(* waiters: the safety invariants the TLC run checks for four workers.     *)
(***************************************************************************)
EXTENDS StopManager, FiniteSetTheorems, TLAPS

Registered(w) == pc[w] \notin {"new", "refused"}
Over == stopped /\ Counted = {}

(* Before anything stops the service no core worker was told or has left:  *)
(* it is not yet there, running, or about to call stop().  The only        *)
(* exception is the one whose thread could not be started.                 *)
CoreStays ==
    ~ stopped => \A c \in Core \ {aborted} :
                    /\ pc[c] \in {"new", "refused", "running", "stop_all"}
                    /\ ~ woken[c]
(* A tun device is only there after an active worker. *)
ActiveFirst ==
    (\E r \in Replaceable : Registered(r)) => \E c \in Active \ {aborted} : Registered(c)
(* Nobody waits before the construction is over. *)
WaitAfterBuilt == (\E s \in Sleepers : pc[s] # "idle") => Built
(* Who drains the listeners has set "stopped". *)
DrainStopped == \A t \in Threads : pc[t] \in {"drain_all", "drain_call"} => stopped
(* The callback and the waits that return find the service over.           *)
Ended ==
    \/ calls # 0
    \/ \E w \in Workers : pc[w] \in {"drain_call", "call"}
    \/ \E s \in Sleepers : pc[s] = "returned"
OverWhenEnded == Ended => Over
(* The worker that counted down to zero was the last: the service is       *)
(* stopped, or it will never be built.                                     *)
LastOut ==
    (\E w \in Workers : pc[w] \in {"unpark", "stop_call"})
        => Counted = {} /\ (stopped \/ aborted # NoOne)
(* The callback is there until it is called. *)
CallsOnce == calls = IF stop_call THEN 0 ELSE 1
(* A running worker has its listener registered or was told. *)
RegisteredOrTold == \A w \in Workers : pc[w] = "running" => woken[w] \/ w \in listeners
(* stop() lets go of the lock when it has called every listener. *)
DrainedWhenFree == stopped /\ Free => listeners = {}

Inv ==
    /\ TypeOK /\ WorkerNumExact /\ CoreStays /\ ActiveFirst /\ WaitAfterBuilt
    /\ DrainStopped /\ OverWhenEnded /\ LastOut /\ CallsOnce /\ RegisteredOrTold /\ DrainedWhenFree

-----------------------------------------------------------------------------
(* The state predicates other than the count, for steps that keep it.      *)
Rest ==
    /\ CoreStays /\ ActiveFirst /\ WaitAfterBuilt /\ DrainStopped /\ CallsOnce
    /\ RegisteredOrTold /\ DrainedWhenFree

(* What a move of one thread does to the set of counted workers. *)
LEMMA CountedMoves ==
    ASSUME TypeOK, NEW t \in Threads, NEW p \in Places, pc' = [pc EXCEPT ![t] = p]
    PROVE  /\ (t \in Workers => (pc[t] \in Holding <=> p \in Holding)) => Counted' = Counted
           /\ t \in Workers /\ p \in Holding => Counted' = Counted \cup {t}
           /\ t \in Workers /\ p \notin Holding => Counted' = Counted \ {t}
<1>1. \A x \in Threads : pc'[x] = IF x = t THEN p ELSE pc[x]
  BY DEF TypeOK
<1>2. Workers \subseteq Threads
  BY DEF Threads
<1> QED
  BY <1>1, <1>2 DEF Counted

(* The counted workers are finitely many. *)
LEMMA CountedFinite ==
    TypeOK => IsFiniteSet(Counted) /\ Cardinality(Counted) \in Nat
BY FiniteAssumption, FS_Subset, FS_CardinalityType DEF Counted

(* Steps that keep the count, one lemma for each action. *)

(* A core worker that was told was told by stop(). *)
LEMMA LeaveStep ==
    ASSUME Inv, NEW w \in Workers, Leave(w)
    PROVE  Inv'
<1>1. TypeOK'
  BY DEF Inv, TypeOK, Leave, LeaveBy, Goto, Places, Holding, Threads, Workers, Sleepers
<1>2. Counted' = Counted
  BY CountedMoves, DisjointAssumption DEF Inv, Leave, LeaveBy, Goto, Places, Holding, Threads
<1>3. WorkerNumExact'
  BY <1>2 DEF Inv, WorkerNumExact, Leave, LeaveBy
<1>4. Rest'
  BY DisjointAssumption
  DEF Inv, TypeOK, Rest, CoreStays, ActiveFirst, WaitAfterBuilt, DrainStopped, CallsOnce,
      RegisteredOrTold, DrainedWhenFree, Registered, Built, Free, Goto,
      Threads, Workers, Core, Sleepers, Leave, LeaveBy
<1>5. OverWhenEnded' /\ LastOut'
  BY <1>2, DisjointAssumption
  DEF Inv, TypeOK, OverWhenEnded, LastOut, Ended, Over, Leave, LeaveBy, Goto, Threads
<1> QED
  BY <1>1, <1>3, <1>4, <1>5 DEF Inv, Rest

LEMMA StopSelfStep ==
    ASSUME Inv, NEW w \in Workers, StopSelf(w)
    PROVE  Inv'
<1>1. TypeOK'
  BY DEF Inv, TypeOK, StopSelf, Goto, Places, Holding, Threads, Workers, Sleepers
<1>2. Counted' = Counted
  BY CountedMoves, DisjointAssumption DEF Inv, StopSelf, Goto, Places, Holding, Threads
<1>3. WorkerNumExact'
  BY <1>2 DEF Inv, WorkerNumExact, StopSelf
<1>4. Rest'
  BY DisjointAssumption
  DEF Inv, TypeOK, Rest, CoreStays, ActiveFirst, WaitAfterBuilt, DrainStopped, CallsOnce,
      RegisteredOrTold, DrainedWhenFree, Registered, Built, Free, Goto,
      Threads, Workers, Core, Sleepers, StopSelf
<1>5. OverWhenEnded' /\ LastOut'
  BY <1>2, DisjointAssumption
  DEF Inv, TypeOK, OverWhenEnded, LastOut, Ended, Over, StopSelf, Goto, Threads
<1> QED
  BY <1>1, <1>3, <1>4, <1>5 DEF Inv, Rest

(* release0 tells only workers of its own name, which a core worker shares with nobody. *)
LEMMA ReleaseStep ==
    ASSUME Inv, NEW w \in Workers, Release(w)
    PROVE  Inv'
<1>1. TypeOK'
  BY DEF Inv, TypeOK, Release, SameName, Goto, Places, Holding, Threads, Workers, Sleepers
<1>2. Counted' = Counted
  BY CountedMoves, DisjointAssumption DEF Inv, Release, SameName, Goto, Places, Holding, Threads
<1>3. WorkerNumExact'
  BY <1>2 DEF Inv, WorkerNumExact, Release, SameName
<1>4. Rest'
  BY DisjointAssumption
  DEF Inv, TypeOK, Rest, CoreStays, ActiveFirst, WaitAfterBuilt, DrainStopped, CallsOnce,
      RegisteredOrTold, DrainedWhenFree, Registered, Built, Free, Goto,
      Threads, Workers, Core, Sleepers, Release, SameName
<1>5. OverWhenEnded' /\ LastOut'
  BY <1>2, DisjointAssumption
  DEF Inv, TypeOK, OverWhenEnded, LastOut, Ended, Over, Release, SameName, Goto, Threads
<1> QED
  BY <1>1, <1>3, <1>4, <1>5 DEF Inv, Rest

LEMMA UnparkStep ==
    ASSUME Inv, NEW w \in Workers, Unpark(w)
    PROVE  Inv'
<1>1. TypeOK'
  BY DEF Inv, TypeOK, Unpark, Goto, Places, Holding, Threads, Workers, Sleepers
<1>2. Counted' = Counted
  BY CountedMoves, DisjointAssumption DEF Inv, Unpark, Goto, Places, Holding, Threads
<1>3. WorkerNumExact'
  BY <1>2 DEF Inv, WorkerNumExact, Unpark
<1>4. Rest'
  BY DisjointAssumption
  DEF Inv, TypeOK, Rest, CoreStays, ActiveFirst, WaitAfterBuilt, DrainStopped, CallsOnce,
      RegisteredOrTold, DrainedWhenFree, Registered, Built, Free, Goto,
      Threads, Workers, Core, Sleepers, Unpark
<1>5. OverWhenEnded' /\ LastOut'
  BY <1>2, DisjointAssumption
  DEF Inv, TypeOK, OverWhenEnded, LastOut, Ended, Over, Unpark, Goto, Threads
<1> QED
  BY <1>1, <1>3, <1>4, <1>5 DEF Inv, Rest

LEMMA StopCallStep ==
    ASSUME Inv, NEW w \in Workers, StopCall(w)
    PROVE  Inv'
<1>1. TypeOK'
  <2>1. calls' \in Nat
    BY DEF Inv, TypeOK, StopCall
  <2> QED
    BY <2>1 DEF Inv, TypeOK, StopCall, Goto, Places, Threads, Workers
<1>2. Counted' = Counted
  BY CountedMoves, DisjointAssumption DEF Inv, StopCall, Goto, Places, Holding, Threads
<1>3. WorkerNumExact'
  BY <1>2 DEF Inv, WorkerNumExact, StopCall
<1>4. Rest'
  BY DisjointAssumption
  DEF Inv, TypeOK, Rest, CoreStays, ActiveFirst, WaitAfterBuilt, DrainStopped, CallsOnce,
      RegisteredOrTold, DrainedWhenFree, Registered, Built, Free, Goto,
      Threads, Workers, Core, Sleepers, StopCall
<1>5. OverWhenEnded' /\ LastOut'
  BY <1>2, DisjointAssumption
  DEF Inv, TypeOK, OverWhenEnded, LastOut, Ended, Over, StopCall, Goto, Threads
<1> QED
  BY <1>1, <1>3, <1>4, <1>5 DEF Inv, Rest

LEMMA CallStopStep ==
    ASSUME Inv, NEW t \in Stoppers, CallStop(t)
    PROVE  Inv'
<1>1. TypeOK'
  BY DEF Inv, TypeOK, CallStop, Goto, Places, Holding, Threads, Workers, Sleepers
<1>2. Counted' = Counted
  BY CountedMoves, DisjointAssumption DEF Inv, CallStop, Goto, Places, Holding, Threads
<1>3. WorkerNumExact'
  BY <1>2 DEF Inv, WorkerNumExact, CallStop
<1>4. Rest'
  BY DisjointAssumption
  DEF Inv, TypeOK, Rest, CoreStays, ActiveFirst, WaitAfterBuilt, DrainStopped, CallsOnce,
      RegisteredOrTold, DrainedWhenFree, Registered, Built, Free, Goto,
      Threads, Workers, Core, Sleepers, CallStop
<1>5. OverWhenEnded' /\ LastOut'
  BY <1>2, DisjointAssumption
  DEF Inv, TypeOK, OverWhenEnded, LastOut, Ended, Over, CallStop, Goto, Threads
<1> QED
  BY <1>1, <1>3, <1>4, <1>5 DEF Inv, Rest

LEMMA WaitEnterStep ==
    ASSUME Inv, NEW s \in Sleepers, WaitEnter(s)
    PROVE  Inv'
<1>1. TypeOK'
  BY DEF Inv, TypeOK, WaitEnter, Entered, Goto, Places, Holding, Threads, Workers, Sleepers
<1>2. Counted' = Counted
  BY CountedMoves, DisjointAssumption DEF Inv, WaitEnter, Entered, Goto, Places, Holding, Threads
<1>3. WorkerNumExact'
  BY <1>2 DEF Inv, WorkerNumExact, WaitEnter, Entered
<1>4. Rest'
  BY DisjointAssumption
  DEF Inv, TypeOK, Rest, CoreStays, ActiveFirst, WaitAfterBuilt, DrainStopped, CallsOnce,
      RegisteredOrTold, DrainedWhenFree, Registered, Built, Free, Goto,
      Threads, Workers, Core, Sleepers, WaitEnter, Entered
<1>5. OverWhenEnded' /\ LastOut'
  BY <1>2, DisjointAssumption
  DEF Inv, TypeOK, OverWhenEnded, LastOut, Ended, Over, WaitEnter, Entered, Goto, Threads
<1> QED
  BY <1>1, <1>3, <1>4, <1>5 DEF Inv, Rest

LEMMA ParkReturnsStep ==
    ASSUME Inv, NEW s \in Sleepers, ParkReturns(s)
    PROVE  Inv'
<1>1. TypeOK'
  BY DEF Inv, TypeOK, ParkReturns, AfterPark, Goto, Places, Holding, Threads, Workers, Sleepers
<1>2. Counted' = Counted
  BY CountedMoves, DisjointAssumption DEF Inv, ParkReturns, AfterPark, Goto, Places, Holding, Threads
<1>3. WorkerNumExact'
  BY <1>2 DEF Inv, WorkerNumExact, ParkReturns, AfterPark
<1>4. Rest'
  BY DisjointAssumption
  DEF Inv, TypeOK, Rest, CoreStays, ActiveFirst, WaitAfterBuilt, DrainStopped, CallsOnce,
      RegisteredOrTold, DrainedWhenFree, Registered, Built, Free, Goto,
      Threads, Workers, Core, Sleepers, ParkReturns, AfterPark
<1>5. OverWhenEnded' /\ LastOut'
  BY <1>2, DisjointAssumption
  DEF Inv, TypeOK, OverWhenEnded, LastOut, Ended, Over, ParkReturns, AfterPark, Goto, Threads
<1> QED
  BY <1>1, <1>3, <1>4, <1>5 DEF Inv, Rest

LEMMA ParkEndsEarlyStep ==
    ASSUME Inv, NEW s \in Sleepers, ParkEndsEarly(s)
    PROVE  Inv'
<1>1. TypeOK'
  BY DEF Inv, TypeOK, ParkEndsEarly, AfterPark, Goto, Places, Holding, Threads, Workers, Sleepers
<1>2. Counted' = Counted
  BY CountedMoves, DisjointAssumption DEF Inv, ParkEndsEarly, AfterPark, Goto, Places, Holding, Threads
<1>3. WorkerNumExact'
  BY <1>2 DEF Inv, WorkerNumExact, ParkEndsEarly, AfterPark
<1>4. Rest'
  BY DisjointAssumption
  DEF Inv, TypeOK, Rest, CoreStays, ActiveFirst, WaitAfterBuilt, DrainStopped, CallsOnce,
      RegisteredOrTold, DrainedWhenFree, Registered, Built, Free, Goto,
      Threads, Workers, Core, Sleepers, ParkEndsEarly, AfterPark
<1>5. OverWhenEnded' /\ LastOut'
  BY <1>2, DisjointAssumption
  DEF Inv, TypeOK, OverWhenEnded, LastOut, Ended, Over, ParkEndsEarly, AfterPark, Goto, Threads
<1> QED
  BY <1>1, <1>3, <1>4, <1>5 DEF Inv, Rest

LEMMA StopBeginStep ==
    ASSUME Inv, NEW t \in Workers \cup Stoppers,
           NEW from, NEW to,
           <<from, to>> \in {<<"stop_all", "drain_all">>, <<"stop_call", "drain_call">>}, StopBegin(t, from, to)
    PROVE  Inv'
<1>1. TypeOK'
  BY DEF Inv, TypeOK, StopBegin, Goto, Places, Holding, Threads, Workers, Sleepers
<1>2. Counted' = Counted
  BY CountedMoves, DisjointAssumption DEF Inv, StopBegin, Goto, Places, Holding, Threads
<1>3. WorkerNumExact'
  BY <1>2 DEF Inv, WorkerNumExact, StopBegin
<1>4. Rest'
  BY DisjointAssumption
  DEF Inv, TypeOK, Rest, CoreStays, ActiveFirst, WaitAfterBuilt, DrainStopped, CallsOnce,
      RegisteredOrTold, DrainedWhenFree, Registered, Built, Free, Goto,
      Threads, Workers, Core, Sleepers, StopBegin
<1>5. OverWhenEnded' /\ LastOut'
  BY <1>2, DisjointAssumption
  DEF Inv, TypeOK, OverWhenEnded, LastOut, Ended, Over, StopBegin, Goto, Threads
<1> QED
  BY <1>1, <1>3, <1>4, <1>5 DEF Inv, Rest

LEMMA StopListenerStep ==
    ASSUME Inv, NEW t \in Workers \cup Stoppers,
           NEW at \in {"drain_all", "drain_call"}, StopListener(t, at)
    PROVE  Inv'
<1>1. TypeOK'
  BY DEF Inv, TypeOK, StopListener, Goto, Places, Holding, Threads, Workers, Sleepers
<1>2. Counted' = Counted
  BY DEF StopListener, Counted
<1>3. WorkerNumExact'
  BY <1>2 DEF Inv, WorkerNumExact, StopListener
<1>4. Rest'
  BY DisjointAssumption
  DEF Inv, TypeOK, Rest, CoreStays, ActiveFirst, WaitAfterBuilt, DrainStopped, CallsOnce,
      RegisteredOrTold, DrainedWhenFree, Registered, Built, Free, Goto,
      Threads, Workers, Core, Sleepers, StopListener
<1>5. OverWhenEnded' /\ LastOut'
  BY <1>2, DisjointAssumption
  DEF Inv, TypeOK, OverWhenEnded, LastOut, Ended, Over, StopListener, Goto, Threads
<1> QED
  BY <1>1, <1>3, <1>4, <1>5 DEF Inv, Rest

LEMMA StopEndStep ==
    ASSUME Inv, NEW t \in Workers \cup Stoppers,
           NEW at, NEW to,
           \/ <<at, to>> \in {<<"drain_all", "release">>, <<"drain_call", "call">>}
           \/ t \in Stoppers /\ at = "drain_all" /\ to = "done", StopEnd(t, at, to)
    PROVE  Inv'
<1>1. TypeOK'
  BY DEF Inv, TypeOK, StopEnd, Drained, Goto, Places, Holding, Threads, Workers, Sleepers
<1>2. Counted' = Counted
  BY CountedMoves, DisjointAssumption DEF Inv, StopEnd, Drained, Goto, Places, Holding, Threads
<1>3. WorkerNumExact'
  BY <1>2 DEF Inv, WorkerNumExact, StopEnd, Drained
<1>4. Rest'
  BY DisjointAssumption
  DEF Inv, TypeOK, Rest, CoreStays, ActiveFirst, WaitAfterBuilt, DrainStopped, CallsOnce,
      RegisteredOrTold, DrainedWhenFree, Registered, Built, Free, Goto,
      Threads, Workers, Core, Sleepers, StopEnd, Drained
<1>5. OverWhenEnded' /\ LastOut'
  BY <1>2, DisjointAssumption
  DEF Inv, TypeOK, OverWhenEnded, LastOut, Ended, Over, StopEnd, Drained, Goto, Threads
<1> QED
  BY <1>1, <1>3, <1>4, <1>5 DEF Inv, Rest

(* As long as nothing has stopped the service and every thread of a        *)
(* registered worker was started, an active or passive worker is counted.  *)
LEMMA CoreCounted ==
    ASSUME Inv, ~ stopped, aborted = NoOne, \E w \in Workers : Registered(w)
    PROVE  \E c \in Core : c \in Counted /\ pc[c] \in {"running", "stop_all"}
<1>1. \E c \in Core : Registered(c)
  BY DEF Inv, ActiveFirst, Workers, Core
<1> QED
  BY <1>1, DisjointAssumption
  DEF Inv, CoreStays, Registered, Counted, Holding, Workers, Core, Threads

(* Whoever may register before a stop() finds the callback not under way. *)
LEMMA NoneLastOut ==
    ASSUME Inv, ~ stopped, NEW w \in Workers, MayRegister(w)
    PROVE  \A v \in Workers : pc[v] \notin {"unpark", "stop_call"}
<1> SUFFICES ASSUME NEW v \in Workers, pc[v] \in {"unpark", "stop_call"} PROVE FALSE
  OBVIOUS
<1>1. Counted = {} /\ aborted # NoOne
  BY DEF Inv, LastOut
<1>2. PICK c \in Active \ {aborted} : pc[c] \notin {"new", "refused"}
  BY <1>1 DEF MayRegister, Workers
<1>3. pc[c] \in {"running", "stop_all"} /\ c \in Workers
  BY <1>2 DEF Inv, CoreStays, Core, Workers
<1> QED
  BY <1>1, <1>3 DEF Counted, Holding

(* What add_listener does for the worker it accepts, whether its thread is *)
(* started then or not.                                                    *)
Joins(w, there) ==
    /\ Free /\ MayRegister(w) /\ Accepted(w) /\ Register(w, there)
    /\ \/ there = "running" /\ aborted' = aborted
       \/ there = "release" /\ aborted' = w /\ w \in Core
    /\ UNCHANGED <<lock, stopped, park_threads, token, stop_call, calls, woken>>

LEMMA JoinsStep ==
    ASSUME Inv, NEW w \in Workers, NEW there, Joins(w, there)
    PROVE  Inv'
<1>0. there \in {"running", "release"} /\ pc[w] = "new" /\ ~ stopped /\ w \in Threads
  BY DEF Joins, MayRegister, Accepted, Threads
<1>1. TypeOK'
  <2>1. worker_num' \in Nat /\ listeners' \subseteq Workers
    BY DEF Inv, TypeOK, Joins, Register
  <2>2. pc' \in [Threads -> Places]
    BY <1>0 DEF Inv, TypeOK, Joins, Register, Goto, Places, Holding
  <2>3. aborted' \in Core \cup {NoOne}
    BY DEF Inv, TypeOK, Joins
  <2> QED
    BY <2>1, <2>2, <2>3 DEF Inv, TypeOK, Joins
<1>2. Counted' = Counted \cup {w} /\ w \notin Counted
  BY <1>0, CountedMoves DEF Inv, Joins, Register, Goto, Places, Holding, Counted
<1>3. WorkerNumExact'
  BY <1>2, CountedFinite, FS_AddElement DEF Inv, WorkerNumExact, Joins, Register
<1>4. \A x \in Threads : pc'[x] = IF x = w THEN there ELSE pc[x]
  BY DEF Inv, TypeOK, Joins, Register, Goto
<1>5. CoreStays' /\ ActiveFirst'
  BY <1>0, <1>4, DisjointAssumption
  DEF Inv, CoreStays, ActiveFirst, Registered, Joins, MayRegister, Threads, Workers, Core
<1>6. WaitAfterBuilt' /\ DrainStopped'
  <2>1. w \in Core => ~ Built
    BY <1>0 DEF Built
  <2>2. w \notin Core /\ Built => Built'
    BY <1>0, <1>4 DEF Built, Joins, Threads, Workers
  <2>3. \A s \in Sleepers : pc'[s] = pc[s]
    BY <1>4, DisjointAssumption DEF Threads
  <2>4. WaitAfterBuilt'
    BY <2>1, <2>2, <2>3 DEF Inv, WaitAfterBuilt
  <2> QED
    BY <1>0, <1>4, <2>4 DEF Inv, DrainStopped, Joins
<1>7. CallsOnce' /\ RegisteredOrTold' /\ DrainedWhenFree'
  BY <1>0, <1>4
  DEF Inv, CallsOnce, RegisteredOrTold, DrainedWhenFree, Joins, Register, Free, Threads
<1>8. LastOut'
  BY <1>0, <1>4, NoneLastOut DEF LastOut, Joins, Threads
<1>9. OverWhenEnded'
  BY <1>0, <1>4, DisjointAssumption DEF Inv, OverWhenEnded, Ended, Over, Joins, Threads
<1> QED
  BY <1>1, <1>3, <1>5, <1>6, <1>7, <1>8, <1>9 DEF Inv

(* The thread of an accepted worker cannot be started. *)
LEMMA SpawnFailsStep ==
    ASSUME Inv, NEW w \in Workers, SpawnFails(w)
    PROVE  Inv'
BY JoinsStep DEF SpawnFails, Joins

(* add_listener counts the worker it accepts; after stop() it accepts none. *)
LEMMA AddListenerStep ==
    ASSUME Inv, NEW w \in Workers, AddListener(w)
    PROVE  Inv'
<1>1. CASE Accepted(w)
  <2>1. Joins(w, "running")
    BY <1>1 DEF AddListener, Joins
  <2> QED
    BY <2>1, JoinsStep
<1>2. CASE ~ Accepted(w)
  <2>1. TypeOK'
    BY <1>2 DEF Inv, TypeOK, AddListener, Goto, Places, Holding, Threads
  <2>2. Counted' = Counted
    BY <1>2, CountedMoves DEF Inv, AddListener, MayRegister, Goto, Places, Holding, Threads
  <2>3. WorkerNumExact'
    BY <1>2, <2>2 DEF Inv, WorkerNumExact, AddListener
  <2>4. Rest'
    BY <1>2, DisjointAssumption
    DEF Inv, TypeOK, Rest, CoreStays, ActiveFirst, WaitAfterBuilt, DrainStopped, CallsOnce,
        RegisteredOrTold, DrainedWhenFree, Registered, Built, Free, Goto,
        Threads, Workers, Core, Sleepers, AddListener, MayRegister
  <2>5. OverWhenEnded' /\ LastOut'
    BY <1>2, <2>2, DisjointAssumption
    DEF Inv, TypeOK, OverWhenEnded, LastOut, Ended, Over, AddListener, Goto, Threads
  <2> QED
    BY <2>1, <2>3, <2>4, <2>5 DEF Inv, Rest
<1> QED
  BY <1>1, <1>2

LEMMA ConstructionFailsStep ==
    ASSUME Inv, NEW w \in Workers, ConstructionFails(w)
    PROVE  Inv'
<1>1. TypeOK'
  BY DEF Inv, TypeOK, ConstructionFails, Goto, Places, Holding, Threads
<1>2. Counted' = Counted
  BY CountedMoves DEF Inv, ConstructionFails, MayRegister, Goto, Places, Holding, Threads
<1>3. WorkerNumExact'
  BY <1>2 DEF Inv, WorkerNumExact, ConstructionFails
<1>4. Rest'
  BY DisjointAssumption
  DEF Inv, TypeOK, Rest, CoreStays, ActiveFirst, WaitAfterBuilt, DrainStopped, CallsOnce,
      RegisteredOrTold, DrainedWhenFree, Registered, Built, Free, Goto,
      Threads, Workers, Core, Sleepers, ConstructionFails, MayRegister
<1>5. OverWhenEnded' /\ LastOut'
  BY <1>2, DisjointAssumption
  DEF Inv, TypeOK, OverWhenEnded, LastOut, Ended, Over, ConstructionFails, Goto, Threads
<1> QED
  BY <1>1, <1>3, <1>4, <1>5 DEF Inv, Rest

(* The fetch_sub that returns 1 is that of the last worker of all, for     *)
(* before a stop() a core worker would still be counted.                   *)
LEMMA SubStep ==
    ASSUME Inv, NEW w \in Workers, Sub(w)
    PROVE  Inv'
<1> DEFINE there == IF worker_num = 1 THEN "unpark" ELSE "gone"
<1>1. there \in Places /\ there \notin Holding
  BY DEF Places, Holding
<1>2. Counted' = Counted \ {w} /\ w \in Counted
  BY <1>1, CountedMoves DEF Inv, Sub, Goto, Counted, Holding, Threads
<1>3. Cardinality(Counted') = worker_num - 1 /\ worker_num - 1 \in Nat
  BY <1>2, CountedFinite, FS_RemoveElement, FS_EmptySet, FS_CardinalityType DEF Inv, WorkerNumExact
<1>4. TypeOK'
  BY <1>1, <1>3 DEF Inv, TypeOK, Sub, Goto, Threads
<1>5. WorkerNumExact'
  BY <1>3 DEF WorkerNumExact, Sub
<1>6. Rest'
  BY DisjointAssumption
  DEF Inv, TypeOK, Rest, CoreStays, ActiveFirst, WaitAfterBuilt, DrainStopped, CallsOnce,
      RegisteredOrTold, DrainedWhenFree, Registered, Built, Free, Goto,
      Threads, Workers, Core, Sleepers, Sub
<1>7. worker_num = 1 => Counted' = {} /\ (stopped \/ aborted # NoOne)
  <2>1. worker_num = 1 => Counted' = {}
    BY <1>2, <1>3, CountedFinite, FS_EmptySet, FS_Subset DEF Inv
  <2>2. ~ stopped /\ aborted = NoOne => Counted' # {}
    BY <1>2, CoreCounted DEF Sub, Registered
  <2> QED
    BY <2>1, <2>2
<1>8. OverWhenEnded' /\ LastOut'
  BY <1>2, <1>7, DisjointAssumption
  DEF Inv, TypeOK, OverWhenEnded, LastOut, Ended, Over, Sub, Goto, Threads
<1> QED
  BY <1>4, <1>5, <1>6, <1>8 DEF Inv, Rest

(* A sleeper that reads zero after the construction finds the service over. *)
LEMMA ReadZero ==
    ASSUME Inv, NEW s \in Sleepers, pc[s] # "idle", worker_num = 0
    PROVE  Over
<1>1. Counted = {}
  BY CountedFinite, FS_EmptySet DEF Inv, WorkerNumExact
<1>2. Built
  BY DEF Inv, WaitAfterBuilt
<1>3. \E w \in Workers : Registered(w)
  BY <1>2, ActiveAssumption DEF Built, Registered, Workers, Core
<1> QED
  BY <1>1, <1>2, <1>3, CoreCounted DEF Over, Built

LEMMA ReadCountStep ==
    ASSUME Inv, NEW s \in Sleepers, WaitLoad(s) \/ WaitRecheck(s)
    PROVE  Inv'
<1> DEFINE there == IF worker_num = 0 THEN "returned"
                    ELSE IF pc[s] = "load" THEN "park" ELSE "timed_out"
<1>1. /\ pc' = [pc EXCEPT ![s] = there] /\ pc[s] \in {"load", "recheck"}
      /\ UNCHANGED <<lock, stopped, listeners, worker_num, park_threads, token,
                     stop_call, calls, woken, aborted>>
  BY DEF WaitLoad, WaitRecheck, Goto
<1>2. there \in Places /\ there \notin {"running", "drain_all", "drain_call", "idle"}
  BY DEF Places
<1> HIDE DEF there
<1>3. TypeOK'
  BY <1>1, <1>2 DEF Inv, TypeOK, Threads
<1>4. Counted' = Counted
  BY <1>1, <1>2, CountedMoves, DisjointAssumption DEF Inv, Threads
<1>5. WorkerNumExact'
  BY <1>1, <1>4 DEF Inv, WorkerNumExact
<1>6. Rest'
  BY <1>1, <1>2, DisjointAssumption
  DEF Inv, TypeOK, Rest, CoreStays, ActiveFirst, WaitAfterBuilt, DrainStopped, CallsOnce,
      RegisteredOrTold, DrainedWhenFree, Registered, Built, Free,
      Threads, Workers, Core, Sleepers
<1>7. there = "returned" => Over
  BY <1>1, ReadZero DEF there
<1>8. OverWhenEnded' /\ LastOut'
  BY <1>1, <1>4, <1>7, DisjointAssumption
  DEF Inv, TypeOK, OverWhenEnded, LastOut, Ended, Over, Threads
<1> QED
  BY <1>3, <1>5, <1>6, <1>8 DEF Inv, Rest

-----------------------------------------------------------------------------
LEMMA InitInv == Init => Inv
<1> SUFFICES ASSUME Init PROVE Inv
  OBVIOUS
<1>1. TypeOK
  BY DEF Init, TypeOK, Places, Threads, Workers, Sleepers
<1>2. Counted = {}
  BY DEF Init, Counted, Holding, Threads
<1>3. WorkerNumExact
  BY <1>2, FS_EmptySet DEF Init, WorkerNumExact
<1>4. Rest /\ OverWhenEnded /\ LastOut
  BY DisjointAssumption
  DEF Init, Rest, CoreStays, ActiveFirst, WaitAfterBuilt, DrainStopped, CallsOnce,
      RegisteredOrTold, DrainedWhenFree, OverWhenEnded, LastOut, Ended, Registered,
      Threads, Workers, Core, Sleepers
<1> QED
  BY <1>1, <1>3, <1>4 DEF Inv, Rest

LEMMA NextInv == Inv /\ [Next]_vars => Inv'
<1> SUFFICES ASSUME Inv, [Next]_vars PROVE Inv'
  OBVIOUS
<1>1. ASSUME NEW w \in Workers,
             \/ AddListener(w) \/ SpawnFails(w) \/ ConstructionFails(w)
             \/ Leave(w) \/ StopSelf(w) \/ StopOfWorker(w) \/ Ends(w)
      PROVE  Inv'
  <2>1. CASE AddListener(w)
    BY <2>1, AddListenerStep
  <2>2. CASE Leave(w)
    BY <2>2, LeaveStep
  <2>3. CASE StopSelf(w)
    BY <2>3, StopSelfStep
  <2>4. CASE StopOfWorker(w)
    BY <2>4, StopBeginStep, StopListenerStep, StopEndStep DEF StopOfWorker, StopSteps
  <2>5. CASE Ends(w)
    BY <2>5, ReleaseStep, SubStep, UnparkStep, StopCallStep DEF Ends
  <2>6. CASE ConstructionFails(w)
    BY <2>6, ConstructionFailsStep
  <2>7. CASE SpawnFails(w)
    BY <2>7, SpawnFailsStep
  <2> QED
    BY <1>1, <2>1, <2>2, <2>3, <2>4, <2>5, <2>6, <2>7
<1>2. ASSUME NEW t \in Stoppers, CallStop(t) \/ StopOfStopper(t)
      PROVE  Inv'
  BY <1>2, CallStopStep, StopBeginStep, StopListenerStep, StopEndStep
  DEF StopOfStopper, StopSteps
<1>3. ASSUME NEW s \in Sleepers, WaitEnter(s) \/ ParkEndsEarly(s) \/ Sleeps(s)
      PROVE  Inv'
  BY <1>3, WaitEnterStep, ParkEndsEarlyStep, ParkReturnsStep, ReadCountStep DEF Sleeps
<1>4. CASE UNCHANGED vars
  BY <1>4 DEF vars, Inv, TypeOK, WorkerNumExact, CoreStays, ActiveFirst, WaitAfterBuilt,
     DrainStopped, OverWhenEnded, LastOut, CallsOnce, RegisteredOrTold, DrainedWhenFree,
     Registered, Built, Free, Ended, Over, Counted
<1> QED
  BY <1>1, <1>2, <1>3, <1>4 DEF Next

(* The inductive invariant holds in every state of the stop manager. *)
THEOREM Invariance == Spec => []Inv
BY InitInv, NextInv, PTL DEF Spec

(* TypeOK for any number of threads; in particular worker_num never wraps  *)
(* below zero.                                                             *)
THEOREM Types == Spec => []TypeOK
<1>1. Inv => TypeOK
  BY DEF Inv
<1> QED
  BY <1>1, Invariance, PTL

(* WorkerNumExact: add_listener and release0 keep worker_num equal to the  *)
(* number of Workers, for any number of threads.                           *)
THEOREM CountExact == Spec => []WorkerNumExact
<1>1. Inv => WorkerNumExact
  BY DEF Inv
<1> QED
  BY <1>1, Invariance, PTL

(* NoDeafWorker: after a stop() every running worker has been told,        *)
(* whatever registered or was replaced meanwhile.                          *)
THEOREM NoneDeaf == Spec => []NoDeafWorker
<1>1. Inv => NoDeafWorker
  BY DEF Inv, RegisteredOrTold, DrainedWhenFree, NoDeafWorker
<1> QED
  BY <1>1, Invariance, PTL

(* WaitersReturnWhenOver: a wait that returns finds no Worker, and none    *)
(* comes later.                                                            *)
THEOREM WaitsAreRight == Spec => []WaitersReturnWhenOver
<1>1. Inv => WaitersReturnWhenOver
  BY DEF Inv, OverWhenEnded, Ended, Over, WaitersReturnWhenOver
<1> QED
  BY <1>1, Invariance, PTL

(* CallbackOnceWhenOver: the stop callback runs at most once, and after    *)
(* the last Worker is gone.                                                *)
THEOREM CallbackIsRight == Spec => []CallbackOnceWhenOver
<1>1. Inv => CallbackOnceWhenOver
  BY DEF Inv, OverWhenEnded, Ended, Over, CallsOnce, CallbackOnceWhenOver
<1> QED
  BY <1>1, Invariance, PTL

(* EndIsRight for any number of workers, stoppers and waiters.             *)
THEOREM EndsRight == Spec => []EndIsRight
BY Types, CountExact, WaitsAreRight, CallbackIsRight, PTL DEF EndIsRight

-----------------------------------------------------------------------------
(* The refinement: every step of the stop manager is a step of Lifecycle   *)
(* or leaves what a user sees as it is.                                    *)

Seen == <<stopped, Counted, Returned, calls>>

(* A move of one thread, seen from outside: none, unless a worker begins   *)
(* or ends to be counted or a sleeper returns.                             *)
LEMMA QuietMove ==
    ASSUME TypeOK, NEW t \in Threads, NEW p \in Places, pc' = [pc EXCEPT ![t] = p],
           t \in Workers => (pc[t] \in Holding <=> p \in Holding),
           t \in Sleepers => pc[t] # "returned" /\ p # "returned"
    PROVE  Counted' = Counted /\ Returned' = Returned
<1>1. Counted' = Counted
  BY CountedMoves
<1>2. \A x \in Threads : pc'[x] = IF x = t THEN p ELSE pc[x]
  BY DEF TypeOK
<1> QED
  BY <1>1, <1>2 DEF Returned, Threads

(* A worker that is accepted joins; one that is refused is not seen. *)
LEMMA RegisterSeen ==
    ASSUME Inv, NEW w \in Workers, AddListener(w) \/ SpawnFails(w) \/ ConstructionFails(w)
    PROVE  [Service!Next]_Seen
<1>1. CASE (AddListener(w) /\ Accepted(w)) \/ SpawnFails(w)
  <2>1. PICK there \in {"running", "release"} : Joins(w, there)
    BY <1>1 DEF AddListener, SpawnFails, Joins
  <2>2. pc' = [pc EXCEPT ![w] = there] /\ pc[w] = "new" /\ ~ stopped
    BY <2>1 DEF Joins, Register, MayRegister, Accepted, Goto
  <2>3. Counted' = Counted \cup {w} /\ w \notin Counted
    BY <2>2, CountedMoves DEF Inv, Counted, Holding, Places, Threads
  <2>4. Returned' = Returned
    BY <2>2, DisjointAssumption DEF Inv, TypeOK, Returned, Threads
  <2>5. Service!Join(w)
    BY <2>1, <2>2, <2>3, <2>4 DEF Service!Join, Joins
  <2> QED
    BY <2>5 DEF Service!Next
<1>2. CASE ConstructionFails(w) \/ (AddListener(w) /\ ~ Accepted(w))
  <2>1. pc' = [pc EXCEPT ![w] = "refused"] /\ pc[w] = "new" /\ UNCHANGED <<stopped, calls>>
    BY <1>2 DEF AddListener, ConstructionFails, MayRegister, Goto
  <2> QED
    BY <2>1, QuietMove, DisjointAssumption DEF Seen, Inv, Holding, Places, Threads
<1> QED
  BY <1>1, <1>2

(* Steps of a counted worker, and its wake-ups after it, are not seen. *)
LEMMA LoopSeen ==
    ASSUME Inv, NEW w \in Workers, Leave(w) \/ StopSelf(w) \/ Release(w) \/ Unpark(w)
    PROVE  UNCHANGED Seen
<1>1. PICK p \in Places : /\ pc' = [pc EXCEPT ![w] = p] /\ UNCHANGED <<stopped, calls>>
                          /\ pc[w] \in Holding <=> p \in Holding
  BY DEF Leave, LeaveBy, StopSelf, Release, Unpark, Goto, Places, Holding
<1> QED
  BY <1>1, QuietMove, DisjointAssumption DEF Seen, Inv, Threads

(* The first stop() is seen as the stop, the rest of it not at all. *)
LEMMA StopSeen ==
    ASSUME Inv, NEW t \in Workers \cup Stoppers, NEW from, NEW at, NEW to,
           \/ <<from, at, to>> \in {<<"stop_all", "drain_all", "release">>,
                                    <<"stop_call", "drain_call", "call">>}
           \/ t \in Stoppers /\ <<from, at, to>> = <<"stop_all", "drain_all", "done">>,
           StopSteps(t, from, at, to)
    PROVE  [Service!Next]_Seen
<1>1. CASE StopBegin(t, from, at)
  <2>1. Counted' = Counted /\ Returned' = Returned
    BY <1>1, QuietMove, DisjointAssumption DEF StopBegin, Goto, Inv, Holding, Places, Threads
  <2>2. CASE stopped
    BY <1>1, <2>1, <2>2 DEF StopBegin, Seen
  <2>3. CASE ~ stopped
    BY <1>1, <2>1, <2>3 DEF StopBegin, Service!Next, Service!Stop
  <2> QED
    BY <2>2, <2>3
<1>2. CASE StopListener(t, at)
  BY <1>2 DEF StopListener, Seen, Counted, Returned
<1>3. CASE StopEnd(t, at, to)
  BY <1>3, QuietMove, DisjointAssumption DEF StopEnd, Goto, Seen, Inv, Holding, Places, Threads
<1> QED
  BY <1>1, <1>2, <1>3 DEF StopSteps

(* The decrement of worker_num is the parting of the worker. *)
LEMMA SubSeen ==
    ASSUME Inv, NEW w \in Workers, Sub(w)
    PROVE  Service!Part(w)
<1> DEFINE there == IF worker_num = 1 THEN "unpark" ELSE "gone"
<1>1. there \in Places /\ there \notin Holding /\ pc' = [pc EXCEPT ![w] = there]
  BY DEF Places, Holding, Sub, Goto
<1>2. Counted' = Counted \ {w} /\ w \in Counted
  BY <1>1, CountedMoves DEF Inv, Sub, Counted, Holding, Threads
<1>3. Returned' = Returned
  BY <1>1, DisjointAssumption DEF Inv, TypeOK, Returned, Threads
<1> QED
  BY <1>2, <1>3 DEF Service!Part, Sub

(* The callback that is still there is called when the service is over. *)
LEMMA StopCallSeen ==
    ASSUME Inv, NEW w \in Workers, StopCall(w)
    PROVE  [Service!Next]_Seen
<1>1. Counted' = Counted /\ Returned' = Returned
  BY QuietMove, DisjointAssumption DEF StopCall, Goto, Inv, Holding, Places, Threads
<1>2. stopped /\ Counted = {}
  BY DEF Inv, OverWhenEnded, Ended, Over, StopCall
<1>3. CASE stop_call
  <2>1. calls = 0 /\ calls' = 1
    BY <1>3 DEF Inv, CallsOnce, StopCall
  <2> QED
    BY <1>1, <1>2, <2>1 DEF Service!Next, Service!Announce, Service!Over, StopCall
<1>4. CASE ~ stop_call
  BY <1>1, <1>4 DEF StopCall, Seen
<1> QED
  BY <1>3, <1>4 DEF Inv, TypeOK

(* Calls of stop and wait, before they have an effect, are not seen. *)
LEMMA UserSeen ==
    ASSUME Inv,
           \/ \E t \in Stoppers : CallStop(t)
           \/ \E s \in Sleepers : WaitEnter(s) \/ ParkEndsEarly(s) \/ ParkReturns(s)
    PROVE  UNCHANGED Seen
<1>1. PICK t \in Stoppers \cup Sleepers, p \in Places :
         /\ pc' = [pc EXCEPT ![t] = p] /\ UNCHANGED <<stopped, calls>>
         /\ t \in Sleepers => pc[t] # "returned" /\ p # "returned"
  <2>1. ASSUME NEW t \in Stoppers, CallStop(t)
        PROVE  pc' = [pc EXCEPT ![t] = "stop_all"] /\ UNCHANGED <<stopped, calls>> /\ t \notin Sleepers
    BY <2>1, DisjointAssumption DEF CallStop, Goto
  <2>2. ASSUME NEW s \in Sleepers, WaitEnter(s) \/ ParkEndsEarly(s) \/ ParkReturns(s)
        PROVE  \E p \in {"load", "recheck"} :
                  pc' = [pc EXCEPT ![s] = p] /\ UNCHANGED <<stopped, calls>> /\ pc[s] # "returned"
    BY <2>2 DEF WaitEnter, ParkEndsEarly, ParkReturns, AfterPark, Goto
  <2>3. {"stop_all", "load", "recheck"} \subseteq Places
    BY DEF Places, Holding
  <2> QED
    BY <2>1, <2>2, <2>3
<1> QED
  BY <1>1, QuietMove, DisjointAssumption DEF Seen, Inv, Threads

(* Who reads zero is told that the service is over, and it is. *)
LEMMA ReadSeen ==
    ASSUME Inv, NEW s \in Sleepers, WaitLoad(s) \/ WaitRecheck(s)
    PROVE  [Service!Next]_Seen
<1>1. pc[s] \in {"load", "recheck"} /\ UNCHANGED <<stopped, calls>>
  BY DEF WaitLoad, WaitRecheck
<1>2. CASE worker_num = 0
  <2>1. pc' = [pc EXCEPT ![s] = "returned"]
    BY <1>2 DEF WaitLoad, WaitRecheck, Goto
  <2>2. Counted' = Counted
    BY <2>1, CountedMoves, DisjointAssumption DEF Inv, Places, Threads
  <2>3. Returned' = Returned \cup {s}
    BY <2>1 DEF Inv, TypeOK, Returned, Threads
  <2>4. stopped /\ Counted = {}
    BY <1>1, <1>2, ReadZero DEF Over
  <2>5. Service!Tell(s)
    BY <1>1, <2>2, <2>3, <2>4 DEF Service!Tell, Service!Over
  <2> QED
    BY <2>5 DEF Service!Next
<1>3. CASE worker_num # 0
  <2>1. \E p \in {"park", "timed_out"} : pc' = [pc EXCEPT ![s] = p]
    BY <1>3 DEF WaitLoad, WaitRecheck, Goto
  <2> QED
    BY <1>1, <2>1, QuietMove, DisjointAssumption DEF Seen, Inv, Places, Threads
<1> QED
  BY <1>2, <1>3

(* The service begins as Lifecycle does. *)
LEMMA InitSeen == Init => Service!Init
<1> SUFFICES ASSUME Init PROVE Service!Init
  OBVIOUS
<1>1. Counted = {}
  BY DEF Init, Counted, Holding, Threads
<1>2. Returned = {}
  BY DEF Init, Returned, Threads
<1> QED
  BY <1>1, <1>2 DEF Init, Service!Init

(* Every step is seen as a step of Lifecycle or not at all. *)
LEMMA NextSeen == Inv /\ [Next]_vars => [Service!Next]_Seen
<1> SUFFICES ASSUME Inv, [Next]_vars PROVE [Service!Next]_Seen
  OBVIOUS
<1>1. ASSUME NEW w \in Workers,
             \/ AddListener(w) \/ SpawnFails(w) \/ ConstructionFails(w)
             \/ Leave(w) \/ StopSelf(w) \/ StopOfWorker(w) \/ Ends(w)
      PROVE  [Service!Next]_Seen
  <2>1. CASE AddListener(w) \/ SpawnFails(w) \/ ConstructionFails(w)
    BY <2>1, RegisterSeen
  <2>2. CASE Leave(w) \/ StopSelf(w) \/ Release(w) \/ Unpark(w)
    BY <2>2, LoopSeen
  <2>3. CASE StopOfWorker(w)
    BY <2>3, StopSeen DEF StopOfWorker
  <2>4. CASE Sub(w)
    BY <2>4, SubSeen DEF Service!Next
  <2>5. CASE StopCall(w)
    BY <2>5, StopCallSeen
  <2> QED
    BY <1>1, <2>1, <2>2, <2>3, <2>4, <2>5 DEF Ends
<1>2. ASSUME NEW t \in Stoppers, CallStop(t) \/ StopOfStopper(t)
      PROVE  [Service!Next]_Seen
  BY <1>2, UserSeen, StopSeen DEF StopOfStopper
<1>3. ASSUME NEW s \in Sleepers, WaitEnter(s) \/ ParkEndsEarly(s) \/ Sleeps(s)
      PROVE  [Service!Next]_Seen
  BY <1>3, UserSeen, ReadSeen DEF Sleeps
<1>4. CASE UNCHANGED vars
  BY <1>4 DEF vars, Seen, Counted, Returned
<1> QED
  BY <1>1, <1>2, <1>3, <1>4 DEF Next

(* ImplementsService: for any number of workers, stoppers and waiters the  *)
(* stop manager implements the life of the service its users rely on.      *)
THEOREM Refinement == Spec => ImplementsService
<1>1. Seen = Service!vars
  BY DEF Seen, Service!vars
<1>2. Inv /\ [Next]_vars => [Service!Next]_(Service!vars)
  BY NextSeen DEF Seen, Service!vars
<1> QED
  BY <1>2, InitSeen, Invariance, PTL DEF Spec, ImplementsService, Service!Spec
=============================================================================
