----------------------------- MODULE Scheduler -----------------------------
(***************************************************************************)
(* The timer of a Vnt instance (util/scheduler.rs): one thread runs        *)
(* delayed tasks out of a heap; timeout() hands it new ones through a      *)
(* bounded channel, and every periodic task hands itself in again while it *)
(* runs on that very thread.  The stop manager ends it by shutdown_now().  *)
(*                                                                         *)
(* Time is abstracted: a task in the heap becomes due at some moment, and  *)
(* due tasks run in the order in which they became due, the heap's order.  *)
(* The thread owns a sender itself, so the Disconnected branches of its    *)
(* receives cannot be taken.                                               *)
(***************************************************************************)
EXTENDS Integers, Sequences, FiniteSets, Functions

CONSTANTS
    Tasks,      \* the maintenance tasks
    Initial,    \* the tasks VntInner::new submits
    Submits,    \* Submits[t]: the tasks that t submits when it runs
    CAPACITY,   \* sync_channel(32)
    Shutters,   \* threads that call shutdown_now: the stop listener
    Stop,       \* Op::Stop
    None

ASSUME TasksAssumption == IsFiniteSet(Tasks) /\ Stop \notin Tasks /\ None \notin Tasks
ASSUME SubmitsAssumption == Submits \in [Tasks -> SUBSET Tasks] /\ Initial \subseteq Tasks
(* A task is submitted by one other, by itself, or by VntInner::new, and   *)
(* by nobody else than VntInner::new and the tasks that it submits.        *)
ASSUME SubmittersAssumption ==
    /\ \A t, u, v \in Tasks :
          v \in Submits[t] /\ v \in Submits[u] /\ t # v /\ u # v => t = u
    /\ \A t, v \in Tasks : v \in Submits[t] /\ v # t => v \notin Initial
    /\ \A t, v \in Tasks : v \in Submits[t] /\ v # t => t \notin Submits[t]
    /\ \A v \in Tasks : v \in Initial \/ \E t \in Initial : v \in Submits[t]
ASSUME CapacityAssumption == CAPACITY \in Nat \ {0}

Clients == {"new", "task"}   \* VntInner::new, and the task that runs

VARIABLES
    state,      \* SchedulerState
    chan,       \* the channel of Ops
    connected,  \* the receiver exists
    heap,       \* tasks in binary_heap that are not due yet
    due,        \* tasks in binary_heap whose time has come, oldest first
    pc,         \* where run() is
    task,       \* the task run() executes, or None
    todo,       \* todo[c]: tasks client c has yet to submit
    passed,     \* passed[c]: a task whose timeout() saw state = Running
    shut,       \* shut[s]: where shutdown_now of thread s is
    late        \* number of tasks begun after shutdown_now set the state

vars == <<state, chan, connected, heap, due, pc, task, todo, passed, shut, late>>

Room == Len(chan) < CAPACITY

-----------------------------------------------------------------------------
(* timeout                                                                 *)

TimeoutCheck(c) ==
    /\ passed[c] = None
    /\ c = "task" => pc = "task"
    /\ \E t \in todo[c] :
          /\ todo' = [todo EXCEPT ![c] = @ \ {t}]
          /\ passed' = [passed EXCEPT ![c] = IF state = "Running" THEN t ELSE None]
    /\ UNCHANGED <<state, chan, connected, heap, due, pc, task, shut, late>>

(* try_send: Full and Disconnected drop the task. *)
Sent(c) == connected /\ Room
TrySend(c) ==
    /\ passed[c] # None
    /\ chan' = IF Sent(c) THEN Append(chan, passed[c]) ELSE chan
    /\ passed' = [passed EXCEPT ![c] = None]
    /\ UNCHANGED <<state, connected, heap, due, pc, task, todo, shut, late>>

-----------------------------------------------------------------------------
(* shutdown_now: the state first, then a send that blocks when full.       *)

ShutdownStore(s) ==
    /\ shut[s] = "idle"
    /\ state' = "ShutdownNow"
    /\ shut' = [shut EXCEPT ![s] = "send"]
    /\ UNCHANGED <<chan, connected, heap, due, pc, task, todo, passed, late>>

(* A send without a bound. *)
SendsAnyway == TRUE
SendReturns == Room \/ ~ connected
ShutdownSend(s) ==
    /\ shut[s] = "send" /\ SendReturns
    /\ chan' = IF connected THEN Append(chan, Stop) ELSE chan
    /\ shut' = [shut EXCEPT ![s] = "done"]
    /\ UNCHANGED <<state, connected, heap, due, pc, task, todo, passed, late>>

-----------------------------------------------------------------------------
(* run                                                                     *)

(* binary_heap.peek() and the test of the state, before every task.        *)
PeekNoTest == pc = "peek" /\ pc' = IF heap # {} \/ due # << >> THEN "timed" ELSE "drain"
PeekTest ==
    /\ pc = "peek"
    /\ pc' = IF heap = {} /\ due = << >> THEN "drain"
             ELSE IF state = "ShutdownNow" THEN "returned" ELSE "timed"
Peek ==
    /\ PeekTest
    /\ UNCHANGED <<state, chan, connected, heap, due, task, todo, passed, shut, late>>

(* A task that is run while it stays in the heap. *)
StaysInHeap == due
(* The head of the heap is due: it is popped and runs. *)
Popped == Tail(due)
RunTask ==
    /\ pc = "timed" /\ due # << >>
    /\ task' = Head(due) /\ due' = Popped
    /\ todo' = [todo EXCEPT !["task"] = Submits[Head(due)]]
    /\ late' = IF state = "ShutdownNow" THEN late + 1 ELSE late
    /\ pc' = "task"
    /\ UNCHANGED <<state, chan, connected, heap, passed, shut>>

TaskEnds ==
    /\ pc = "task" /\ todo["task"] = {} /\ passed["task"] = None
    /\ task' = None
    /\ pc' = "peek"
    /\ UNCHANGED <<state, chan, connected, heap, due, todo, passed, shut, late>>

(* Nothing is due: recv_timeout until the head is. *)
WaitForHead ==
    /\ pc = "timed" /\ due = << >>
    /\ pc' = "wait"
    /\ UNCHANGED <<state, chan, connected, heap, due, task, todo, passed, shut, late>>
WaitTimesOut ==
    /\ pc = "wait" /\ due # << >>
    /\ pc' = "peek"
    /\ UNCHANGED <<state, chan, connected, heap, due, task, todo, passed, shut, late>>

(* add_task, after a receive at the place "at": a task enters the heap and *)
(* the loop goes on at "back", Stop ends it.                               *)
(* A received task that never reaches the heap. *)
NotPushed == heap
Pushed == IF Head(chan) = Stop THEN heap ELSE heap \cup {Head(chan)}
(* A receive that takes Stop for one more wake-up. *)
StopIgnored(back) == IF Head(chan) = Stop THEN "peek" ELSE back
AfterReceive(back) == IF Head(chan) = Stop THEN "returned" ELSE back
Receive(at, back) ==
    /\ pc = at /\ chan # << >>
    /\ chan' = Tail(chan)
    /\ heap' = Pushed
    /\ pc' = AfterReceive(back)
    /\ UNCHANGED <<state, connected, due, task, todo, passed, shut, late>>

(* A thread that blocks with tasks in the heap. *)
AlwaysBlock == "recv"
AfterDrain == IF heap = {} /\ due = << >> THEN "recv" ELSE "peek"
(* try_recv finds nothing; with an empty heap the thread blocks in recv. *)
DrainEmpty ==
    /\ pc = "drain" /\ chan = << >>
    /\ pc' = AfterDrain
    /\ UNCHANGED <<state, chan, connected, heap, due, task, todo, passed, shut, late>>

(* The end of the thread: run drops the receiver with what is in it, then  *)
(* shutdown_now, whose send fails, and worker.stop_all().                  *)
ThreadEnds ==
    /\ pc = "returned"
    /\ state' = "ShutdownNow" /\ connected' = FALSE /\ chan' = << >>
    /\ heap' = {} /\ due' = << >>
    /\ pc' = "gone"
    /\ UNCHANGED <<task, todo, passed, shut, late>>

(* The time of a task in the heap comes. *)
BecomesDue(t) ==
    /\ t \in heap
    /\ heap' = heap \ {t} /\ due' = Append(due, t)
    /\ UNCHANGED <<state, chan, connected, pc, task, todo, passed, shut, late>>

-----------------------------------------------------------------------------
Init ==
    /\ state = "Running" /\ chan = << >> /\ connected = TRUE
    /\ heap = {} /\ due = << >> /\ pc = "peek" /\ task = None
    /\ todo = [c \in Clients |-> IF c = "new" THEN Initial ELSE {}]
    /\ passed = [c \in Clients |-> None]
    /\ shut = [s \in Shutters |-> "idle"] /\ late = 0

Run ==
    \/ Peek \/ RunTask \/ TaskEnds \/ WaitForHead \/ WaitTimesOut
    \/ Receive("wait", "peek") \/ Receive("drain", "drain")
    \/ Receive("recv", "peek") \/ DrainEmpty \/ ThreadEnds

Next ==
    \/ Run
    \/ \E c \in Clients : TimeoutCheck(c) \/ TrySend(c)
    \/ \E s \in Shutters : ShutdownStore(s) \/ ShutdownSend(s)
    \/ \E t \in Tasks : BecomesDue(t)

(* The threads go on when they can, and time passes. *)
Fairness ==
    /\ WF_vars(Run)
    /\ \A c \in Clients : WF_vars(TimeoutCheck(c) \/ TrySend(c))
    /\ \A s \in Shutters : WF_vars(ShutdownSend(s))
    /\ \A t \in Tasks : WF_vars(BecomesDue(t))

Spec == Init /\ [][Next]_vars
FairSpec == Spec /\ Fairness

-----------------------------------------------------------------------------
(* The types of the fields; the channel is never over its capacity.        *)
TypeOK ==
    /\ state \in {"Running", "ShutdownNow"} /\ connected \in BOOLEAN
    /\ chan \in Seq(Tasks \cup {Stop}) /\ Len(chan) <= CAPACITY
    /\ heap \subseteq Tasks /\ due \in Seq(Tasks)
    /\ pc \in {"peek", "timed", "task", "wait", "drain", "recv", "returned", "gone"}
    /\ task \in Tasks \cup {None}
    /\ todo \in [Clients -> SUBSET Tasks]
    /\ passed \in [Clients -> Tasks \cup {None}]
    /\ shut \in [Shutters -> {"idle", "send", "done"}]
    /\ late \in Nat

Present(t) ==
    \/ t \in Range(chan) \/ t \in heap \/ t \in Range(due)
    \/ \E c \in Clients : t \in todo[c] \/ t = passed[c]
(* t has been submitted, or will be by a task that is still to run. *)
Owner(t) == {u \in Tasks : u # t /\ t \in Submits[u]}
Periodic == {t \in Tasks : t \in Submits[t]}

(* While the scheduler runs, with no more tasks than the channel holds, no *)
(* maintenance task is lost: try_send on a full channel would drop it and  *)
(* nobody would ever submit it again.  A periodic task is queued, in the   *)
(* heap or being handed in, or the task that starts it is.                 *)
NoTaskLost ==
    state = "Running" =>
        \A t \in Periodic : Present(t) \/ \E u \in Owner(t) : Present(u)

(* With no more tasks than the channel holds, timeout never finds it full  *)
(* while the scheduler runs: tasks that submit tasks on the thread that    *)
(* drains the channel cannot fill it.                                      *)
NeverFull ==
    state = "Running" => \A c \in Clients : passed[c] # None => Room

(* ShutdownNow: "the remaining tasks in the queue are no longer executed". *)
(* The state is tested before every task, so at most the one task that had *)
(* passed the test begins after shutdown_now.                              *)
OneTaskAfterShutdown == late <= 1

(* shutdown_now returns, although it sends into a bounded channel with the *)
(* stop manager's lock held, and the scheduler thread ends.                *)
ShutdownCompletes ==
    \A s \in Shutters : (shut[s] = "send") ~> (shut[s] = "done" /\ pc = "gone")

(* While the scheduler runs every submitted task gets its turn: due tasks  *)
(* do not keep the thread from reading the channel for ever.               *)
TasksRun ==
    \A t \in Tasks : Present(t) ~> (task = t \/ state = "ShutdownNow")

(* No periodic task of the running scheduler is lost, and none is because  *)
(* timeout never meets a full channel.                                     *)
TasksKept == TypeOK /\ NoTaskLost /\ NeverFull
=============================================================================
