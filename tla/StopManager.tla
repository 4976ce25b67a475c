---------------------------- MODULE StopManager ----------------------------
(***************************************************************************)
(* The stop manager (util/notify.rs): every long-lived thread of a Vnt     *)
(* instance registers a listener and holds a Worker; stop() calls all      *)
(* listeners, a Worker that is dropped is taken off the count, and the     *)
(* last one wakes the threads in wait() and calls the stop callback.       *)
(*                                                                         *)
(* Every access to the shared fields is an action: a section under the     *)
(* listeners lock, an operation on the atomic counter, a section under     *)
(* the park_threads lock.  stop() keeps the listeners lock while it calls  *)
(* the listeners one by one, so the threads it wakes run in between.  The  *)
(* field "state" is written by stop() and never read: it is left out.      *)
(***************************************************************************)
EXTENDS Integers, FiniteSets

CONSTANTS
    Active,        \* threads that end by worker.stop_all(): Scheduler,
                   \* main_udp, sub_udp_listen, tcpChannel, wsChannel
    Passive,       \* threads that wait for their listener, then drop the
                   \* Worker: portMapping, ipProxy
    Replaceable,   \* successive tun devices: also ended by stop_self()
    Stoppers,      \* threads that call Vnt::stop
    Waiters,       \* threads that call Vnt::wait
    TimedWaiters,  \* threads that call Vnt::wait_timeout
    NoOne          \* holder of a free lock

Core == Active \cup Passive
Workers == Core \cup Replaceable
Sleepers == Waiters \cup TimedWaiters
Threads == Workers \cup Stoppers \cup Sleepers

ASSUME FiniteAssumption == IsFiniteSet(Workers)
ASSUME DisjointAssumption ==
    /\ Active \cap Passive = {} /\ Core \cap Replaceable = {}
    /\ Workers \cap Stoppers = {} /\ Workers \cap Sleepers = {}
    /\ Stoppers \cap Sleepers = {} /\ Waiters \cap TimedWaiters = {}
    /\ NoOne \notin Threads
(* Scheduler and main_udp are always started. *)
ASSUME ActiveAssumption == Active # {}

VARIABLES
    lock,          \* holder of the listeners lock between two actions
    stopped,       \* listeners.0
    listeners,     \* listeners.1: the workers whose listener is registered
    worker_num,    \* worker_num
    park_threads,  \* park_threads: sleepers to be unparked
    token,         \* token[s]: the park token of the thread s
    stop_call,     \* stop_call is still Some(f)
    calls,         \* how often the stop callback ran
    woken,         \* woken[w]: the listener of w was called
    aborted,       \* the worker whose thread could not be started, or NoOne
    pc             \* pc[t]: where the thread t is

vars == <<lock, stopped, listeners, worker_num, park_threads, token,
          stop_call, calls, woken, aborted, pc>>

(* The replaceable workers all register under the name "tun_device". *)
SameName(v, w) == v = w \/ {v, w} \subseteq Replaceable

Goto(t, there) == pc' = [pc EXCEPT ![t] = there]
Free == lock = NoOne

(* Where a worker is counted in worker_num. *)
Holding == {"running", "stop_all", "drain_all", "release", "sub"}
Places ==
    Holding \cup {"new", "refused", "unpark", "stop_call", "drain_call", "call",
                  "gone", "idle", "done", "load", "park", "recheck",
                  "returned", "timed_out"}
Counted == {w \in Workers : pc[w] \in Holding}

-----------------------------------------------------------------------------
(* add_listener.                                                           *)

(* Vnt::new registers the core workers and fails with the first error; a   *)
(* tun device is started by a receiving thread.                            *)
MayRegister(w) ==
    /\ pc[w] = "new"
    /\ w \in Core => aborted = NoOne /\ \A c \in Core : pc[c] # "refused"
    /\ w \in Replaceable =>
          \E c \in Active \ {aborted} : pc[c] \notin {"new", "refused"}

(* An add_listener that does not look at "stopped". *)
NotRefusedWhenStopped(w) == ~ \E v \in listeners : SameName(v, w)
Accepted(w) == ~ stopped /\ ~ \E v \in listeners : SameName(v, w)

(* An add_listener that counts before it can fail. *)
CountingFirst(w) ==
    /\ Free /\ MayRegister(w)
    /\ worker_num' = worker_num + 1
    /\ listeners' = IF Accepted(w) THEN listeners \cup {w} ELSE listeners
    /\ Goto(w, IF Accepted(w) THEN "running" ELSE "refused")
    /\ UNCHANGED <<lock, stopped, park_threads, token, stop_call, calls, woken,
                   aborted>>

Register(w, there) ==
    /\ listeners' = listeners \cup {w}
    /\ worker_num' = worker_num + 1
    /\ Goto(w, there)

AddListener(w) ==
    /\ Free /\ MayRegister(w)
    /\ IF Accepted(w)
       THEN Register(w, "running")
       ELSE /\ UNCHANGED <<listeners, worker_num>>
            /\ Goto(w, "refused")
    /\ UNCHANGED <<lock, stopped, park_threads, token, stop_call, calls, woken,
                   aborted>>

(* A core worker is registered, but its thread (or the runtime the thread  *)
(* is to run) cannot be started: the Worker is dropped with the closure    *)
(* and new_device0 returns with the error.                                 *)
SpawnFails(w) ==
    /\ Free /\ w \in Core /\ MayRegister(w) /\ Accepted(w)
    /\ Register(w, "release")
    /\ aborted' = w
    /\ UNCHANGED <<lock, stopped, park_threads, token, stop_call, calls, woken>>

(* new_device0 returns with an error between two registrations (a socket   *)
(* that cannot be bound): there will be no Vnt, and the workers registered *)
(* so far are left as they are.                                            *)
ConstructionFails(w) ==
    /\ w \in Core /\ MayRegister(w)
    /\ Goto(w, "refused")
    /\ UNCHANGED <<lock, stopped, listeners, worker_num, park_threads, token,
                   stop_call, calls, woken, aborted>>

-----------------------------------------------------------------------------
(* stop: the lock is held from StopBegin to StopEnd.                       *)

StopBegin(t, from, to) ==
    /\ pc[t] = from /\ Free
    /\ lock' = t /\ stopped' = TRUE
    /\ Goto(t, to)
    /\ UNCHANGED <<listeners, worker_num, park_threads, token, stop_call,
                   calls, woken, aborted>>

StopListener(t, at) ==
    /\ pc[t] = at
    /\ \E w \in listeners :
          /\ listeners' = listeners \ {w}
          /\ woken' = [woken EXCEPT ![w] = TRUE]
    /\ UNCHANGED <<lock, stopped, worker_num, park_threads, token, stop_call,
                   calls, aborted, pc>>

(* A drain that is left after the first listener. *)
DrainAbandoned == TRUE
Drained == listeners = {}
StopEnd(t, at, to) ==
    /\ pc[t] = at /\ Drained
    /\ lock' = NoOne
    /\ Goto(t, to)
    /\ UNCHANGED <<stopped, listeners, worker_num, park_threads, token,
                   stop_call, calls, woken, aborted>>

StopSteps(t, from, at, to) ==
    StopBegin(t, from, at) \/ StopListener(t, at) \/ StopEnd(t, at, to)

-----------------------------------------------------------------------------
(* The life of a worker.                                                   *)

(* The thread leaves its loop because its listener was called, or, when it *)
(* is not passive, on an error of its own; stop_all() is stop() and then   *)
(* the drop of the Worker.                                                 *)
(* A thread that ends by dropping its Worker only. *)
LeaveByDrop(w) == "release"
LeaveBy(w) == IF w \in Passive THEN "release" ELSE "stop_all"
Leave(w) ==
    /\ pc[w] = "running"
    /\ w \in Passive => woken[w]
    /\ Goto(w, LeaveBy(w))
    /\ UNCHANGED <<lock, stopped, listeners, worker_num, park_threads, token,
                   stop_call, calls, woken, aborted>>

(* TunDeviceHelper::stop drops the Worker of the tun thread: stop_self.    *)
StopSelf(w) ==
    /\ w \in Replaceable /\ pc[w] = "running"
    /\ Goto(w, "release")
    /\ UNCHANGED <<lock, stopped, listeners, worker_num, park_threads, token,
                   stop_call, calls, woken, aborted>>

(* release0: under the lock, the listener with this name is removed and    *)
(* called.                                                                 *)
Release(w) ==
    /\ pc[w] = "release" /\ Free
    /\ LET mine == {v \in listeners : SameName(v, w)}
       IN  /\ listeners' = listeners \ mine
           /\ woken' = [v \in Workers |-> woken[v] \/ v \in mine]
    /\ Goto(w, "sub")
    /\ UNCHANGED <<lock, stopped, worker_num, park_threads, token, stop_call,
                   calls, aborted>>

(* A release0 that is run explicitly and by the drop of the same Worker. *)
SubTwice(w) ==
    /\ pc[w] = "sub"
    /\ worker_num' = worker_num - 1
    /\ Goto(w, IF worker_num = 1 THEN "unpark" ELSE "sub")
    /\ UNCHANGED <<lock, stopped, listeners, park_threads, token, stop_call,
                   calls, woken, aborted>>

(* release0: worker_num.fetch_sub(1) and the test of what it returned.     *)
Sub(w) ==
    /\ pc[w] = "sub"
    /\ worker_num' = worker_num - 1
    /\ Goto(w, IF worker_num = 1 THEN "unpark" ELSE "gone")
    /\ UNCHANGED <<lock, stopped, listeners, park_threads, token, stop_call,
                   calls, woken, aborted>>

(* release0: park_threads.lock().drain(..), each of them unparked.         *)
Unpark(w) ==
    /\ pc[w] = "unpark"
    /\ token' = [s \in Sleepers |-> token[s] \/ s \in park_threads]
    /\ park_threads' = {}
    /\ Goto(w, "stop_call")
    /\ UNCHANGED <<lock, stopped, listeners, worker_num, stop_call, calls,
                   woken, aborted>>

(* stop_call, after its stop(): the callback is taken and called.          *)
StopCall(w) ==
    /\ pc[w] = "call"
    /\ calls' = IF stop_call THEN calls + 1 ELSE calls
    /\ stop_call' = FALSE
    /\ Goto(w, "gone")
    /\ UNCHANGED <<lock, stopped, listeners, worker_num, park_threads, token,
                   woken, aborted>>

-----------------------------------------------------------------------------
(* Users of a built Vnt: construction registered every core worker.        *)
Built == aborted = NoOne /\ \A c \in Core : pc[c] \notin {"new", "refused"}

CallStop(t) ==
    /\ pc[t] = "idle" /\ Built
    /\ Goto(t, "stop_all")
    /\ UNCHANGED <<lock, stopped, listeners, worker_num, park_threads, token,
                   stop_call, calls, woken, aborted>>

(* wait, wait_timeout: the thread enters park_threads, then reads the      *)
(* counter.                                                                *)
(* A wait that forgets to enter. *)
NotEntered(s) == park_threads
Entered(s) == park_threads \cup {s}
WaitEnter(s) ==
    /\ pc[s] = "idle" /\ Built
    /\ park_threads' = Entered(s)
    /\ Goto(s, "load")
    /\ UNCHANGED <<lock, stopped, listeners, worker_num, token, stop_call,
                   calls, woken, aborted>>

WaitLoad(s) ==
    /\ pc[s] = "load"
    /\ Goto(s, IF worker_num = 0 THEN "returned" ELSE "park")
    /\ UNCHANGED <<lock, stopped, listeners, worker_num, park_threads, token,
                   stop_call, calls, woken, aborted>>

(* After the park: wait loads again, wait_timeout rechecks.                *)
(* A wait that takes the end of its park for the end of the service. *)
TrustPark(s) == "returned"
AfterPark(s) == IF s \in Waiters THEN "load" ELSE "recheck"

(* thread::park returns when there is a token, and takes it. *)
ParkReturns(s) ==
    /\ pc[s] = "park" /\ token[s]
    /\ token' = [token EXCEPT ![s] = FALSE]
    /\ Goto(s, AfterPark(s))
    /\ UNCHANGED <<lock, stopped, listeners, worker_num, park_threads,
                   stop_call, calls, woken, aborted>>

(* thread::park may return without one, and park_timeout does when the     *)
(* time is up.                                                             *)
ParkEndsEarly(s) ==
    /\ pc[s] = "park" /\ ~ token[s]
    /\ Goto(s, AfterPark(s))
    /\ UNCHANGED <<lock, stopped, listeners, worker_num, park_threads, token,
                   stop_call, calls, woken, aborted>>

(* wait_timeout reads the counter once more and returns what it says. *)
WaitRecheck(s) ==
    /\ pc[s] = "recheck"
    /\ Goto(s, IF worker_num = 0 THEN "returned" ELSE "timed_out")
    /\ UNCHANGED <<lock, stopped, listeners, worker_num, park_threads, token,
                   stop_call, calls, woken, aborted>>

-----------------------------------------------------------------------------
Init ==
    /\ lock = NoOne /\ stopped = FALSE /\ listeners = {} /\ worker_num = 0
    /\ park_threads = {} /\ token = [s \in Sleepers |-> FALSE]
    /\ stop_call = TRUE /\ calls = 0 /\ aborted = NoOne
    /\ woken = [w \in Workers |-> FALSE]
    /\ pc = [t \in Threads |-> IF t \in Workers THEN "new" ELSE "idle"]

StopOfWorker(w) ==
    \/ StopSteps(w, "stop_all", "drain_all", "release")
    \/ StopSteps(w, "stop_call", "drain_call", "call")
Ends(w) == Release(w) \/ Sub(w) \/ Unpark(w) \/ StopCall(w)
StopOfStopper(t) == StopSteps(t, "stop_all", "drain_all", "done")
Sleeps(s) == WaitLoad(s) \/ ParkReturns(s) \/ WaitRecheck(s)

Next ==
    \/ \E w \in Workers :
          \/ AddListener(w) \/ SpawnFails(w) \/ ConstructionFails(w)
          \/ Leave(w) \/ StopSelf(w) \/ StopOfWorker(w) \/ Ends(w)
    \/ \E t \in Stoppers : CallStop(t) \/ StopOfStopper(t)
    \/ \E s \in Sleepers : WaitEnter(s) \/ ParkEndsEarly(s) \/ Sleeps(s)

(* A thread that can go on goes on; one whose listener was called leaves   *)
(* its loop.  Nothing forces a registration, an error, a call of stop or   *)
(* of wait.                                                                *)
Fairness ==
    /\ \A w \in Workers : /\ WF_vars(StopOfWorker(w)) /\ WF_vars(Ends(w))
                          /\ WF_vars(woken[w] /\ Leave(w))
    /\ \A t \in Stoppers : WF_vars(StopOfStopper(t))
    /\ \A s \in Sleepers : WF_vars(Sleeps(s))

Spec == Init /\ [][Next]_vars
FairSpec == Spec /\ Fairness

-----------------------------------------------------------------------------
(* The types of the fields; at most one thread is inside the lock.         *)
TypeOK ==
    /\ lock \in Threads \cup {NoOne} /\ stopped \in BOOLEAN
    /\ listeners \subseteq Workers /\ worker_num \in Nat
    /\ park_threads \subseteq Sleepers /\ token \in [Sleepers -> BOOLEAN]
    /\ stop_call \in BOOLEAN /\ calls \in Nat
    /\ woken \in [Workers -> BOOLEAN] /\ aborted \in Core \cup {NoOne}
    /\ pc \in [Threads -> Places]

(* worker_num, kept by fetch_add in add_listener and fetch_sub in release0 *)
(* outside of any lock, is the number of Workers that exist: an error path *)
(* of add_listener leaves none behind and a release is not counted twice.  *)
WorkerNumExact == worker_num = Cardinality(Counted)

(* Once a stop() is over, no running thread is left that was not told:     *)
(* add_listener and stop() agree on "stopped" under one lock, whatever     *)
(* registers, releases or stops in between.                                *)
NoDeafWorker ==
    stopped /\ Free => \A w \in Workers : pc[w] = "running" => woken[w]

(* wait() and a wait_timeout() that says true return only when the service *)
(* is over for good: no Worker exists then or later, although the counter  *)
(* is read without a lock and tun devices come and go.                     *)
WaitersReturnWhenOver ==
    (\E s \in Sleepers : pc[s] = "returned") => stopped /\ Counted = {}

(* The stop callback ("the service has stopped", VntCallback::stop) runs   *)
(* once, and after the last Worker is gone.                                *)
CallbackOnceWhenOver ==
    /\ calls <= 1
    /\ calls = 1 => stopped /\ Counted = {}

(* Once anything has stopped the service, every Worker is released and the *)
(* callback runs: no thread is left behind on the lock or on a listener.   *)
StopCompletes == stopped ~> (Counted = {} /\ calls = 1)

(* A thread in wait() returns once the service is stopped: the wake-up of  *)
(* the last release0 is not lost between the load of worker_num and the    *)
(* park.                                                                   *)
WaitersReturn ==
    \A s \in Waiters :
        (stopped /\ pc[s] \in {"load", "park"}) ~> (pc[s] = "returned")

(* The end is right: the count behind release0 is the number of workers,   *)
(* and wait, wait_timeout and the stop callback report an end that is one, *)
(* the callback once.                                                      *)
EndIsRight == TypeOK /\ WorkerNumExact /\ WaitersReturnWhenOver /\ CallbackOnceWhenOver

(* The stop manager, with its counter read and written outside of the lock *)
(* and its parked threads, is the service its users rely on: nobody joins  *)
(* after the stop, nobody is told and nothing announced before the last    *)
(* worker has parted, and who was told stays told (add_listener, stop,     *)
(* release0, wait and wait_timeout implement Lifecycle).                   *)
Returned == {s \in Sleepers : pc[s] = "returned"}
Service == INSTANCE Lifecycle
           WITH Members <- Workers, Watchers <- Sleepers, stopping <- stopped,
                alive <- Counted, told <- Returned, announced <- calls
ImplementsService == Service!Spec
=============================================================================
