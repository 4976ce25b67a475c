-------------------------- MODULE SchedulerProofs --------------------------
(***************************************************************************)
(* Theorems about Scheduler for every set of tasks, every capacity of the  *)
(* channel and any number of threads that shut it down.                    *)
(***************************************************************************)
EXTENDS Scheduler, SequenceTheorems, FiniteSetTheorems, FunctionTheorems, TLAPS

(* A task that began after shutdown_now was past the test of the state;    *)
(* the thread does not pass it again.                                      *)
TestedOnce ==
    /\ late \in {0, 1}
    /\ late = 1 => state = "ShutdownNow" /\ pc # "timed"
Inv == TypeOK /\ TestedOnce

LEMMA InitInv == Init => Inv
BY TasksAssumption, SubmitsAssumption, CapacityAssumption
DEF Init, Inv, TypeOK, TestedOnce, Clients

LEMMA RunStep ==
    ASSUME Inv, Run
    PROVE  Inv'
<1>1. CASE Peek
  BY <1>1 DEF Inv, TypeOK, TestedOnce, Peek, PeekTest
<1>2. CASE RunTask
  <2>1. Head(due) \in Tasks /\ Tail(due) \in Seq(Tasks) /\ Submits[Head(due)] \subseteq Tasks
    BY <1>2, SubmitsAssumption DEF Inv, TypeOK, RunTask
  <2>2. TypeOK'
    BY <1>2, <2>1 DEF Inv, TypeOK, RunTask, Popped, Clients
  <2>3. TestedOnce'
    BY <1>2 DEF Inv, TypeOK, TestedOnce, RunTask
  <2> QED
    BY <2>2, <2>3 DEF Inv
<1>3. CASE TaskEnds \/ WaitForHead \/ WaitTimesOut \/ DrainEmpty
  BY <1>3 DEF Inv, TypeOK, TestedOnce, TaskEnds, WaitForHead, WaitTimesOut, DrainEmpty,
              AfterDrain
<1>4. ASSUME NEW at \in {"wait", "drain", "recv"}, NEW back \in {"peek", "drain"},
             Receive(at, back)
      PROVE  Inv'
  <2>1. /\ Head(chan) \in Tasks \cup {Stop} /\ Tail(chan) \in Seq(Tasks \cup {Stop})
        /\ Len(Tail(chan)) <= CAPACITY
    BY <1>4, CapacityAssumption DEF Inv, TypeOK, Receive
  <2>2. heap' \subseteq Tasks /\ pc' \in {"peek", "drain", "returned"}
    BY <1>4, <2>1 DEF Inv, TypeOK, Receive, Pushed, AfterReceive
  <2>3. TypeOK'
    BY <1>4, <2>1, <2>2 DEF Inv, TypeOK, Receive
  <2>4. TestedOnce'
    BY <1>4, <2>2 DEF Inv, TestedOnce, Receive
  <2> QED
    BY <2>3, <2>4 DEF Inv
<1>5. CASE ThreadEnds
  <2>1. /\ chan' \in Seq(Tasks \cup {Stop}) /\ Len(chan') = 0
        /\ due' \in Seq(Tasks)
    BY <1>5 DEF ThreadEnds
  <2>2. Len(chan') <= CAPACITY
    BY <2>1, CapacityAssumption
  <2>3. /\ state' = "ShutdownNow" /\ connected' = FALSE /\ heap' = {} /\ pc' = "gone"
        /\ UNCHANGED <<task, todo, passed, shut, late>>
    BY <1>5 DEF ThreadEnds
  <2> QED
    BY <2>1, <2>2, <2>3 DEF Inv, TypeOK, TestedOnce
<1> QED
  BY <1>1, <1>2, <1>3, <1>4, <1>5 DEF Run

LEMMA ClientStep ==
    ASSUME Inv, NEW c \in Clients, TimeoutCheck(c) \/ TrySend(c)
    PROVE  Inv'
<1>1. CASE TimeoutCheck(c)
  BY <1>1 DEF Inv, TypeOK, TestedOnce, TimeoutCheck
<1>2. CASE TrySend(c)
  <2>1. CASE Sent(c)
    <3>1. /\ Append(chan, passed[c]) \in Seq(Tasks \cup {Stop})
          /\ Len(Append(chan, passed[c])) <= CAPACITY
      BY <1>2, <2>1, CapacityAssumption DEF Inv, TypeOK, TrySend, Sent, Room
    <3> QED
      BY <1>2, <2>1, <3>1 DEF Inv, TypeOK, TestedOnce, TrySend
  <2>2. CASE ~ Sent(c)
    BY <1>2, <2>2 DEF Inv, TypeOK, TestedOnce, TrySend
  <2> QED
    BY <2>1, <2>2
<1> QED
  BY <1>1, <1>2

LEMMA ShutterStep ==
    ASSUME Inv, NEW s \in Shutters, ShutdownStore(s) \/ ShutdownSend(s)
    PROVE  Inv'
<1>1. CASE ShutdownStore(s)
  BY <1>1 DEF Inv, TypeOK, TestedOnce, ShutdownStore
<1>2. CASE ShutdownSend(s)
  <2>1. connected => /\ Append(chan, Stop) \in Seq(Tasks \cup {Stop})
                     /\ Len(Append(chan, Stop)) <= CAPACITY
    BY <1>2, CapacityAssumption DEF Inv, TypeOK, ShutdownSend, SendReturns, Room
  <2> QED
    BY <1>2, <2>1 DEF Inv, TypeOK, TestedOnce, ShutdownSend
<1> QED
  BY <1>1, <1>2

LEMMA NextInv == Inv /\ [Next]_vars => Inv'
<1> SUFFICES ASSUME Inv, [Next]_vars PROVE Inv'
  OBVIOUS
<1>1. ASSUME NEW t \in Tasks, BecomesDue(t)
      PROVE  Inv'
  BY <1>1 DEF Inv, TypeOK, TestedOnce, BecomesDue
<1>2. CASE UNCHANGED vars
  BY <1>2 DEF vars, Inv, TypeOK, TestedOnce
<1> QED
  BY <1>1, <1>2, RunStep, ClientStep, ShutterStep DEF Next

(* The inductive invariant holds in every state of the scheduler. *)
THEOREM Invariance == Spec => []Inv
BY InitInv, NextInv, PTL DEF Spec

(* TypeOK for every capacity: the channel never holds more than it can,    *)
(* whoever sends.                                                          *)
THEOREM Types == Spec => []TypeOK
<1>1. Inv => TypeOK
  BY DEF Inv
<1> QED
  BY <1>1, Invariance, PTL

(* OneTaskAfterShutdown for any tasks and threads: after shutdown_now at   *)
(* most one task begins.                                                   *)
THEOREM OneLateTask == Spec => []OneTaskAfterShutdown
<1>1. Inv => OneTaskAfterShutdown
  BY DEF Inv, TestedOnce, OneTaskAfterShutdown
<1> QED
  BY <1>1, Invariance, PTL

-----------------------------------------------------------------------------
(* No task is lost.                                                        *)

(* Tasks that may be with the scheduler at the same time: a task that      *)
(* submits others runs once and is gone when they come.                    *)
Together(S) == \A t, v \in S : v \in Submits[t] => v = t
(* They fit into the channel: nine tasks of the client, 32 places. *)
ChannelFits == \A S \in SUBSET Tasks : Together(S) => Cardinality(S) <= CAPACITY

(* What no thread does before shutdown_now. *)
Undisturbed ==
    /\ connected /\ pc \notin {"returned", "gone"} /\ Stop \notin Range(chan)
    /\ \A s \in Shutters : shut[s] = "idle"
    /\ pc # "task" => todo["task"] = {} /\ passed["task"] = None

(* A task is in one place: the channel, the heap, and what VntInner::new   *)
(* and the task that runs have yet to hand in.                             *)
Elsewhere(t) ==
    /\ t \notin heap /\ t \notin Range(due)
    /\ \A c \in Clients : t \notin todo[c] /\ t # passed[c]
Separate ==
    /\ \A t \in Range(chan) : Elsewhere(t)
    /\ \A t \in heap : t \notin Range(due) /\ \A c \in Clients : t \notin todo[c] /\ t # passed[c]
    /\ \A t \in Range(due) : \A c \in Clients : t \notin todo[c] /\ t # passed[c]
    /\ \A t \in Tasks : \A c, d \in Clients :
          /\ t \in todo[c] => t # passed[d]
          /\ t \in todo[c] /\ t \in todo[d] => c = d
          /\ t = passed[c] /\ t = passed[d] => c = d

(* It is there once. *)
Single == IsInjective(chan) /\ IsInjective(due)

(* A task that submits others is gone when they come. *)
Family == \A t, v \in Tasks : v \in Submits[t] /\ v # t /\ Present(v) => ~ Present(t)

Kept == state = "Running" => Undisturbed /\ Separate /\ Single /\ Family /\ NoTaskLost
KInv == Inv /\ Kept

LEMMA RangeOfAppend ==
    ASSUME NEW S, NEW s \in Seq(S), NEW e \in S
    PROVE  /\ Range(Append(s, e)) = Range(s) \cup {e}
           /\ IsInjective(s) /\ e \notin Range(s) => IsInjective(Append(s, e))
<1>1. /\ DOMAIN s = 1 .. Len(s) /\ DOMAIN Append(s, e) = 1 .. Len(s) + 1 /\ Len(s) \in Nat
      /\ Append(s, e)[Len(s) + 1] = e
      /\ \A i \in 1 .. Len(s) : Append(s, e)[i] = s[i]
  OBVIOUS
<1> DEFINE a == Append(s, e)
<1> HIDE DEF a
<1>2. /\ DOMAIN a = 1 .. Len(s) + 1 /\ a[Len(s) + 1] = e
      /\ \A i \in 1 .. Len(s) : a[i] = s[i]
      /\ \A i \in 1 .. Len(s) + 1 : i \in 1 .. Len(s) \/ i = Len(s) + 1
  BY <1>1 DEF a
<1>3. Range(a) \subseteq Range(s) \cup {e}
  BY <1>1, <1>2 DEF Range
<1>4. Range(s) \cup {e} \subseteq Range(a)
  <2>1. e \in Range(a)
    BY <1>1, <1>2 DEF Range
  <2>2. \A i \in 1 .. Len(s) : i \in DOMAIN a /\ a[i] = s[i]
    BY <1>1, <1>2
  <2> QED
    BY <1>1, <2>1, <2>2 DEF Range
<1>5. ASSUME IsInjective(s), e \notin Range(s) PROVE IsInjective(a)
  <2>1. \A i \in 1 .. Len(s) : s[i] # e
    BY <1>1, <1>5 DEF Range
  <2> QED
    BY <1>1, <1>2, <1>5, <2>1 DEF IsInjective
<1> QED
  BY <1>3, <1>4, <1>5 DEF a

LEMMA RangeOfTail ==
    ASSUME NEW S, NEW s \in Seq(S), s # << >>, IsInjective(s)
    PROVE  /\ Head(s) \in Range(s) /\ Range(Tail(s)) = Range(s) \ {Head(s)}
           /\ IsInjective(Tail(s))
<1> DEFINE a == Tail(s)
<1>1. /\ DOMAIN s = 1 .. Len(s) /\ DOMAIN a = 1 .. Len(s) - 1 /\ Len(s) \in Nat \ {0}
      /\ Head(s) = s[1] /\ \A i \in 1 .. Len(s) - 1 : a[i] = s[i + 1]
  OBVIOUS
<1> HIDE DEF a
<1>2. Head(s) \in Range(s)
  BY <1>1 DEF Range
<1>3. \A i \in 1 .. Len(s) - 1 : i + 1 \in 1 .. Len(s) /\ a[i] = s[i + 1] /\ s[i + 1] # s[1]
  BY <1>1 DEF IsInjective
<1>4. Range(a) \subseteq Range(s) \ {Head(s)}
  BY <1>1, <1>3 DEF Range
<1>5. Range(s) \ {Head(s)} \subseteq Range(a)
  <2> SUFFICES ASSUME NEW i \in 1 .. Len(s), s[i] # s[1] PROVE s[i] \in Range(a)
    BY <1>1 DEF Range
  <2>1. i - 1 \in 1 .. Len(s) - 1 /\ (i - 1) + 1 = i
    BY <1>1
  <2>2. a[i - 1] = s[i]
    BY <1>1, <2>1
  <2> QED
    BY <1>1, <2>1, <2>2 DEF Range
<1>6. IsInjective(a)
  <2> SUFFICES ASSUME NEW i \in 1 .. Len(s) - 1, NEW j \in 1 .. Len(s) - 1, a[i] = a[j]
               PROVE  i = j
    BY <1>1 DEF IsInjective
  <2>1. s[i + 1] = s[j + 1] /\ i + 1 \in DOMAIN s /\ j + 1 \in DOMAIN s
    BY <1>1, <1>3
  <2>2. i + 1 = j + 1
    BY <2>1 DEF IsInjective
  <2> QED
    BY <2>2
<1> QED
  BY <1>2, <1>4, <1>5, <1>6 DEF a

(* A task that is being handed in is in no other place, so there are fewer *)
(* in the channel than it holds.                                           *)
LEMMA RoomForOneMore ==
    ASSUME KInv, ChannelFits, state = "Running", NEW c \in Clients, passed[c] # None
    PROVE  Room
<1> DEFINE t == passed[c]
           s == Append(chan, t)
           S == Range(chan) \cup {t}
<1>1. t \in Tasks /\ chan \in Seq(Tasks \cup {Stop}) /\ Len(chan) \in Nat
      /\ Stop \notin Range(chan)
  BY DEF KInv, Inv, TypeOK, Kept, Undisturbed
<1>2. t \notin Range(chan) /\ IsInjective(chan)
  BY DEF KInv, Kept, Separate, Elsewhere, Single
<1>3. Range(chan) \subseteq Tasks
  BY <1>1 DEF Range
<1>4. \A u \in S : Present(u) /\ u \in Tasks
  BY <1>1, <1>3 DEF Present
<1>5. Together(S)
  BY <1>4 DEF KInv, Kept, Family, Together
<1>6. IsFiniteSet(S) /\ Cardinality(S) <= CAPACITY
  <2>1. S \in SUBSET Tasks
    BY <1>4
  <2> HIDE DEF S
  <2> QED
    BY <1>5, <2>1, TasksAssumption, FS_Subset DEF ChannelFits
<1>7. /\ Range(s) = S /\ IsInjective(s) /\ s \in Seq(Tasks \cup {Stop})
      /\ Len(s) = Len(chan) + 1
  BY <1>1, <1>2, RangeOfAppend
<1>8. s \in Injection(1 .. Len(s), S)
  <2> HIDE DEF s
  <2>0. s \in [1 .. Len(s) -> Tasks \cup {Stop}]
    BY <1>7
  <2>1. s \in [1 .. Len(s) -> S]
    BY <1>7, <2>0 DEF Range
  <2> QED
    BY <1>7, <2>1 DEF Injection
<1>9. Len(s) <= Cardinality(S) /\ Cardinality(S) \in Nat
  <2>1. Cardinality(1 .. Len(s)) = Len(s)
    BY <1>1, <1>7, FS_Interval
  <2>2. Cardinality(1 .. Len(s)) <= Cardinality(S)
    BY <1>6, <1>8, FS_Injection
  <2>3. Cardinality(S) \in Nat
    BY <1>6, FS_CardinalityType
  <2> QED
    BY <2>1, <2>2, <2>3
<1> QED
  BY <1>1, <1>6, <1>7, <1>9, CapacityAssumption DEF Room

-----------------------------------------------------------------------------
(* A step that moves tasks from one place to another. *)
LEMMA Moves ==
    ASSUME KInv, state = "Running", \A t \in Tasks : Present(t)' <=> Present(t)
    PROVE  Family' /\ NoTaskLost'
<1>1. Family /\ NoTaskLost
  BY DEF KInv, Kept
<1>2. Family'
  BY <1>1 DEF Family
<1>3. NoTaskLost'
  BY <1>1 DEF NoTaskLost, Periodic, Owner
<1> QED
  BY <1>2, <1>3

LEMMA InitKept == Init => Kept
<1> SUFFICES ASSUME Init PROVE Kept
  OBVIOUS
<1>1. Range(chan) = {} /\ Range(due) = {} /\ IsInjective(chan) /\ IsInjective(due)
  BY DEF Init, Range, IsInjective
<1>2. \A t \in Tasks : Present(t) <=> t \in Initial
  BY <1>1, TasksAssumption DEF Init, Present, Clients
<1>3. Undisturbed
  BY <1>1 DEF Init, Undisturbed, Clients
<1>4. Separate
  BY <1>1, TasksAssumption DEF Init, Separate, Elsewhere, Clients
<1>5. Family
  BY <1>2, SubmittersAssumption DEF Family
<1>6. NoTaskLost
  BY <1>2, SubmittersAssumption, SubmitsAssumption DEF NoTaskLost, Periodic, Owner
<1> QED
  BY <1>1, <1>3, <1>4, <1>5, <1>6 DEF Kept, Single

LEMMA TimeoutKept ==
    ASSUME KInv, state = "Running", NEW c \in Clients, TimeoutCheck(c)
    PROVE  Kept'
<1>1. PICK t \in todo[c] : /\ todo' = [todo EXCEPT ![c] = @ \ {t}]
                           /\ passed' = [passed EXCEPT ![c] = t]
  BY DEF TimeoutCheck
<1>2. /\ passed[c] = None /\ (c = "task" => pc = "task")
      /\ UNCHANGED <<state, chan, connected, heap, due, pc, task, shut>>
  BY DEF TimeoutCheck
<1>3. /\ todo \in [Clients -> SUBSET Tasks] /\ passed \in [Clients -> Tasks \cup {None}]
      /\ t \in Tasks /\ None \notin Tasks
  BY TasksAssumption DEF KInv, Inv, TypeOK
<1>4. Undisturbed /\ Separate /\ Single
  BY DEF KInv, Kept
<1>5. \A u \in Tasks : Present(u)' <=> Present(u)
  BY <1>1, <1>2, <1>3 DEF Present
<1>6. Undisturbed'
  BY <1>1, <1>2, <1>3, <1>4 DEF Undisturbed, Clients
<1>7. Separate'
  BY <1>1, <1>2, <1>3, <1>4 DEF Separate, Elsewhere
<1> QED
  BY <1>2, <1>4, <1>5, <1>6, <1>7, Moves DEF Kept, Single

LEMMA SendKept ==
    ASSUME KInv, ChannelFits, state = "Running", NEW c \in Clients, TrySend(c)
    PROVE  Kept'
<1>0. PICK t \in Tasks : t = passed[c]
  BY DEF TrySend, KInv, Inv, TypeOK
<1>1. Undisturbed /\ Separate /\ Single /\ connected
  BY DEF KInv, Kept, Undisturbed
<1>2. Room
  BY RoomForOneMore DEF TrySend
<1>3. /\ chan' = Append(chan, t) /\ passed' = [passed EXCEPT ![c] = None] /\ t # None
      /\ UNCHANGED <<state, connected, heap, due, pc, task, todo, shut>>
  BY <1>0, <1>1, <1>2 DEF TrySend, Sent
<1>4. /\ todo \in [Clients -> SUBSET Tasks] /\ passed \in [Clients -> Tasks \cup {None}]
      /\ t \in Tasks /\ None \notin Tasks /\ Stop \notin Tasks /\ chan \in Seq(Tasks \cup {Stop})
  BY <1>0, TasksAssumption DEF KInv, Inv, TypeOK
<1>5. t \notin Range(chan)
  BY <1>0, <1>1 DEF Separate, Elsewhere
<1>6. Range(chan') = Range(chan) \cup {t} /\ IsInjective(chan')
  BY <1>1, <1>3, <1>4, <1>5, RangeOfAppend DEF Single
<1>7. \A u \in Tasks : Present(u)' <=> Present(u)
  BY <1>0, <1>3, <1>4, <1>6 DEF Present
<1>8. Undisturbed'
  BY <1>1, <1>3, <1>4, <1>6 DEF Undisturbed, Clients
<1>9. Separate'
  <2>1. heap \subseteq Tasks /\ Range(due) \subseteq Tasks
    BY DEF KInv, Inv, TypeOK, Range
  <2>2. Elsewhere(t)'
    BY <1>0, <1>1, <1>3, <1>4 DEF Separate, Elsewhere
  <2>3. \A u \in Range(chan) : Elsewhere(u)'
    <3>1. Range(chan) \subseteq Tasks
      BY <1>1, <1>4 DEF Range, Undisturbed
    <3> QED
      BY <1>1, <1>3, <1>4, <3>1 DEF Separate, Elsewhere
  <2> QED
    BY <1>1, <1>3, <1>4, <1>6, <2>1, <2>2, <2>3 DEF Separate
<1> QED
  BY <1>1, <1>3, <1>6, <1>7, <1>8, <1>9, Moves DEF Kept, Single

LEMMA ReceiveKept ==
    ASSUME KInv, state = "Running", NEW at \in {"wait", "drain", "recv"},
           NEW back \in {"peek", "drain"}, Receive(at, back)
    PROVE  Kept'
<1>1. Undisturbed /\ Separate /\ Single
  BY DEF KInv, Kept
<1>2. chan \in Seq(Tasks \cup {Stop}) /\ chan # << >>
  BY DEF Receive, KInv, Inv, TypeOK
<1>3. PICK t : t = Head(chan)
  OBVIOUS
<1>4. /\ t \in Range(chan) /\ Range(chan') = Range(chan) \ {t} /\ IsInjective(chan')
  BY <1>1, <1>2, <1>3, RangeOfTail DEF Receive, Single
<1>5. t \in Tasks /\ Range(chan) \subseteq Tasks /\ t # Stop
  BY <1>1, <1>2, <1>4 DEF Undisturbed, Range
<1>6. /\ heap' = heap \cup {t} /\ pc' = back /\ pc = at
      /\ UNCHANGED <<state, connected, due, task, todo, passed, shut>>
  BY <1>3, <1>5 DEF Receive, Pushed, AfterReceive
<1>7. \A u \in Tasks : Present(u)' <=> Present(u)
  BY <1>4, <1>6 DEF Present
<1>8. Undisturbed'
  BY <1>1, <1>4, <1>6 DEF Undisturbed
<1>9. Separate'
  BY <1>1, <1>4, <1>6 DEF Separate, Elsewhere
<1> QED
  BY <1>1, <1>4, <1>6, <1>7, <1>8, <1>9, Moves DEF Kept, Single

LEMMA DueKept ==
    ASSUME KInv, state = "Running", NEW t \in Tasks, BecomesDue(t)
    PROVE  Kept'
<1>1. Undisturbed /\ Separate /\ Single
  BY DEF KInv, Kept
<1>2. /\ t \in heap /\ heap' = heap \ {t} /\ due' = Append(due, t)
      /\ UNCHANGED <<state, chan, connected, pc, task, todo, passed, shut>>
  BY DEF BecomesDue
<1>3. due \in Seq(Tasks) /\ t \notin Range(due)
  BY <1>1, <1>2 DEF KInv, Inv, TypeOK, Separate
<1>4. Range(due') = Range(due) \cup {t} /\ IsInjective(due')
  BY <1>1, <1>2, <1>3, RangeOfAppend DEF Single
<1>5. \A u \in Tasks : Present(u)' <=> Present(u)
  BY <1>2, <1>4 DEF Present
<1>6. Undisturbed'
  BY <1>1, <1>2 DEF Undisturbed
<1>7. Separate'
  BY <1>1, <1>2, <1>4 DEF Separate, Elsewhere
<1> QED
  BY <1>1, <1>2, <1>4, <1>5, <1>6, <1>7, Moves DEF Kept, Single

(* The task that runs is nowhere else, and what it submits is nowhere yet. *)
LEMMA RunTaskKept ==
    ASSUME KInv, state = "Running", RunTask
    PROVE  Kept'
<1>1. Undisturbed /\ Separate /\ Single /\ Family /\ NoTaskLost
  BY DEF KInv, Kept
<1>2. /\ due \in Seq(Tasks) /\ due # << >> /\ heap \subseteq Tasks
      /\ todo \in [Clients -> SUBSET Tasks] /\ passed \in [Clients -> Tasks \cup {None}]
      /\ None \notin Tasks /\ Range(chan) \subseteq Tasks /\ Range(due) \subseteq Tasks
      /\ "task" \in Clients
  BY <1>1, TasksAssumption DEF RunTask, KInv, Inv, TypeOK, Undisturbed, Range, Clients
<1>3. PICK t \in Tasks : t = Head(due)
  BY <1>2
<1>4. Submits[t] \subseteq Tasks
  BY SubmitsAssumption
<1>5. /\ due' = Tail(due) /\ todo' = [todo EXCEPT !["task"] = Submits[t]]
      /\ pc = "timed" /\ pc' = "task"
      /\ UNCHANGED <<state, chan, connected, heap, passed, shut>>
  BY <1>3 DEF RunTask, Popped
<1>6. t \in Range(due) /\ Range(due') = Range(due) \ {t} /\ IsInjective(due')
  BY <1>1, <1>2, <1>3, <1>5, RangeOfTail DEF Single
<1>7. todo["task"] = {} /\ passed["task"] = None
  BY <1>1, <1>5 DEF Undisturbed
<1>8. Present(t) /\ \A v \in Submits[t] : v # t => ~ Present(v)
  BY <1>1, <1>3, <1>4, <1>6 DEF Present, Family
<1>9. \A u \in Tasks : Present(u)' <=> (Present(u) /\ u # t) \/ u \in Submits[t]
  <2>1. t \notin Range(chan) /\ t \notin heap /\ \A c \in Clients : t \notin todo[c] /\ t # passed[c]
    BY <1>1, <1>6 DEF Separate, Elsewhere
  <2> QED
    BY <1>2, <1>5, <1>6, <1>7, <2>1 DEF Present
<1>10. Undisturbed'
  BY <1>1, <1>5 DEF Undisturbed
<1>11. Separate'
  <2>1. ASSUME NEW v \in Submits[t]
        PROVE  /\ v \notin Range(chan) /\ v \notin heap /\ v \notin Range(due')
               /\ \A c \in Clients : v \notin todo[c] /\ v # passed[c]
    <3>1. CASE v = t
      BY <1>1, <1>6, <3>1 DEF Separate, Elsewhere
    <3>2. CASE v # t
      BY <1>4, <1>6, <1>8, <3>2 DEF Present
    <3> QED
      BY <3>1, <3>2
  <2>2. \A c \in Clients : c # "task" => todo'[c] = todo[c]
    BY <1>2, <1>5
  <2>3. todo'["task"] = Submits[t]
    BY <1>2, <1>5
  <2>4. ASSUME NEW u \in Tasks, NEW c \in Clients, u \in todo'[c]
        PROVE  u \in todo[c] \/ (c = "task" /\ u \in Submits[t])
    BY <2>2, <2>3, <2>4
  <2>5. /\ \A u \in Range(chan)' : Elsewhere(u)'
        /\ \A u \in heap' : u \notin Range(due') /\ \A c \in Clients : u \notin todo'[c] /\ u # passed'[c]
        /\ \A u \in Range(due') : \A c \in Clients : u \notin todo'[c] /\ u # passed'[c]
    BY <1>1, <1>2, <1>5, <1>6, <2>1, <2>4 DEF Separate, Elsewhere
  <2>6. ASSUME NEW u \in Tasks, NEW c \in Clients, NEW d \in Clients
        PROVE  /\ u \in todo'[c] => u # passed'[d]
               /\ u \in todo'[c] /\ u \in todo'[d] => c = d
               /\ u = passed'[c] /\ u = passed'[d] => c = d
    BY <1>1, <1>5, <2>1, <2>4 DEF Separate
  <2> QED
    BY <2>5, <2>6 DEF Separate
<1>12. Family'
  <2> SUFFICES ASSUME NEW u \in Tasks, NEW v \in Tasks, v \in Submits[u], v # u,
                      Present(v)', Present(u)'
               PROVE  FALSE
    BY DEF Family
  <2>1. CASE u \in Submits[t]
    <3>1. CASE u = t
      BY <2>1, <3>1, SubmittersAssumption
    <3>2. CASE u # t
      \* a task that another submits submits nothing but itself
      BY <1>3, <2>1, <3>2, SubmittersAssumption, SubmitsAssumption
    <3> QED
      BY <3>1, <3>2
  <2>2. CASE u \notin Submits[t]
    <3>1. Present(u) /\ u # t
      BY <1>9, <2>2
    <3>2. ~ Present(v)
      BY <1>1, <3>1 DEF Family
    <3>3. v \in Submits[t]
      BY <1>9, <3>2
    <3>4. v # t
      BY <1>8, <3>2
    <3> QED
      BY <1>3, <3>1, <3>3, <3>4, SubmittersAssumption
  <2> QED
    BY <2>1, <2>2
<1>13. NoTaskLost'
  <2> SUFFICES ASSUME NEW p \in Periodic PROVE Present(p)' \/ \E u \in Owner(p) : Present(u)'
    BY DEF NoTaskLost, Periodic, Owner
  <2>1. p \in Tasks /\ p \in Submits[p]
    BY DEF Periodic
  <2>2. CASE Present(p)
    BY <1>9, <2>1, <2>2
  <2>3. CASE \E u \in Owner(p) : Present(u)
    <3>1. PICK u \in Owner(p) : Present(u)
      BY <2>3
    <3>2. u \in Tasks /\ p \in Submits[u]
      BY DEF Owner
    <3> QED
      BY <1>9, <2>1, <3>1, <3>2
  <2> QED
    BY <1>1, <2>2, <2>3 DEF NoTaskLost
<1> QED
  BY <1>1, <1>6, <1>5, <1>10, <1>11, <1>12, <1>13 DEF Kept, Single

(* The thread goes on without touching a task. *)
LEMMA IdleKept ==
    ASSUME KInv, state = "Running",
           Peek \/ TaskEnds \/ WaitForHead \/ WaitTimesOut \/ DrainEmpty \/ UNCHANGED vars
    PROVE  Kept'
<1>1. Undisturbed /\ Separate /\ Single
  BY DEF KInv, Kept
<1>2. UNCHANGED <<state, chan, connected, heap, due, todo, passed, shut>>
  BY DEF Peek, TaskEnds, WaitForHead, WaitTimesOut, DrainEmpty, vars
<1>3. \A u \in Tasks : Present(u)' <=> Present(u)
  BY <1>2 DEF Present
<1>4. Undisturbed'
  BY <1>1, <1>2 DEF Undisturbed, Peek, PeekTest, TaskEnds, WaitForHead, WaitTimesOut,
                    DrainEmpty, AfterDrain, vars
<1>5. Separate'
  BY <1>1, <1>2 DEF Separate, Elsewhere
<1> QED
  BY <1>1, <1>2, <1>3, <1>4, <1>5, Moves DEF Kept, Single

LEMMA NextKept ==
    ASSUME ChannelFits
    PROVE  KInv /\ [Next]_vars => KInv'
<1> SUFFICES ASSUME KInv, [Next]_vars PROVE KInv'
  OBVIOUS
<1>1. Inv'
  BY NextInv DEF KInv
<1>2. CASE state' # "Running"
  BY <1>1, <1>2 DEF KInv, Kept
<1>3. CASE state' = "Running"
  <2>1. state = "Running"
    BY <1>3 DEF Next, vars, Run, Peek, RunTask, TaskEnds, WaitForHead, WaitTimesOut, Receive,
                DrainEmpty, ThreadEnds, TimeoutCheck, TrySend, ShutdownStore, ShutdownSend,
                BecomesDue
  <2>2. CASE Run
    <3>1. ~ ThreadEnds
      BY <1>3 DEF ThreadEnds
    <3> QED
      BY <1>1, <2>1, <2>2, <3>1, IdleKept, RunTaskKept, ReceiveKept DEF Run, KInv
  <2>3. ASSUME NEW s \in Shutters, ShutdownStore(s) \/ ShutdownSend(s)
        PROVE  FALSE
    BY <1>3, <2>1, <2>3 DEF ShutdownStore, ShutdownSend, KInv, Kept, Undisturbed
  <2>4. CASE UNCHANGED vars
    BY <1>1, <2>1, <2>4, IdleKept DEF KInv
  <2> QED
    BY <1>1, <2>1, <2>2, <2>3, <2>4, TimeoutKept, SendKept, DueKept DEF Next, KInv
<1> QED
  BY <1>2, <1>3

(* TasksKept for any set of tasks of which those that may be with the      *)
(* scheduler together fit into the channel: while the scheduler runs,      *)
(* timeout never meets a full channel and no periodic task is dropped,     *)
(* although tasks submit tasks on the very thread that drains the channel. *)
THEOREM NoneLost ==
    ASSUME ChannelFits
    PROVE  Spec => []TasksKept
<1>1. Init => KInv
  BY InitInv, InitKept DEF KInv
<1>2. KInv /\ [Next]_vars => KInv'
  BY NextKept
<1>3. KInv => TasksKept
  <2> SUFFICES ASSUME KInv PROVE TasksKept
    OBVIOUS
  <2>1. TypeOK /\ NoTaskLost
    BY DEF KInv, Inv, Kept, NoTaskLost
  <2>2. NeverFull
    BY RoomForOneMore DEF NeverFull
  <2> QED
    BY <2>1, <2>2 DEF TasksKept
<1> QED
  BY <1>1, <1>2, <1>3, PTL DEF Spec
=============================================================================
