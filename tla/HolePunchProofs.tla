-------------------------- MODULE HolePunchProofs --------------------------
(***************************************************************************)
(* Theorems about HolePunch for any number of clients, every length of the *)
(* intervals and any number of messages on their way.                      *)
(***************************************************************************)
EXTENDS HolePunch, TLAPS

(* What the threads do and what the messages are. *)
Jobs == {Waiting} \cup Job
Messages == [reply : BOOLEAN, src : Nodes, dst : Nodes, info : NatInfo]
Typed ==
    /\ job \in [Nodes -> [ThreadKinds -> Jobs]]
    /\ net \subseteq Messages

(* The client with the smaller virtual ip asks, the other one answers:     *)
(* the count that a round forgets is never the one an answer rests on.     *)
Directed ==
    /\ \A m \in net : IF m.reply THEN m.src > m.dst ELSE m.src < m.dst
    /\ \A n \in Nodes : \A t \in NatTypes :
          /\ job[n][<<t, FALSE>>].peer # 0 => job[n][<<t, FALSE>>].peer > n
          /\ job[n][<<t, TRUE>>].peer # 0 => job[n][<<t, TRUE>>].peer < n

(* A request that a thread has counted is in the record: the job may end,  *)
(* and what rested on it rests on the count.                               *)
CountedJobs ==
    \A n \in Nodes : \A t \in NatTypes :
        LET j == job[n][<<t, TRUE>>] IN j # Waiting /\ j.counted => record[n][j.peer] > 0

Inv == TypeOK /\ Typed /\ Directed /\ CountedJobs /\ AnsweredIsTaken

-----------------------------------------------------------------------------
(* A counter that grows stays within its bound, and is not 0. *)
LEMMA Grows ==
    ASSUME NEW bound \in Nat \ {0}, NEW v \in 0 .. bound
    PROVE  AtMost(v + 1, bound) \in 0 .. bound /\ AtMost(v + 1, bound) > 0
BY DEF AtMost

(* The caps are numbers. *)
LEMMA Caps == RecordCap \in Nat \ {0} /\ SinceCap \in Nat \ {0} /\ BLIND_ROUNDS \in Nat
BY IntervalAssumption DEF RecordCap, SinceCap

LEMMA InitInv == Init => Inv
<1> SUFFICES ASSUME Init PROVE Inv
  OBVIOUS
<1>1. TypeOK
  <2>1. [type |-> "Cone", ips |-> 0, port |-> FALSE] \in NatInfo
    BY DEF NatInfo, NatTypes
  <2>2. nat \in [Nodes -> NatInfo]
    BY <2>1 DEF Init
  <2>3. 0 \in 0 .. RecordCap /\ 0 \in 0 .. SinceCap /\ 0 \in 0 .. BLIND_ROUNDS
        /\ 0 \in 0 .. CHANNEL_NUM
    BY Caps, NodesAssumption
  <2> QED
    BY <2>2, <2>3 DEF Init, TypeOK, CanTake
<1>2. Typed
  BY DEF Init, Typed, Jobs
<1>3. \A n \in Nodes : \A k \in ThreadKinds : job[n][k].peer = 0
  BY DEF Init, Waiting
<1>4. \A t \in NatTypes : <<t, FALSE>> \in ThreadKinds /\ <<t, TRUE>> \in ThreadKinds
  BY DEF ThreadKinds
<1>5. Directed /\ CountedJobs /\ AnsweredIsTaken
  BY <1>3, <1>4 DEF Init, Directed, CountedJobs, AnsweredIsTaken
<1> QED
  BY <1>1, <1>2, <1>5 DEF Inv

-----------------------------------------------------------------------------
(* Steps that touch neither jobs, nor messages, nor counts.                *)

LEMMA Elsewhere ==
    ASSUME Inv, TypeOK', UNCHANGED <<job, net, record>>
    PROVE  Inv'
<1>1. Typed'
  BY DEF Inv, Typed
<1>2. Directed'
  BY DEF Inv, Directed
<1>3. CountedJobs'
  BY DEF Inv, CountedJobs
<1>4. AnsweredIsTaken'
  BY ZenonT(60) DEF Inv, AnsweredIsTaken
<1> QED
  BY <1>1, <1>2, <1>3, <1>4 DEF Inv

(* A message that goes takes nothing away but itself. *)
LEMMA FewerMessages ==
    ASSUME Inv, net' \subseteq net, UNCHANGED <<nat, round, since, record, job, hole, p2p>>
    PROVE  Inv'
<1>1. TypeOK'
  BY DEF Inv, TypeOK, CanTake
<1>2. Typed'
  BY DEF Inv, Typed
<1>3. Directed'
  BY DEF Inv, Directed
<1>4. CountedJobs'
  BY DEF Inv, CountedJobs
<1>5. AnsweredIsTaken'
  BY ZenonT(60) DEF Inv, AnsweredIsTaken
<1> QED
  BY <1>1, <1>2, <1>3, <1>4, <1>5 DEF Inv

LEMMA AddressStep ==
    ASSUME Inv, NEW n \in Nodes, update_addr(n) \/ AddressChanges(n) \/ re_test(n)
    PROVE  Inv'
<1>1. nat[n] \in NatInfo /\ nat \in [Nodes -> NatInfo]
  BY DEF Inv, TypeOK
<1>2. nat' \in [Nodes -> NatInfo]
  <2>3. CASE update_addr(n)
    <3> DEFINE i == IF nat[n].ips = 0 THEN 1 ELSE nat[n].ips
    <3>1. i \in 0 .. 2
      BY <1>1 DEF NatInfo
    <3>2. nat' = [nat EXCEPT ![n] = [nat[n] EXCEPT !.port = TRUE, !.ips = i]]
      BY <1>1, <2>3 DEF update_addr
    <3> HIDE DEF i
    <3>3. [nat[n] EXCEPT !.port = TRUE, !.ips = i] \in NatInfo
      BY <1>1, <3>1 DEF NatInfo
    <3> QED
      BY <1>1, <3>2, <3>3
  <2>4. CASE AddressChanges(n)
    BY <1>1, <2>4 DEF AddressChanges, NatInfo
  <2>5. CASE re_test(n)
    <3>1. PICK t \in NatTypes, i \in 1 .. 2 : nat' = [nat EXCEPT ![n].type = t, ![n].ips = i]
      BY <2>5 DEF re_test
    <3>2. [nat[n] EXCEPT !.type = t, !.ips = i] \in NatInfo
      BY <1>1, i \in 0 .. 2 DEF NatInfo
    <3>3. nat' = [nat EXCEPT ![n] = [nat[n] EXCEPT !.type = t, !.ips = i]]
      BY <1>1, <3>1
    <3> QED
      BY <1>1, <3>2, <3>3
  <2> QED
    BY <2>3, <2>4, <2>5
<1>3. UNCHANGED <<round, since, record, job, net, hole, p2p>>
  BY DEF update_addr, AddressChanges, re_test
<1>4. TypeOK'
  BY <1>2, <1>3 DEF Inv, TypeOK, CanTake
<1> QED
  BY <1>3, <1>4, Elsewhere

LEMMA NetworkStep ==
    ASSUME Inv, NEW n \in Nodes, NEW p \in Nodes,
           Connect(n, p) \/ Closes(n, p) \/ RouteLost(n, p)
    PROVE  Inv'
<1>1. /\ hole \in [Nodes -> SUBSET Nodes] /\ p2p \in [Nodes -> [Nodes -> 0 .. CHANNEL_NUM]]
      /\ CHANNEL_NUM \in Nat \ {0}
  BY NodesAssumption DEF Inv, TypeOK
<1>2. hole' \in [Nodes -> SUBSET Nodes] /\ p2p' \in [Nodes -> [Nodes -> 0 .. CHANNEL_NUM]]
  <2>1. CASE Connect(n, p)
    <3>1. \A a, b \in Nodes : AtMost(p2p[a][b] + 1, CHANNEL_NUM) \in 0 .. CHANNEL_NUM
      BY <1>1, Grows
    <3>2. p \in Nodes /\ n # p
      BY <2>1, NodesAssumption DEF Connect
    <3> QED
      BY <1>1, <2>1, <3>1, <3>2 DEF Connect
  <2>2. CASE Closes(n, p)
    BY <1>1, <2>2 DEF Closes
  <2>3. CASE RouteLost(n, p)
    <3>1. 0 \in 0 .. CHANNEL_NUM /\ n # p
      BY <1>1, <2>3, NodesAssumption DEF RouteLost
    <3> QED
      BY <1>1, <2>3, <3>1 DEF RouteLost
  <2> QED
    BY <2>1, <2>2, <2>3
<1>3. UNCHANGED <<nat, round, since, record, job, net>>
  BY DEF Connect, Closes, RouteLost
<1>4. TypeOK'
  BY <1>2, <1>3 DEF Inv, TypeOK, CanTake
<1> QED
  BY <1>3, <1>4, Elsewhere

LEMMA LoseStep ==
    ASSUME Inv, NEW m \in net, Lose(m)
    PROVE  Inv'
<1>1. net' \subseteq net /\ UNCHANGED <<nat, round, since, record, job, hole, p2p>>
  BY DEF Lose
<1> QED
  BY <1>1, FewerMessages

-----------------------------------------------------------------------------
(* The rounds.                                                             *)

(* A round forgets counts of peers with a larger ip only. *)
LEMMA Forgets ==
    ASSUME Inv, NEW n \in Nodes, NEW seen \in SUBSET Higher(n), Forget(n, seen)
    PROVE  /\ record' \in [Nodes -> [Nodes -> 0 .. RecordCap]]
           /\ \A q \in Nodes : \A c \in Nodes : c < q => record'[q][c] = record[q][c]
<1>1. record \in [Nodes -> [Nodes -> 0 .. RecordCap]] /\ RecordCap \in Nat
  BY Caps DEF Inv, TypeOK
<1>2. record' \in [Nodes -> [Nodes -> 0 .. RecordCap]]
  BY <1>1 DEF Forget
<1>3. ASSUME NEW q \in Nodes, NEW c \in Nodes, c < q
      PROVE  record'[q][c] = record[q][c]
  <2>1. CASE q # n
    BY <1>1, <2>1 DEF Forget
  <2>2. CASE q = n
    <3>1. c \notin seen
      BY <1>3, <2>2, NodesAssumption DEF Higher
    <3> QED
      BY <1>1, <2>2, <3>1 DEF Forget
  <2> QED
    BY <2>1, <2>2
<1> QED
  BY <1>2, <1>3

(* The counters of a round are within their caps. *)
LEMMA RoundTypes ==
    ASSUME Inv, NEW n \in Nodes, NEW asked, NextRound(n, asked)
    PROVE  /\ round' \in [Nodes -> 0 .. BLIND_ROUNDS]
           /\ since' \in [Nodes -> [Nodes -> 0 .. SinceCap]]
<1>1. /\ round \in [Nodes -> 0 .. BLIND_ROUNDS] /\ BLIND_ROUNDS \in Nat
      /\ since \in [Nodes -> [Nodes -> 0 .. SinceCap]] /\ SinceCap \in Nat \ {0}
  BY Caps DEF Inv, TypeOK
<1>2. \A v \in 0 .. BLIND_ROUNDS : AtMost(v + 1, BLIND_ROUNDS) \in 0 .. BLIND_ROUNDS
  BY <1>1 DEF AtMost
<1>3. \A v \in 0 .. SinceCap : AtMost(v + 1, SinceCap) \in 0 .. SinceCap
  BY <1>1, Grows
<1>4. round' \in [Nodes -> 0 .. BLIND_ROUNDS]
  BY <1>1, <1>2 DEF NextRound
<1>5. since' \in [Nodes -> [Nodes -> 0 .. SinceCap]]
  BY <1>1, <1>3 DEF NextRound
<1> QED
  BY <1>4, <1>5

(* Jobs and answers rest on counts that no round forgets. *)
LEMMA RoundKeeps ==
    ASSUME Inv, Directed',
           UNCHANGED job, \A m \in net' : m.reply => m \in net,
           \A q \in Nodes : \A c \in Nodes : c < q => record'[q][c] = record[q][c]
    PROVE  CountedJobs' /\ AnsweredIsTaken'
<1>0. CountedJobs'
  <2> SUFFICES ASSUME NEW n \in Nodes, NEW t \in NatTypes, job[n][<<t, TRUE>>] # Waiting,
                      job[n][<<t, TRUE>>].counted
               PROVE  record'[n][job[n][<<t, TRUE>>].peer] > 0
    BY DEF CountedJobs
  <2>1. job[n][<<t, TRUE>>] \in Job
    BY DEF Inv, Typed, ThreadKinds, Jobs
  <2>2. job[n][<<t, TRUE>>].peer \in Nodes
    BY <2>1 DEF Job
  <2>3. job[n][<<t, TRUE>>].peer < n /\ record[n][job[n][<<t, TRUE>>].peer] > 0
    BY <2>2, NodesAssumption DEF Inv, Directed, CountedJobs
  <2> QED
    BY <2>2, <2>3
<1>1. ASSUME NEW m \in net', m.reply
      PROVE  \/ \E k \in ThreadKinds : k[2] /\ job'[m.src][k].peer = m.dst
             \/ record'[m.src][m.dst] > 0
  <2>1. m \in net /\ m.src \in Nodes /\ m.dst \in Nodes /\ m.dst < m.src
    BY <1>1, NodesAssumption DEF Inv, Typed, Messages, Directed
  <2> QED
    BY <1>1, <2>1 DEF Inv, AnsweredIsTaken
<1>2. ASSUME NEW n \in Nodes, NEW t \in NatTypes
      PROVE  LET p == job'[n][<<t, FALSE>>].peer IN
             p = 0 \/ record'[p][n] > 0 \/ \E k \in ThreadKinds : k[2] /\ job'[p][k].peer = n
  <2>1. job[n][<<t, FALSE>>].peer \in Nodes \cup {0}
    <3>1. job[n][<<t, FALSE>>] \in Jobs
      BY DEF Inv, Typed, ThreadKinds
    <3> QED
      BY <3>1 DEF Jobs, Job, Waiting
  <2>2. CASE job[n][<<t, FALSE>>].peer = 0
    BY <2>2
  <2>3. CASE job[n][<<t, FALSE>>].peer # 0
    <3>1. job[n][<<t, FALSE>>].peer > n
      BY <2>3 DEF Inv, Directed
    <3> QED
      BY <2>1, <2>3, <3>1, NodesAssumption, ZenonT(60) DEF Inv, AnsweredIsTaken
  <2> QED
    BY <2>2, <2>3
<1> QED
  BY <1>0, <1>1, <1>2 DEF AnsweredIsTaken

LEMMA AskStep ==
    ASSUME Inv, NEW n \in Nodes, NEW p \in Nodes, Ask(n, p)
    PROVE  Inv'
<1> DEFINE new == [reply |-> FALSE, src |-> n, dst |-> p, info |-> nat[n]]
<1>1. PICK seen \in SUBSET Higher(n) : Forget(n, seen)
  BY DEF Ask, Seen
<1>2. /\ record' \in [Nodes -> [Nodes -> 0 .. RecordCap]]
      /\ \A q \in Nodes : \A c \in Nodes : c < q => record'[q][c] = record[q][c]
  BY <1>1, Forgets
<1>3. NextRound(n, {p}) /\ UNCHANGED <<nat, job, hole, p2p>>
  BY DEF Ask
<1>4. TypeOK'
  BY <1>2, <1>3, RoundTypes DEF Inv, TypeOK, CanTake
<1>5. new \in Messages /\ net' = net \cup {new} /\ p > n
  BY DEF Ask, Inv, TypeOK, Messages, Higher
<1>6. Typed'
  BY <1>3, <1>5 DEF Inv, Typed
<1>7. Directed'
  <2>1. ~ new.reply /\ new.src < new.dst
    BY <1>5, NodesAssumption
  <2> QED
    BY <1>3, <1>5, <2>1 DEF Inv, Directed
<1>8. CountedJobs' /\ AnsweredIsTaken'
  BY <1>2, <1>3, <1>5, <1>7, RoundKeeps
<1> QED
  BY <1>4, <1>6, <1>7, <1>8 DEF Inv

LEMMA QuietStep ==
    ASSUME Inv, NEW n \in Nodes, Quiet(n)
    PROVE  Inv'
<1>1. NextRound(n, {}) /\ UNCHANGED <<nat, job, net, hole, p2p>>
  BY DEF Quiet
<1>2. /\ record' \in [Nodes -> [Nodes -> 0 .. RecordCap]]
      /\ \A q \in Nodes : \A c \in Nodes : c < q => record'[q][c] = record[q][c]
  <2>1. CASE UNCHANGED record
    BY <2>1 DEF Inv, TypeOK
  <2>2. CASE \E seen \in SUBSET Higher(n) : Forget(n, seen)
    BY <2>2, Forgets
  <2> QED
    BY <2>1, <2>2 DEF Quiet, Seen
<1>3. TypeOK'
  BY <1>1, <1>2, RoundTypes DEF Inv, TypeOK, CanTake
<1>4. Typed' /\ Directed'
  BY <1>1 DEF Inv, Typed, Directed
<1>5. CountedJobs' /\ AnsweredIsTaken'
  BY <1>1, <1>2, <1>4, RoundKeeps
<1> QED
  BY <1>3, <1>4, <1>5 DEF Inv

-----------------------------------------------------------------------------
(* The answers.                                                            *)

(* A thread that takes a job waited: no answer rests on the job it had.    *)
LEMMA TakenKeeps ==
    ASSUME Inv, NEW n \in Nodes, NEW k \in ThreadKinds, NEW p \in Nodes, NEW info \in NatInfo,
           CanTake(n, k), job' = Taken(n, k, p, info)
    PROVE  /\ job' \in [Nodes -> [ThreadKinds -> Jobs]]
           /\ job'[n][k].peer = p /\ job'[n][k].counted = FALSE
           /\ \A q \in Nodes : \A l \in ThreadKinds :
                 (q # n \/ l # k) => job'[q][l] = job[q][l]
           /\ \A q \in Nodes : \A l \in ThreadKinds :
                 job[q][l].peer # 0 => job'[q][l].peer = job[q][l].peer
<1>1. job \in [Nodes -> [ThreadKinds -> Jobs]]
  BY DEF Inv, Typed
<1>2. [peer |-> p, info |-> info, counted |-> FALSE] \in Jobs /\ job[n][k].peer = 0
  BY DEF Jobs, Job, CanTake, Waiting
<1>3. job' = [job EXCEPT ![n][k] = [peer |-> p, info |-> info, counted |-> FALSE]]
  BY DEF Taken
<1>4. /\ job' \in [Nodes -> [ThreadKinds -> Jobs]]
      /\ job'[n][k] = [peer |-> p, info |-> info, counted |-> FALSE]
      /\ \A q \in Nodes : \A l \in ThreadKinds :
            (q # n \/ l # k) => job'[q][l] = job[q][l]
  BY <1>1, <1>2, <1>3
<1>5. job'[n][k].peer = p /\ job'[n][k].counted = FALSE
  BY <1>4
<1>6. \A q \in Nodes : \A l \in ThreadKinds :
         job[q][l].peer # 0 => job'[q][l].peer = job[q][l].peer
  BY <1>2, <1>4
<1> QED
  BY <1>4, <1>5, <1>6

LEMMA ReceivedInfo ==
    ASSUME NEW info \in NatInfo
    PROVE  Received(info) \in NatInfo /\ Received(info).type \in NatTypes
BY DEF Received, NatInfo, NatTypes

(* The message that is taken.  A request makes a job that the answer rests *)
(* on; an answer makes a job that rests on what the answer rested on.      *)
LEMMA TurnTaken ==
    ASSUME Inv, NEW m \in net, other_turn(m),
           CanTake(m.dst, <<Received(m.info).type, ~ m.reply>>)
    PROVE  Inv'
<1> DEFINE n == m.dst
           info == Received(m.info)
           k == <<info.type, ~ m.reply>>
           new == [reply |-> TRUE, src |-> n, dst |-> m.src, info |-> nat[n]]
<1>1. /\ m \in Messages /\ n \in Nodes /\ m.src \in Nodes /\ m.info \in NatInfo
      /\ m.reply \in BOOLEAN
  BY DEF Inv, Typed, Messages
<1>2. info \in NatInfo /\ k \in ThreadKinds
  BY <1>1, ReceivedInfo DEF ThreadKinds
<1>3. /\ job' = Taken(n, k, m.src, info)
      /\ net' = (net \ {m}) \cup (IF m.reply THEN {} ELSE {new})
      /\ UNCHANGED <<nat, round, since, record, hole, p2p>>
  BY DEF other_turn
<1>4. /\ job' \in [Nodes -> [ThreadKinds -> Jobs]]
      /\ job'[n][k].peer = m.src /\ job'[n][k].counted = FALSE
      /\ \A q \in Nodes : \A l \in ThreadKinds :
            (q # n \/ l # k) => job'[q][l] = job[q][l]
      /\ \A q \in Nodes : \A l \in ThreadKinds :
            job[q][l].peer # 0 => job'[q][l].peer = job[q][l].peer
  <2> HIDE DEF n, k, info
  <2> QED
    BY <1>1, <1>2, <1>3, TakenKeeps DEF n, k, info
<1>5. new \in Messages /\ new.reply /\ new.src = n /\ new.dst = m.src
  BY <1>1 DEF Inv, TypeOK, Messages
<1>6. Typed'
  BY <1>3, <1>4, <1>5 DEF Inv, Typed
<1>7. TypeOK'
  <2>1. (\A q \in Nodes : \A l \in ThreadKinds :
            CanTake(q, l) \/ job[q][l] \in Job)'
    BY <1>6 DEF Typed, Jobs, CanTake
  <2> QED
    BY <1>3, <2>1 DEF Inv, TypeOK
<1>8. IF m.reply THEN m.src > n ELSE m.src < n
  BY DEF Inv, Directed
<1>9. Directed'
  <2>1. ASSUME NEW a \in net'
        PROVE  IF a.reply THEN a.src > a.dst ELSE a.src < a.dst
    <3>1. CASE a \in net
      BY <3>1 DEF Inv, Directed
    <3>2. CASE ~ m.reply /\ a = new
      BY <1>1, <1>5, <1>8, <3>2, NodesAssumption
    <3> QED
      BY <1>3, <2>1, <3>1, <3>2
  <2>2. ASSUME NEW q \in Nodes, NEW t \in NatTypes, job'[q][<<t, FALSE>>].peer # 0
        PROVE  job'[q][<<t, FALSE>>].peer > q
    <3>1. <<t, FALSE>> \in ThreadKinds
      BY DEF ThreadKinds
    <3>2. CASE q = n /\ <<t, FALSE>> = k
      <4>1. m.reply
        BY <1>1, <3>2
      <4> QED
        BY <1>4, <1>8, <3>2, <4>1
    <3>3. CASE q # n \/ <<t, FALSE>> # k
      <4>1. job'[q][<<t, FALSE>>] = job[q][<<t, FALSE>>]
        BY <1>4, <3>1, <3>3
      <4> QED
        BY <2>2, <4>1 DEF Inv, Directed
    <3> QED
      BY <3>2, <3>3
  <2>3. ASSUME NEW q \in Nodes, NEW t \in NatTypes, job'[q][<<t, TRUE>>].peer # 0
        PROVE  job'[q][<<t, TRUE>>].peer < q
    <3>1. <<t, TRUE>> \in ThreadKinds
      BY DEF ThreadKinds
    <3>2. CASE q = n /\ <<t, TRUE>> = k
      <4>1. ~ m.reply
        BY <1>1, <3>2
      <4> QED
        BY <1>4, <1>8, <3>2, <4>1
    <3>3. CASE q # n \/ <<t, TRUE>> # k
      <4>1. job'[q][<<t, TRUE>>] = job[q][<<t, TRUE>>]
        BY <1>4, <3>1, <3>3
      <4> QED
        BY <2>3, <4>1 DEF Inv, Directed
    <3> QED
      BY <3>2, <3>3
  <2> QED
    BY <2>1, <2>2, <2>3 DEF Directed
<1>14. CountedJobs'
  <2> SUFFICES ASSUME NEW q \in Nodes, NEW t \in NatTypes, job'[q][<<t, TRUE>>] # Waiting,
                      job'[q][<<t, TRUE>>].counted
               PROVE  record'[q][job'[q][<<t, TRUE>>].peer] > 0
    BY DEF CountedJobs
  <2>1. job'[q][<<t, TRUE>>] = job[q][<<t, TRUE>>]
    BY <1>4 DEF ThreadKinds
  <2> QED
    BY <1>3, <2>1 DEF Inv, CountedJobs
<1> DEFINE Took(q, c) == \/ \E l \in ThreadKinds : l[2] /\ job[q][l].peer = c
                         \/ record[q][c] > 0
           TookNext(q, c) == \/ \E l \in ThreadKinds : l[2] /\ job'[q][l].peer = c
                             \/ record'[q][c] > 0
<1>10. ASSUME NEW q \in Nodes, NEW c \in Nodes, Took(q, c)
       PROVE  TookNext(q, c)
  <2>1. CASE record[q][c] > 0
    BY <1>3, <2>1
  <2>2. ASSUME NEW l \in ThreadKinds, l[2], job[q][l].peer = c
        PROVE  TookNext(q, c)
    <3>1. job[q][l].peer # 0
      BY <2>2, NodesAssumption
    <3>2. job'[q][l].peer = c
      BY <1>4, <2>2, <3>1
    <3> QED
      BY <2>2, <3>2
  <2> QED
    BY <1>10, <2>1, <2>2
<1>11. ASSUME NEW a \in net', a.reply
       PROVE  TookNext(a.src, a.dst)
  <2>1. CASE a \in net
    <3>1. Took(a.src, a.dst) /\ a.src \in Nodes /\ a.dst \in Nodes
      BY <1>11, <2>1 DEF Inv, AnsweredIsTaken, Typed, Messages
    <3> QED
      BY <1>10, <3>1
  <2>2. CASE ~ m.reply /\ a = new
    <3>1. k[2]
      BY <2>2
    <3> QED
      BY <1>2, <1>4, <1>5, <2>2, <3>1
  <2> QED
    BY <1>3, <1>11, <2>1, <2>2
<1>12. ASSUME NEW q \in Nodes, NEW t \in NatTypes, job'[q][<<t, FALSE>>].peer # 0
       PROVE  TookNext(job'[q][<<t, FALSE>>].peer, q)
  <2>1. <<t, FALSE>> \in ThreadKinds
    BY DEF ThreadKinds
  <2>2. CASE q = n /\ <<t, FALSE>> = k
    <3>1. m.reply
      BY <1>1, <2>2
    <3>2. Took(m.src, n)
      BY <3>1 DEF Inv, AnsweredIsTaken
    <3>3. TookNext(m.src, n)
      BY <1>1, <1>10, <3>2
    <3>4. job'[q][<<t, FALSE>>].peer = m.src
      BY <1>4, <2>2
    <3> QED
      BY <2>2, <3>3, <3>4
  <2>3. CASE q # n \/ <<t, FALSE>> # k
    <3>1. job'[q][<<t, FALSE>>] = job[q][<<t, FALSE>>] /\ job[q][<<t, FALSE>>] \in Jobs
      BY <1>4, <2>1, <2>3 DEF Inv, Typed
    <3>2. job[q][<<t, FALSE>>].peer \in Nodes
      BY <1>12, <3>1 DEF Jobs, Job, Waiting
    <3>3. job[q][<<t, FALSE>>].peer # 0
      BY <1>12, <3>1
    <3>4. Took(job[q][<<t, FALSE>>].peer, q)
      BY <3>3 DEF Inv, AnsweredIsTaken
    <3> QED
      BY <1>10, <3>1, <3>2, <3>4
  <2> QED
    BY <2>2, <2>3
<1>13. AnsweredIsTaken'
  BY <1>11, <1>12 DEF AnsweredIsTaken
<1> QED
  BY <1>6, <1>7, <1>9, <1>13, <1>14 DEF Inv

LEMMA TurnStep ==
    ASSUME Inv, NEW m \in net, other_turn(m)
    PROVE  Inv'
<1>1. CASE CanTake(m.dst, <<Received(m.info).type, ~ m.reply>>)
  BY <1>1, TurnTaken
<1>2. CASE ~ CanTake(m.dst, <<Received(m.info).type, ~ m.reply>>)
  <2>1. net' \subseteq net /\ UNCHANGED <<nat, round, since, record, job, hole, p2p>>
    BY <1>2 DEF other_turn
  <2> QED
    BY <2>1, FewerMessages
<1> QED
  BY <1>1, <1>2

-----------------------------------------------------------------------------
(* The punch threads.                                                      *)

(* A job is counted: the record of its peer grows. *)
LEMMA CountStep ==
    ASSUME Inv, NEW n \in Nodes, NEW k \in ThreadKinds, count_punch(n, k)
    PROVE  Inv'
<1> DEFINE p == job[n][k].peer
<1>1. /\ job \in [Nodes -> [ThreadKinds -> Jobs]]
      /\ record \in [Nodes -> [Nodes -> 0 .. RecordCap]] /\ RecordCap \in Nat \ {0}
  BY Caps DEF Inv, Typed, TypeOK
<1>2. job[n][k] \in Job /\ p \in Nodes
  <2>1. job[n][k] \in Jobs /\ job[n][k] # Waiting
    BY <1>1 DEF count_punch, CanTake
  <2> QED
    BY <2>1 DEF Jobs, Job
<1>3. /\ job' = [job EXCEPT ![n][k] = [job[n][k] EXCEPT !.counted = TRUE]]
      /\ record' = [record EXCEPT ![n][p] = AtMost(@ + 1, RecordCap)]
      /\ UNCHANGED <<nat, round, since, net, hole, p2p>>
  BY <1>1 DEF count_punch
<1>4. AtMost(record[n][p] + 1, RecordCap) \in 0 .. RecordCap
      /\ AtMost(record[n][p] + 1, RecordCap) > 0
  BY <1>1, <1>2, Grows
<1>5. /\ record' \in [Nodes -> [Nodes -> 0 .. RecordCap]] /\ record'[n][p] > 0
      /\ \A q, c \in Nodes : record[q][c] > 0 => record'[q][c] > 0
  BY <1>1, <1>2, <1>3, <1>4
<1>6. /\ [job[n][k] EXCEPT !.counted = TRUE] \in Job
      /\ [job[n][k] EXCEPT !.counted = TRUE].peer = p
  BY <1>2 DEF Job
<1>7. /\ job' \in [Nodes -> [ThreadKinds -> Jobs]]
      /\ \A q \in Nodes : \A l \in ThreadKinds :
            /\ job'[q][l].peer = job[q][l].peer
            /\ (q # n \/ l # k) => job'[q][l] = job[q][l]
  BY <1>1, <1>3, <1>6 DEF Jobs
<1>8. Typed'
  BY <1>3, <1>7 DEF Inv, Typed
<1>9. TypeOK'
  <2>1. (\A q \in Nodes : \A l \in ThreadKinds :
            CanTake(q, l) \/ job[q][l] \in Job)'
    BY <1>8 DEF Typed, Jobs, CanTake
  <2> QED
    BY <1>3, <1>5, <2>1 DEF Inv, TypeOK
<1>10. \A t \in NatTypes : <<t, FALSE>> \in ThreadKinds /\ <<t, TRUE>> \in ThreadKinds
  BY DEF ThreadKinds
<1>11. Directed'
  <2>1. \A q \in Nodes : \A t \in NatTypes :
           /\ job'[q][<<t, FALSE>>].peer = job[q][<<t, FALSE>>].peer
           /\ job'[q][<<t, TRUE>>].peer = job[q][<<t, TRUE>>].peer
    BY <1>7, <1>10
  <2> QED
    BY <1>3, <2>1 DEF Inv, Directed
<1>12. CountedJobs'
  <2> SUFFICES ASSUME NEW q \in Nodes, NEW t \in NatTypes, job'[q][<<t, TRUE>>] # Waiting,
                      job'[q][<<t, TRUE>>].counted
               PROVE  record'[q][job'[q][<<t, TRUE>>].peer] > 0
    BY DEF CountedJobs
  <2>1. CASE q = n /\ <<t, TRUE>> = k
    BY <1>5, <1>7, <2>1
  <2>2. CASE q # n \/ <<t, TRUE>> # k
    <3>1. job'[q][<<t, TRUE>>] = job[q][<<t, TRUE>>] /\ job[q][<<t, TRUE>>] \in Jobs
      BY <1>1, <1>7, <1>10, <2>2
    <3>2. job[q][<<t, TRUE>>].peer \in Nodes
      BY <3>1 DEF Jobs, Job
    <3>3. record[q][job[q][<<t, TRUE>>].peer] > 0
      BY <3>1 DEF Inv, CountedJobs
    <3> QED
      BY <1>5, <3>1, <3>2, <3>3
  <2> QED
    BY <2>1, <2>2
<1> DEFINE Took(q, c) == \/ \E l \in ThreadKinds : l[2] /\ job[q][l].peer = c
                         \/ record[q][c] > 0
           TookNext(q, c) == \/ \E l \in ThreadKinds : l[2] /\ job'[q][l].peer = c
                             \/ record'[q][c] > 0
<1>13. ASSUME NEW q \in Nodes, NEW c \in Nodes, Took(q, c)
       PROVE  TookNext(q, c)
  BY <1>5, <1>7, <1>13
<1>14. ASSUME NEW a \in net', a.reply
       PROVE  TookNext(a.src, a.dst)
  <2>1. Took(a.src, a.dst) /\ a.src \in Nodes /\ a.dst \in Nodes
    BY <1>3, <1>14 DEF Inv, AnsweredIsTaken, Typed, Messages
  <2> QED
    BY <1>13, <2>1
<1>15. ASSUME NEW q \in Nodes, NEW t \in NatTypes, job'[q][<<t, FALSE>>].peer # 0
       PROVE  TookNext(job'[q][<<t, FALSE>>].peer, q)
  <2>1. job'[q][<<t, FALSE>>].peer = job[q][<<t, FALSE>>].peer /\ job[q][<<t, FALSE>>] \in Jobs
    BY <1>1, <1>7, <1>10
  <2>2. job[q][<<t, FALSE>>].peer \in Nodes
    BY <1>15, <2>1 DEF Jobs, Job, Waiting
  <2>3. Took(job[q][<<t, FALSE>>].peer, q)
    BY <1>15, <2>1 DEF Inv, AnsweredIsTaken
  <2> QED
    BY <1>13, <2>1, <2>2, <2>3
<1>16. AnsweredIsTaken'
  BY <1>14, <1>15 DEF AnsweredIsTaken
<1> QED
  BY <1>8, <1>9, <1>11, <1>12, <1>16 DEF Inv

(* A punch thread finishes its job: what rested on the job rests on the    *)
(* count from now on.                                                      *)
LEMMA PunchStep ==
    ASSUME Inv, NEW n \in Nodes, NEW k \in ThreadKinds, punch(n, k)
    PROVE  Inv'
<1> DEFINE p == job[n][k].peer
<1>1. /\ job \in [Nodes -> [ThreadKinds -> Jobs]] /\ Waiting \in Jobs /\ Waiting.peer = 0
      /\ hole \in [Nodes -> SUBSET Nodes]
  BY DEF Inv, Typed, TypeOK, Jobs, Waiting
<1>2. p \in Nodes /\ job[n][k] # Waiting /\ job[n][k].counted
  <2>1. job[n][k] \in Jobs /\ job[n][k] # Waiting /\ job[n][k].counted
    BY <1>1 DEF punch, CanTake
  <2> QED
    BY <2>1 DEF Jobs, Job
<1>3. /\ job' = [job EXCEPT ![n][k] = Waiting]
      /\ UNCHANGED <<nat, round, since, record, net, p2p>>
  BY DEF punch
<1>4. hole' \in [Nodes -> SUBSET Nodes]
  BY <1>1, <1>2 DEF punch
<1>5. k[2] => record[n][p] > 0
  <2>1. PICK t \in NatTypes, b \in BOOLEAN : k = <<t, b>>
    BY DEF ThreadKinds
  <2>2. CASE b = TRUE
    BY <1>2, <2>1, <2>2 DEF Inv, CountedJobs
  <2>3. CASE b = FALSE
    BY <2>1, <2>3
  <2> QED
    BY <2>1, <2>2, <2>3
<1>7. /\ job' \in [Nodes -> [ThreadKinds -> Jobs]] /\ job'[n][k] = Waiting
      /\ \A q \in Nodes : \A l \in ThreadKinds :
            (q # n \/ l # k) => job'[q][l] = job[q][l]
  BY <1>1, <1>3
<1>8. Typed'
  BY <1>3, <1>7 DEF Inv, Typed
<1>9. TypeOK'
  <2>1. (\A q \in Nodes : \A l \in ThreadKinds :
            CanTake(q, l) \/ job[q][l] \in Job)'
    BY <1>8 DEF Typed, Jobs, CanTake
  <2> QED
    BY <1>3, <1>4, <2>1 DEF Inv, TypeOK
<1>10. \A q \in Nodes : \A l \in ThreadKinds :
          job'[q][l].peer # 0 \/ job'[q][l] # Waiting => job'[q][l] = job[q][l]
  BY <1>1, <1>7
<1>11. \A t \in NatTypes : <<t, FALSE>> \in ThreadKinds /\ <<t, TRUE>> \in ThreadKinds
  BY DEF ThreadKinds
<1>12. Directed' /\ CountedJobs'
  <2>1. Directed'
    BY <1>3, <1>10, <1>11 DEF Inv, Directed
  <2>2. CountedJobs'
    BY <1>3, <1>10, <1>11 DEF Inv, CountedJobs
  <2> QED
    BY <2>1, <2>2
<1> DEFINE Took(q, c) == \/ \E l \in ThreadKinds : l[2] /\ job[q][l].peer = c
                         \/ record[q][c] > 0
           TookNext(q, c) == \/ \E l \in ThreadKinds : l[2] /\ job'[q][l].peer = c
                             \/ record'[q][c] > 0
<1>13. ASSUME NEW q \in Nodes, NEW c \in Nodes, Took(q, c)
       PROVE  TookNext(q, c)
  <2>1. CASE record[q][c] > 0
    BY <1>3, <2>1
  <2>2. ASSUME NEW l \in ThreadKinds, l[2], job[q][l].peer = c
        PROVE  TookNext(q, c)
    <3>1. CASE q = n /\ l = k
      BY <1>3, <1>5, <2>2, <3>1
    <3>2. CASE q # n \/ l # k
      BY <1>7, <2>2, <3>2
    <3> QED
      BY <3>1, <3>2
  <2> QED
    BY <1>13, <2>1, <2>2
<1>14. ASSUME NEW a \in net', a.reply
       PROVE  TookNext(a.src, a.dst)
  <2>1. Took(a.src, a.dst) /\ a.src \in Nodes /\ a.dst \in Nodes
    BY <1>3, <1>14 DEF Inv, AnsweredIsTaken, Typed, Messages
  <2> QED
    BY <1>13, <2>1
<1>15. ASSUME NEW q \in Nodes, NEW t \in NatTypes, job'[q][<<t, FALSE>>].peer # 0
       PROVE  TookNext(job'[q][<<t, FALSE>>].peer, q)
  <2>1. job'[q][<<t, FALSE>>] = job[q][<<t, FALSE>>] /\ job[q][<<t, FALSE>>] \in Jobs
    BY <1>1, <1>10, <1>11, <1>15
  <2>2. job[q][<<t, FALSE>>].peer \in Nodes
    BY <1>15, <2>1 DEF Jobs, Job, Waiting
  <2>3. job[q][<<t, FALSE>>].peer # 0
    BY <1>15, <2>1
  <2>4. Took(job[q][<<t, FALSE>>].peer, q)
    BY <2>3 DEF Inv, AnsweredIsTaken
  <2> QED
    BY <1>13, <2>1, <2>2, <2>4
<1>16. AnsweredIsTaken'
  BY <1>14, <1>15 DEF AnsweredIsTaken
<1> QED
  BY <1>8, <1>9, <1>12, <1>16 DEF Inv

-----------------------------------------------------------------------------
LEMMA NextInv == Inv /\ [Next]_vars => Inv'
<1> SUFFICES ASSUME Inv, [Next]_vars PROVE Inv'
  OBVIOUS
<1>1. CASE UNCHANGED vars
  BY <1>1, FewerMessages DEF vars
<1> QED
  BY <1>1, QuietStep, AddressStep, CountStep, PunchStep, AskStep, NetworkStep, TurnStep, LoseStep
  DEF Next, punch_start

(* The inductive invariant holds in every state of the negotiation. *)
THEOREM Invariance == Spec => []Inv
BY InitInv, NextInv, PTL DEF Spec

(* SidesAgree for any number of clients: whoever is answered, or punches   *)
(* because of an answer, has a peer that took the request, however rounds, *)
(* lost messages and busy threads interleave.                              *)
THEOREM BothSidesPunch == Spec => []SidesAgree
<1>1. Inv => SidesAgree
  BY DEF Inv, SidesAgree
<1> QED
  BY <1>1, Invariance, PTL
=============================================================================
