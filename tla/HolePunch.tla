----------------------------- MODULE HolePunch -----------------------------
(***************************************************************************)
(* How two clients agree to punch a hole: the rounds of punch_request and  *)
(* the four punch threads of handle/maintain/punch.rs, the messages that   *)
(* other_turn of handle/recv_data/client.rs answers, the address a client  *)
(* knows of itself (nat/mod.rs, handle/maintain/addr_request.rs), and      *)
(* Punch::punch of channel/punch.rs.                                       *)
(*                                                                         *)
(* The thread of a kind of peer is either waiting in recv or has one job:  *)
(* the channels have no buffer, try_send fails unless the thread waits.    *)
(* A job is counted, then its packets are sent in one step.  Addresses are *)
(* reduced to what punch tells apart: how many public ips are known (none, *)
(* one, several) and whether the public port is.  A direct route is        *)
(* counted, RouteTable has its list.  The network, which decides whether   *)
(* packets of both sides meet, is external.                                *)
(***************************************************************************)
EXTENDS Integers, FiniteSets

CONSTANTS
    Nodes,              \* virtual ips: numbers, 0.0.0.0 is nobody's
    CHANNEL_NUM,        \* direct routes wanted to a peer
    BLIND_ROUNDS,       \* rounds before a client asks without an address, 10
    INTERVAL,           \* the longest wait between two requests, 50 rounds
    INTERVAL_P2P,       \* the same when there is a direct route, 300 rounds
    MAX_FLIGHT,         \* bound: messages on their way
    MAX_EVENTS          \* bound: lost messages, lost routes, changes of address

ASSUME NodesAssumption == Nodes \subseteq Nat \ {0} /\ CHANNEL_NUM \in Nat \ {0}
ASSUME IntervalAssumption ==
    /\ BLIND_ROUNDS \in Nat /\ {INTERVAL, INTERVAL_P2P} \subseteq Nat \ {0}
    /\ INTERVAL <= INTERVAL_P2P

VARIABLES
    nat,                \* nat[n]: what n knows of its address (NatTest::info)
    round,              \* round[n]: total_count, up to BLIND_ROUNDS
    since,              \* since[n][p]: rounds since n asked p (last_punch_record)
    record,             \* record[n][p]: punch_record, 0 when absent
    job,                \* job[n][k]: what the punch thread of kind k does
    net,                \* negotiation messages, relayed
    hole,               \* hole[n]: peers that n has sent punch packets to
    p2p,                \* p2p[n][p]: direct routes of n to p
    events              \* counted against MAX_EVENTS

vars == <<nat, round, since, record, job, net, hole, p2p, events>>

NatTypes == {"Cone", "Symmetric"}
NatInfo == [type : NatTypes, ips : 0 .. 2, port : BOOLEAN]
ThreadKinds == NatTypes \X BOOLEAN          \* nat type of the peer, src_peer
Job == [peer : Nodes, info : NatInfo, counted : BOOLEAN]
Waiting == [peer |-> 0]

(* The longest wait that can still matter, and the count from which on the *)
(* interval is the longest one.                                            *)
RecordCap == (3 * INTERVAL_P2P + 1) \div 2
SinceCap == INTERVAL_P2P + 1
AtMost(v, bound) == IF v > bound THEN bound ELSE v

Event == events < MAX_EVENTS /\ events' = events + 1

-----------------------------------------------------------------------------
(* The rounds.                                                             *)

(* The public address is not known yet, and it is early. *)
TooEarly(n) == round[n] < BLIND_ROUNDS /\ (nat[n].ips = 0 \/ ~ nat[n].port)

PunchCount(n, p) == (record[n][p] * 2) \div 3
Full(n, p) == p2p[n][p] > 0 /\ PunchCount(n, p) > 0 /\ p2p[n][p] >= CHANNEL_NUM
Due(n, p) ==
    /\ ~ (p2p[n][p] > 0 /\ (PunchCount(n, p) = 0 \/ p2p[n][p] >= CHANNEL_NUM))
    /\ since[n][p] > AtMost(PunchCount(n, p),
                            IF p2p[n][p] > 0 THEN INTERVAL_P2P ELSE INTERVAL)

(* punch0 goes through the peers with a larger ip in a random order: it    *)
(* forgets the count of those with enough routes until it meets one to     *)
(* ask, which is the last of this round.                                   *)
Higher(n) == {p \in Nodes : p > n}
Seen(n, asked) == IF asked = {} THEN {{p \in Higher(n) : Full(n, p)}}
                                ELSE SUBSET {p \in Higher(n) : Full(n, p)}
Forget_Never(n, seen) == record' = record
Forget(n, seen) ==
    record' = [record EXCEPT ![n] = [p \in Nodes |-> IF p \in seen THEN 0 ELSE @[p]]]
NextRound(n, asked) ==
    /\ round' = [round EXCEPT ![n] = AtMost(@ + 1, BLIND_ROUNDS)]
    /\ since' = [since EXCEPT ![n] =
                   [p \in Nodes |-> IF p \in asked THEN 1
                                    ELSE IF p \in Higher(n) THEN AtMost(@[p] + 1, SinceCap)
                                    ELSE @[p]]]

Ask(n, p) ==
    /\ ~ TooEarly(n) /\ p \in Higher(n) /\ Due(n, p)
    /\ Cardinality(net) < MAX_FLIGHT
    /\ NextRound(n, {p}) /\ \E seen \in Seen(n, {p}) : Forget(n, seen)
    /\ net' = net \cup {[reply |-> FALSE, src |-> n, dst |-> p, info |-> nat[n]]}
    /\ UNCHANGED <<nat, job, hole, p2p, events>>

Quiet(n) ==
    /\ TooEarly(n) \/ \A p \in Higher(n) : ~ Due(n, p)
    /\ NextRound(n, {})
    /\ IF TooEarly(n) THEN UNCHANGED record
                      ELSE \E seen \in Seen(n, {}) : Forget(n, seen)
    /\ UNCHANGED <<nat, job, net, hole, p2p, events>>

-----------------------------------------------------------------------------
(* The answers.                                                            *)

(* NatInfo::new: a client with several public ips counts as symmetric. *)
Received(info) == [info EXCEPT !.type = IF info.ips > 1 THEN "Symmetric" ELSE @]

(* PunchSender::send: the job is taken only by a thread that waits. *)
CanTake(n, k) == job[n][k] = Waiting
Taken(n, k, p, info) == 
    [job EXCEPT ![n][k] = [peer |-> p, info |-> info, counted |-> FALSE]]

(* other_turn: a request that is taken is answered, a reply that is taken  *)
(* completes the agreement; both are dropped otherwise.                    *)
other_turn_OnlyReplies(m) ==
    LET n == m.dst
        info == Received(m.info)
        k == <<info.type, ~ m.reply>>
    IN  /\ job' = IF m.reply /\ CanTake(n, k) THEN Taken(n, k, m.src, info) ELSE job
        /\ net' = (net \ {m}) \cup
                  (IF m.reply THEN {}
                   ELSE {[reply |-> TRUE, src |-> n, dst |-> m.src, info |-> nat[n]]})
        /\ UNCHANGED <<nat, round, since, record, hole, p2p, events>>
other_turn(m) ==
    LET n == m.dst
        info == Received(m.info)
        k == <<info.type, ~ m.reply>>
    IN  /\ IF CanTake(n, k)
           THEN /\ job' = Taken(n, k, m.src, info)
                /\ net' = (net \ {m}) \cup
                          (IF m.reply THEN {}
                           ELSE {[reply |-> TRUE, src |-> n, dst |-> m.src, info |-> nat[n]]})
           ELSE net' = net \ {m} /\ UNCHANGED job
        /\ UNCHANGED <<nat, round, since, record, hole, p2p, events>>

-----------------------------------------------------------------------------
(* The punch threads.                                                      *)

(* Punch::punch: no packet when there are routes enough; to a cone only    *)
(* when its port is known, to a symmetric network by guessing.             *)
no_need_punch(n, p) == p2p[n][p] >= CHANNEL_NUM
Reaches(info) == info.ips > 0 /\ (info.type = "Cone" => info.port)

(* punch_start: the job is counted when it is taken, then the packets are  *)
(* sent, and back to recv.                                                 *)
count_punch(n, k) ==
    /\ ~ CanTake(n, k) /\ ~ job[n][k].counted
    /\ record' = [record EXCEPT ![n][job[n][k].peer] = AtMost(@ + 1, RecordCap)]
    /\ job' = [job EXCEPT ![n][k].counted = TRUE]
    /\ UNCHANGED <<nat, round, since, net, hole, p2p, events>>
punch_Stuck(n, k) ==
    LET p == job[n][k].peer IN
    /\ ~ CanTake(n, k) /\ job[n][k].counted /\ p \notin hole[n]
    /\ hole' = [hole EXCEPT ![n] = @ \cup {p}]
    /\ UNCHANGED <<nat, round, since, record, job, net, p2p, events>>
punch(n, k) ==
    LET p == job[n][k].peer IN
    /\ ~ CanTake(n, k) /\ job[n][k].counted
    /\ hole' = IF ~ no_need_punch(n, p) /\ Reaches(job[n][k].info)
               THEN [hole EXCEPT ![n] = @ \cup {p}] ELSE hole
    /\ job' = [job EXCEPT ![n][k] = Waiting]
    /\ UNCHANGED <<nat, round, since, record, net, p2p, events>>
punch_start(n, k) == count_punch(n, k) \/ punch(n, k)

-----------------------------------------------------------------------------
(* The address of a client.                                                *)

(* update_addr: the answer of a stun server gives the port of a channel    *)
(* and an ip, which is pushed if it is not one of those known.             *)
update_addr_Pushes(n) ==
    /\ nat' = [nat EXCEPT ![n].port = TRUE, ![n].ips = @ + 1]
    /\ UNCHANGED <<round, since, record, job, net, hole, p2p, events>>
update_addr(n) ==
    /\ nat' = [nat EXCEPT ![n].port = TRUE, ![n].ips = IF @ = 0 THEN 1 ELSE @]
    /\ nat' # nat
    /\ UNCHANGED <<round, since, record, job, net, hole, p2p, events>>
(* The same with an ip that is not known: the router has a new address, or *)
(* more than one.                                                          *)
AddressChanges(n) ==
    /\ nat[n].ips = 1 /\ Event
    /\ nat' = [nat EXCEPT ![n].port = TRUE, ![n].ips = 2]
    /\ UNCHANGED <<round, since, record, job, net, hole, p2p>>

(* re_test: the type, and the ips anew, of which there is one at least. *)
re_test(n) ==
    /\ Event
    /\ \E t \in NatTypes, i \in 1 .. 2 : nat' = [nat EXCEPT ![n].type = t, ![n].ips = i]
    /\ UNCHANGED <<round, since, record, job, net, hole, p2p>>

-----------------------------------------------------------------------------
(* The network.                                                            *)

BothSymmetric(n, p) == \A m \in {n, p} : nat[m].type = "Symmetric"

(* Packets of both sides meet and the routes appear, one for each side. *)
Connect(n, p) ==
    /\ n < p /\ p \in hole[n] /\ n \in hole[p] /\ ~ BothSymmetric(n, p)
    /\ p2p' = [p2p EXCEPT ![n][p] = AtMost(@ + 1, CHANNEL_NUM),
                          ![p][n] = AtMost(@ + 1, CHANNEL_NUM)]
    /\ hole' = [hole EXCEPT ![n] = @ \ {p}, ![p] = @ \ {n}]
    /\ UNCHANGED <<nat, round, since, record, job, net, events>>

(* The binding a packet made in the router of its sender goes, after half  *)
(* a minute: not while the two negotiate.                                  *)
Negotiating(n, p) ==
    \/ \E k \in ThreadKinds : job[n][k].peer = p \/ job[p][k].peer = n
    \/ \E m \in net : {m.src, m.dst} = {n, p}
Closes(n, p) ==
    /\ p \in hole[n] /\ ~ Negotiating(n, p) /\ hole' = [hole EXCEPT ![n] = @ \ {p}]
    /\ UNCHANGED <<nat, round, since, record, job, net, p2p, events>>
RouteLost(n, p) ==
    /\ n < p /\ p2p[n][p] > 0 /\ Event
    /\ p2p' = [p2p EXCEPT ![n][p] = 0, ![p][n] = 0]
    /\ UNCHANGED <<nat, round, since, record, job, net, hole>>
Lose(m) ==
    /\ Event /\ net' = net \ {m}
    /\ UNCHANGED <<nat, round, since, record, job, hole, p2p>>

-----------------------------------------------------------------------------
Init ==
    /\ nat \in [Nodes -> {[type |-> "Cone", ips |-> 0, port |-> FALSE]}]
    /\ round = [n \in Nodes |-> 0]
    /\ since = [n \in Nodes |-> [p \in Nodes |-> 0]]
    /\ record = [n \in Nodes |-> [p \in Nodes |-> 0]]
    /\ job = [n \in Nodes |-> [k \in ThreadKinds |-> Waiting]]
    /\ net = {} /\ hole = [n \in Nodes |-> {}]
    /\ p2p = [n \in Nodes |-> [p \in Nodes |-> 0]]
    /\ events = 0

Next ==
    \/ \E n \in Nodes :
          \/ Quiet(n) \/ update_addr(n) \/ AddressChanges(n) \/ re_test(n)
          \/ \E k \in ThreadKinds : punch_start(n, k)
          \/ \E p \in Nodes : Ask(n, p) \/ Connect(n, p) \/ Closes(n, p) \/ RouteLost(n, p)
    \/ \E m \in net : other_turn(m) \/ Lose(m)

(* The scheduler runs every round, its order of the peers is random, the   *)
(* relay delivers, the punch threads run, stun servers answer, and packets *)
(* that are sent towards each other again and again meet at last.          *)
Fairness ==
    /\ WF_vars(\E m \in net : other_turn(m))
    /\ \A n \in Nodes :
          /\ \A k \in ThreadKinds : WF_vars(punch_start(n, k))
          /\ WF_vars(Quiet(n)) /\ WF_vars(update_addr(n))
          /\ \A p \in Higher(n) : SF_vars(Ask(n, p)) /\ SF_vars(Connect(n, p))

Spec == Init /\ [][Next]_vars /\ Fairness

-----------------------------------------------------------------------------
(* Types, and the bounds of the counters: a record never exceeds the value *)
(* above which the interval is the longest one.                            *)
TypeOK ==
    /\ nat \in [Nodes -> NatInfo]
    /\ round \in [Nodes -> 0 .. BLIND_ROUNDS]
    /\ since \in [Nodes -> [Nodes -> 0 .. SinceCap]]
    /\ record \in [Nodes -> [Nodes -> 0 .. RecordCap]]
    /\ \A n \in Nodes : \A k \in ThreadKinds :
          CanTake(n, k) \/ job[n][k] \in Job
    /\ hole \in [Nodes -> SUBSET Nodes]
    /\ p2p \in [Nodes -> [Nodes -> 0 .. CHANNEL_NUM]]

(* A reply always finds the peer that sent it at work or past it: the two  *)
(* sides of a punch are never both waiting for the other to begin.  Where  *)
(* a requester punches because of a reply, or its reply is on its way, the *)
(* other side has taken the request first.                                 *)
AnsweredIsTaken ==
    /\ \A m \in net : m.reply =>
          \/ \E k \in ThreadKinds : k[2] /\ job[m.src][k].peer = m.dst
          \/ record[m.src][m.dst] > 0
    /\ \A n \in Nodes : \A t \in NatTypes :
          LET p == job[n][<<t, FALSE>>].peer IN
          p = 0 \/ record[p][n] > 0 \/ \E k \in ThreadKinds : k[2] /\ job[p][k].peer = n

(* Two clients of which one is no symmetric network get a direct route,    *)
(* and get it back when it is lost, although requests meet busy threads    *)
(* and are dropped without a word, messages are lost and the interval      *)
(* between two requests grows.                                             *)
PairConnects ==
    \A n \in Nodes : \A p \in Higher(n) :
        (p2p[n][p] = 0) ~> (p2p[n][p] > 0 \/ BothSymmetric(n, p))

(* A pair with all its routes starts anew: the count that stretches the    *)
(* interval is forgotten, so that a lost route is asked for in the next    *)
(* round and not INTERVAL rounds later.                                    *)
RecordForgotten ==
    \A n \in Nodes : \A p \in Higher(n) :
        (p2p[n][p] = CHANNEL_NUM) ~> (record[n][p] < 2 \/ p2p[n][p] < CHANNEL_NUM)

(* The two sides of a punch never both wait: who is answered, or punches   *)
(* because of an answer, has a peer that took the request.                 *)
SidesAgree == TypeOK /\ AnsweredIsTaken
=============================================================================
