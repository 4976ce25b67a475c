---------------------------- MODULE RelayProofs ----------------------------
(***************************************************************************)
(* Theorems about Relay for every set of clients and links, every ttl and  *)
(* any number of packets on their way: what clients believe of their paths *)
(* is so.                                                                  *)
(***************************************************************************)
EXTENDS Relay, TLAPS

(* The lists of Relay once more, now with the lemmas about them. *)
Lists == INSTANCE RouteTableProofs WITH
    Ids <- Clients, Keys <- Clients \cup {Server}, Metrics <- 1 .. MAX_TTL,
    Rts <- {MEASURED}, CHANNEL_NUM <- 1, ONLY_P2P <- USE_CHANNEL = "P2p",
    READ_IDLE <- 1, Receivers <- {}, table <- routes, adding <- <<>>,
    reaping <- [none |-> TRUE]

(* The assumptions of RouteTable, of the values Relay gives its constants. *)
LEMMA ListAssumptions ==
    /\ 1 .. MAX_TTL \subseteq Nat \ {0}
    /\ {MEASURED} \subseteq Int /\ DEFAULT_RT \in Int
    /\ 1 \in Nat \ {0}
    /\ FIRST_LATENCY \in BOOLEAN /\ (USE_CHANNEL = "P2p") \in BOOLEAN
BY TtlAssumption, ModeAssumption DEF MEASURED, DEFAULT_RT

(* Both instances define the same operators. *)
LEMMA SameArrange ==
    ASSUME NEW s, NEW I, NEW le
    PROVE  Table!Arrange(s, I, le) = Lists!Arrange(s, I, le)
BY DEF Table!Arrange, Lists!Arrange, Table!Rank, Lists!Rank,
       Table!Cardinality, Lists!Cardinality

LEMMA SameRetain ==
    ASSUME NEW s, NEW k
    PROVE  /\ Table!RetainOther(s, k) = Lists!RetainOther(s, k)
           /\ Table!RetainP2p(s) = Lists!RetainP2p(s)
BY SameArrange DEF Table!RetainOther, Lists!RetainOther, Table!RetainP2p,
       Lists!RetainP2p, Table!InPlace, Lists!InPlace, Table!IsP2p, Lists!IsP2p

LEMMA SameSort ==
    ASSUME NEW s
    PROVE  Table!SortByRt(s) = Lists!SortByRt(s)
BY SameArrange DEF Table!SortByRt, Lists!SortByRt, Table!ByRt, Lists!ByRt

LEMMA SameTruncate ==
    ASSUME NEW s, NEW n
    PROVE  Table!Truncate(s, n) = Lists!Truncate(s, n)
BY DEF Table!Truncate, Lists!Truncate, Table!P2pPositions, Lists!P2pPositions,
       Table!IsP2p, Lists!IsP2p

LEMMA SameWrite ==
    ASSUME NEW s, NEW r, NEW absent
    PROVE  Table!WriteRoute(s, r, absent) = Lists!WriteRoute(s, r, absent)
<1>1. Table!AddNew(s, r) = Lists!AddNew(s, r)
  BY SameSort, SameTruncate, SameRetain
  DEF Table!AddNew, Lists!AddNew, Table!IsP2p, Lists!IsP2p
<1>2. Table!UpdateExisting(s, r) = Lists!UpdateExisting(s, r)
  BY SameSort, SameTruncate DEF Table!UpdateExisting, Lists!UpdateExisting
<1> QED
  BY <1>1, <1>2 DEF Table!WriteRoute, Lists!WriteRoute, Table!ScanRejects,
     Lists!ScanRejects, Table!PositionsOf, Lists!PositionsOf

-----------------------------------------------------------------------------
(* The inductive invariant.                                                *)

Machines == Clients \cup {Server}

PacketType ==
    [kind : Kinds, src : Clients, dst : Clients, source_ttl : 1 .. MAX_TTL,
     ttl : Nat, hops : Nat, from : Machines, to : Machines]

(* The ttl counts the hops unless the packet is about to be dropped; one   *)
(* that nobody passed on comes from the client that made it; and punching  *)
(* packets cannot be passed on at all, their ttl being 1.                  *)
Honest(p) ==
    /\ p \in PacketType /\ p.from # p.to
    /\ Outdated(p) \/ p.hops = p.source_ttl - p.ttl
    /\ p.hops = 0 => p.from = p.src
    /\ p.kind \in {"PunchRequest", "PunchResponse"} => p.source_ttl = 1

(* The list c keeps for d: sound, never back to c, direct only to d. *)
TrueList(c, d, s) ==
    /\ Lists!GoodList(s)
    /\ \A i \in DOMAIN s : s[i].key # c /\ (s[i].metric = 1 => s[i].key = d)

RoutesInv ==
    /\ routes \in [Clients -> [Clients -> Seq(Table!Route)]]
    /\ \A c, d \in Clients : TrueList(c, d, routes[c][d])
NetInv == \A p \in net : Honest(p)
CountInv == broken \subseteq Links /\ losses \in 0 .. MAX_LOSSES
Inv == RoutesInv /\ NetInv /\ CountInv

-----------------------------------------------------------------------------
(* Lists.                                                                  *)

(* A route may stand in the list of c for d. *)
TrueRoute(c, d, r) ==
    r \in Table!Route /\ r.key # c /\ (r.metric = 1 => r.key = d)

LEMMA ListType ==
    ASSUME NEW s, Lists!GoodList(s)
    PROVE  s \in Seq(Table!Route)
BY DEF Lists!GoodList, Lists!Route, Table!Route

(* add_route_ on a true list with a true route. *)
LEMMA WriteTrue ==
    ASSUME NEW c, NEW d, NEW s, TrueList(c, d, s), NEW r, TrueRoute(c, d, r),
           NEW absent \in BOOLEAN
    PROVE  TrueList(c, d, Table!WriteRoute(s, r, absent))
<1> DEFINE t == Lists!WriteRoute(s, r, absent)
<1>1. r \in Lists!Route /\ Lists!GoodList(s)
  BY DEF TrueRoute, TrueList, Lists!Route, Table!Route
<1>2. Lists!GoodList(t) /\ Lists!MadeOf(t, s, r)
  BY <1>1, ListAssumptions, Lists!WriteRouteProperties
<1> HIDE DEF t
<1>3. \A n \in DOMAIN t : t[n] = r \/ \E i \in DOMAIN s : t[n] = s[i]
  BY <1>2 DEF Lists!MadeOf
<1>4. TrueList(c, d, t)
  BY <1>2, <1>3 DEF TrueList, TrueRoute
<1> QED
  BY <1>4, SameWrite DEF t

LEMMA AbsentTrue ==
    ASSUME NEW c, NEW d, NEW s, TrueList(c, d, s), NEW r, TrueRoute(c, d, r)
    PROVE  TrueList(c, d, AbsentList(s, r))
BY WriteTrue DEF AbsentList

(* remove_route leaves routes that were there. *)
LEMMA RetainTrue ==
    ASSUME NEW c, NEW d, NEW s, TrueList(c, d, s), NEW k
    PROVE  TrueList(c, d, Table!RetainOther(s, k))
<1> DEFINE t == Lists!RetainOther(s, k)
<1>1. /\ s \in Seq(Lists!Route) /\ Lists!Distinct(s) /\ Len(s) <= Lists!MaxLen
  BY DEF TrueList, Lists!GoodList
<1>2. t \in Seq(Lists!Route) /\ Len(t) <= Len(s) /\ Lists!PartOf(t, s)
  BY <1>1, ListAssumptions, Lists!RetainOtherProperties
<1>3. Lists!Distinct(t)
  BY <1>1, <1>2, ListAssumptions, Lists!PartOfDistinct
<1>4. Lists!MaxLen \in Nat
  BY ListAssumptions, Lists!MaxLenType
<1> HIDE DEF t
<1>5. Lists!GoodList(t)
  BY <1>1, <1>2, <1>3, <1>4 DEF Lists!GoodList
<1>6. \A n \in DOMAIN t : \E i \in DOMAIN s : t[n] = s[i]
  BY <1>2 DEF Lists!PartOf
<1>7. TrueList(c, d, t)
  BY <1>5, <1>6 DEF TrueList
<1> QED
  BY <1>7, SameRetain DEF t

(* Replacing one list by a true one keeps the table true. *)
LEMMA SetListTrue ==
    ASSUME RoutesInv, NEW c \in Clients, NEW d \in Clients, NEW s,
           TrueList(c, d, s), SetList(c, d, s)
    PROVE  RoutesInv'
<1>1. s \in Seq(Table!Route)
  BY ListType DEF TrueList
<1>2. routes' \in [Clients -> [Clients -> Seq(Table!Route)]]
  BY <1>1 DEF SetList, RoutesInv
<1>3. \A x, y \in Clients : routes'[x][y] = IF x = c /\ y = d THEN s ELSE routes[x][y]
  BY DEF SetList, RoutesInv
<1> QED
  BY <1>2, <1>3 DEF RoutesInv

(* What a received packet tells of the way it came: its sender is another  *)
(* machine, and a metric of 1 means that it is the source itself.          *)
LEMMA HeardRoute ==
    ASSUME NEW p, Honest(p), ~ Outdated(p), NEW t \in {MEASURED, DEFAULT_RT}
    PROVE  TrueRoute(p.to, p.src, Table!NewRoute(p.from, Metric(p), t))
<1> DEFINE r == Table!NewRoute(p.from, Metric(p), t)
<1>1. /\ p.source_ttl \in 1 .. MAX_TTL /\ p.ttl \in 1 .. p.source_ttl
      /\ p.from \in Machines /\ p.from # p.to /\ p.hops = p.source_ttl - p.ttl
      /\ p.hops = 0 => p.from = p.src
  BY DEF Honest, PacketType, Outdated
<1>2. Metric(p) \in 1 .. MAX_TTL /\ (Metric(p) = 1 => p.hops = 0)
  BY <1>1, TtlAssumption DEF Metric
<1>3. r = [key |-> p.from, metric |-> Metric(p), rt |-> t, age |-> 0]
  BY DEF Table!NewRoute
<1> HIDE DEF r
<1>4. r \in Table!Route
  BY <1>1, <1>2, <1>3 DEF Table!Route, Machines
<1> QED
  BY <1>1, <1>2, <1>3, <1>4 DEF TrueRoute, r

(* The answer to a punch request came straight from its source. *)
LEMMA PunchedRoute ==
    ASSUME NEW p, Honest(p), ~ Outdated(p), p.kind = "PunchResponse"
    PROVE  TrueRoute(p.to, p.src, Table!NewRoute(p.from, 1, DEFAULT_RT))
<1>1. p.source_ttl = 1 /\ p.ttl \in Nat
  BY DEF Honest, PacketType
<1>2. Metric(p) = 1
  BY <1>1 DEF Metric, Outdated
<1> QED
  BY <1>2, HeardRoute

-----------------------------------------------------------------------------
(* Packets.                                                                *)

(* send: what is on its way is what was, and the packet sent. *)
LEMMA SendHonest ==
    ASSUME NetInv, NEW rest \in SUBSET net, NEW q, Honest(q), SendByKey(rest, q)
    PROVE  NetInv'
BY DEF NetInv, SendByKey

LEMMA TakenHonest ==
    ASSUME NetInv, net' \subseteq net
    PROVE  NetInv'
BY DEF NetInv

(* A packet a client makes. *)
LEMMA PacketHonest ==
    ASSUME NEW k \in Kinds, NEW c \in Clients, NEW d \in Clients,
           NEW t \in 1 .. MAX_TTL, NEW to \in Machines, to # c,
           k \in {"PunchRequest", "PunchResponse"} => t = 1
    PROVE  Honest(Packet(k, c, d, t, c, to))
<1> DEFINE q == Packet(k, c, d, t, c, to)
<1>1. q = [kind |-> k, src |-> c, dst |-> d, source_ttl |-> t, ttl |-> t,
           hops |-> 0, from |-> c, to |-> to]
  BY DEF Packet
<1> HIDE DEF q
<1>2. q \in PacketType
  BY <1>1, TtlAssumption DEF PacketType, Machines
<1> QED
  BY <1>1, <1>2, TtlAssumption DEF Honest, q

(* The answer to a packet. *)
LEMMA AnswerHonest ==
    ASSUME NEW p, Honest(p), p.to \in Clients, NEW k \in Kinds, NEW t \in 1 .. MAX_TTL,
           k \in {"PunchRequest", "PunchResponse"} => t = 1
    PROVE  Honest(Answer(p.to, p, k, t))
<1>1. p.from \in Machines /\ p.from # p.to /\ p.src \in Clients
  BY DEF Honest, PacketType
<1> QED
  BY <1>1, PacketHonest DEF Answer

(* A packet that is passed on. *)
LEMMA TurnedHonest ==
    ASSUME NEW p, Honest(p), ~ Outdated(p), NEW c \in Machines, NEW to \in Machines,
           to # c
    PROVE  Honest([incr_ttl(p) EXCEPT !.from = c, !.to = to])
<1> DEFINE q == [incr_ttl(p) EXCEPT !.from = c, !.to = to]
<1>1. /\ p \in PacketType /\ p.ttl \in Nat \ {0} /\ p.hops \in Nat
      /\ p.source_ttl \in Nat /\ p.hops = p.source_ttl - p.ttl
  BY TtlAssumption DEF Honest, PacketType, Outdated
<1>2. /\ q \in PacketType /\ q.from = c /\ q.to = to /\ q.ttl = p.ttl - 1
      /\ q.hops = p.hops + 1 /\ q.source_ttl = p.source_ttl /\ q.kind = p.kind
  <2> DEFINE u == incr_ttl(p)
  <2>1. p.ttl - 1 \in Nat /\ p.hops + 1 \in Nat
    BY <1>1
  <2>2. /\ u \in PacketType /\ u.ttl = p.ttl - 1 /\ u.hops = p.hops + 1
        /\ u.source_ttl = p.source_ttl /\ u.kind = p.kind
    BY <1>1, <2>1 DEF incr_ttl, PacketType
  <2> HIDE DEF u
  <2>3. q = [u EXCEPT !.from = c, !.to = to]
    BY DEF u
  <2> HIDE DEF q
  <2> QED
    BY <2>2, <2>3 DEF PacketType
<1> HIDE DEF q
<1>3. q.hops = q.source_ttl - q.ttl /\ q.hops # 0
  BY <1>1, <1>2
<1>4. q.kind \in {"PunchRequest", "PunchResponse"} => q.source_ttl = 1
  BY <1>2 DEF Honest
<1>5. Honest(q)
  BY <1>2, <1>3, <1>4 DEF Honest
<1> QED
  BY <1>5 DEF q

(* An echo request that is sent back. *)
LEMMA EchoHonest ==
    ASSUME NEW p, Honest(p), ~ Outdated(p), p.to \in Clients, p.kind = "Echo"
    PROVE  Honest([p EXCEPT !.kind = "Data", !.src = p.to, !.dst = p.src,
                            !.from = p.to, !.to = p.from])
<1> DEFINE q == [p EXCEPT !.kind = "Data", !.src = p.to, !.dst = p.src,
                          !.from = p.to, !.to = p.from]
<1>1. p \in PacketType /\ p.from # p.to /\ p.hops = p.source_ttl - p.ttl
  BY DEF Honest
<1>2. /\ q \in PacketType /\ q.from = p.to /\ q.to = p.from /\ q.src = p.to
      /\ q.ttl = p.ttl /\ q.hops = p.hops /\ q.source_ttl = p.source_ttl
      /\ q.kind = "Data"
  BY <1>1 DEF PacketType, Kinds
<1> HIDE DEF q
<1>3. Honest(q)
  BY <1>1, <1>2 DEF Honest
<1> QED
  BY <1>3 DEF q

(* A packet damaged so that its ttl is larger than it started with. *)
LEMMA DamagedHonest ==
    ASSUME NEW p, Honest(p)
    PROVE  Honest([p EXCEPT !.ttl = p.source_ttl + 2])
<1> DEFINE q == [p EXCEPT !.ttl = p.source_ttl + 2]
<1>1. p \in PacketType /\ p.source_ttl \in Nat
  BY TtlAssumption DEF Honest, PacketType
<1>2. /\ q \in PacketType /\ q.from = p.from /\ q.to = p.to /\ q.src = p.src
      /\ q.ttl = p.source_ttl + 2 /\ q.hops = p.hops /\ q.source_ttl = p.source_ttl
      /\ q.kind = p.kind
  BY <1>1 DEF PacketType
<1> HIDE DEF q
<1>3. Outdated(q)
  BY <1>1, <1>2 DEF Outdated
<1>4. q.kind \in {"PunchRequest", "PunchResponse"} => q.source_ttl = 1
  BY <1>2 DEF Honest
<1>5. Honest(q)
  BY <1>2, <1>3, <1>4 DEF Honest
<1> QED
  BY <1>5 DEF q

-----------------------------------------------------------------------------
(* The handlers.                                                           *)

LEMMA InitInv == Init => Inv
<1> SUFFICES ASSUME Init PROVE Inv
  OBVIOUS
<1>1. << >> \in Seq(Table!Route) /\ << >> \in Seq(Lists!Route)
      /\ Len(<< >>) = 0 /\ DOMAIN << >> = {}
  OBVIOUS
<1>2. Lists!MaxLen \in Nat
  BY ListAssumptions, Lists!MaxLenType
<1>3. \A c, d \in Clients : TrueList(c, d, << >>)
  BY <1>1, <1>2 DEF TrueList, Lists!GoodList, Lists!Distinct
<1>4. RoutesInv
  BY <1>1, <1>3 DEF Init, RoutesInv
<1> QED
  BY <1>4, BoundsAssumption DEF Init, Inv, NetInv, CountInv

(* handle0, for a packet of any kind that is not dropped. *)
LEMMA ReceiveInv ==
    ASSUME Inv, NEW p \in net, Receive(p)
    PROVE  Inv'
<1> DEFINE c == p.to
<1>1. /\ RoutesInv /\ NetInv /\ Honest(p) /\ c \in Clients /\ ~ Outdated(p)
      /\ UNCHANGED <<broken, losses>>
  BY DEF Inv, NetInv, Receive
<1>2. CountInv'
  BY <1>1 DEF Inv, CountInv
<1>3. /\ p.src \in Clients /\ p.dst \in Clients /\ p.from \in Machines
      /\ MAX_TTL \in 1 .. MAX_TTL /\ 1 \in 1 .. MAX_TTL
  BY <1>1, TtlAssumption DEF Honest, PacketType
<1>4. TrueList(c, p.src, routes[c][p.src])
  BY <1>1, <1>3 DEF RoutesInv
<1>5. (net \ {p}) \in SUBSET net
  OBVIOUS
<1>6. net' = net \ {p} => NetInv'
  BY <1>1, TakenHonest
<1>7. UNCHANGED routes => RoutesInv'
  BY <1>1 DEF RoutesInv
<1>8. CASE Turn(c, p)
  <2>1. UNCHANGED routes
    BY <1>8 DEF Turn
  <2> DEFINE q == incr_ttl(p)
  <2>2. CASE net' = net \ {p}
    BY <2>1, <2>2, <1>2, <1>6, <1>7 DEF Inv
  <2>3. ASSUME NEW r \in TurnRoute(c, p, q.ttl),
               SendByKey(net \ {p}, [q EXCEPT !.from = c, !.to = r.key])
        PROVE  NetInv'
    <3>1. PICK i \in DOMAIN routes[c][p.dst] : r = routes[c][p.dst][i]
      BY <2>3 DEF TurnRoute, route_one
    <3>2. TrueList(c, p.dst, routes[c][p.dst]) /\ routes[c][p.dst] \in Seq(Table!Route)
      BY <1>1, <1>3 DEF RoutesInv
    <3>3. r \in Table!Route /\ r.key # c
      BY <3>1, <3>2 DEF TrueList
    <3>4. r.key \in Machines
      BY <3>3 DEF Table!Route, Machines
    <3>5. Honest([q EXCEPT !.from = c, !.to = r.key])
      BY <1>1, <3>3, <3>4, TurnedHonest DEF Machines
    <3> HIDE DEF q
    <3> QED
      BY <1>1, <1>5, <2>3, <3>5, SendHonest
  <2> QED
    BY <1>2, <1>6, <1>7, <1>8, <2>1, <2>3 DEF Turn, Inv
<1>9. CASE Ping(c, p)
  <2> DEFINE s == routes[c][p.src]
             r == Table!NewRoute(p.from, Metric(p), DEFAULT_RT)
  <2>1. TrueRoute(c, p.src, r)
    BY <1>1, HeardRoute
  <2> HIDE DEF r
  <2>2. TrueList(c, p.src, AbsentList(s, r))
    BY <1>4, <2>1, AbsentTrue
  <2>3. RoutesInv'
    BY <1>1, <1>3, <1>9, <2>2, SetListTrue DEF Ping, r
  <2>4. Honest(Answer(c, p, "Pong", MAX_TTL))
    BY <1>1, <1>3, AnswerHonest DEF Kinds
  <2>5. SendByKey(net \ {p}, Answer(c, p, "Pong", MAX_TTL)) \/ net' = net \ {p}
    BY <1>9 DEF Ping
  <2>6. NetInv'
    BY <1>1, <1>5, <1>6, <2>4, <2>5, SendHonest
  <2> QED
    BY <1>2, <2>3, <2>6 DEF Inv
<1>10. CASE Pong(c, p)
  <2> DEFINE r == Table!NewRoute(p.from, Metric(p), MEASURED)
             s == IF Table!ChannelAllowed(r) THEN Table!WriteRoute(routes[c][p.src], r, FALSE)
                                             ELSE routes[c][p.src]
  <2>1. TrueRoute(c, p.src, r)
    BY <1>1, HeardRoute
  <2>2. SetList(c, p.src, s) /\ net' = net \ {p}
    BY <1>10 DEF Pong
  <2> HIDE DEF r
  <2>3. TrueList(c, p.src, s)
    BY <1>4, <2>1, WriteTrue
  <2> HIDE DEF s
  <2>4. RoutesInv'
    BY <1>1, <1>3, <2>2, <2>3, SetListTrue
  <2> QED
    BY <1>2, <1>6, <2>2, <2>4 DEF Inv
<1>11. CASE PunchRequest(c, p)
  <2>1. UNCHANGED routes
        /\ (net' = net \ {p} \/ SendByKey(net \ {p}, Answer(c, p, "PunchResponse", 1)))
    BY <1>11 DEF PunchRequest
  <2>2. Honest(Answer(c, p, "PunchResponse", 1))
    BY <1>1, <1>3, AnswerHonest DEF Kinds
  <2>3. NetInv'
    BY <1>1, <1>5, <1>6, <2>1, <2>2, SendHonest
  <2> QED
    BY <1>2, <1>7, <2>1, <2>3 DEF Inv
<1>12. CASE PunchResponse(c, p)
  <2> DEFINE r == Table!NewRoute(p.from, 1, DEFAULT_RT)
             s == IF USE_CHANNEL = "Relay" THEN routes[c][p.src]
                                           ELSE AbsentList(routes[c][p.src], r)
  <2>1. p.kind = "PunchResponse" /\ SetList(c, p.src, s) /\ net' = net \ {p}
    BY <1>12 DEF PunchResponse
  <2>2. TrueRoute(c, p.src, r)
    BY <1>1, <2>1, PunchedRoute
  <2> HIDE DEF r
  <2>3. TrueList(c, p.src, s)
    BY <1>4, <2>2, AbsentTrue
  <2> HIDE DEF s
  <2>4. RoutesInv'
    BY <1>1, <1>3, <2>1, <2>3, SetListTrue
  <2> QED
    BY <1>2, <1>6, <2>1, <2>4 DEF Inv
<1>13. CASE Echo(c, p)
  <2> DEFINE q == [p EXCEPT !.kind = "Data", !.src = c, !.dst = p.src,
                            !.from = c, !.to = p.from]
  <2>1. p.kind = "Echo" /\ UNCHANGED routes /\ SendByKey(net \ {p}, q)
    BY <1>13 DEF Echo
  <2>2. Honest(q)
    BY <1>1, <2>1, EchoHonest
  <2> HIDE DEF q
  <2>3. NetInv'
    BY <1>1, <1>5, <2>1, <2>2, SendHonest
  <2> QED
    BY <1>2, <1>7, <2>1, <2>3 DEF Inv
<1>14. CASE Data(c, p)
  BY <1>2, <1>6, <1>7, <1>14 DEF Data, Inv
<1> QED
  BY <1>8, <1>9, <1>10, <1>11, <1>12, <1>13, <1>14 DEF Receive

(* The server passes on, or drops, what reaches it. *)
LEMMA ServerInv ==
    ASSUME Inv, NEW p \in net, ServerTurn(p)
    PROVE  Inv'
<1> DEFINE q == [incr_ttl(p) EXCEPT !.from = Server, !.to = p.dst]
<1>1. NetInv /\ Honest(p) /\ UNCHANGED <<routes, broken, losses>>
  BY DEF Inv, NetInv, ServerTurn
<1>2. net' = net \ {p} \/ (~ Outdated(p) /\ net' = (net \ {p}) \cup {q})
  BY DEF ServerTurn
<1>3. p.dst \in Machines /\ p.dst # Server /\ Server \in Machines
  BY <1>1, ClientsAssumption DEF Honest, PacketType, Machines
<1>4. ~ Outdated(p) => Honest(q)
  BY <1>1, <1>3, TurnedHonest
<1> HIDE DEF q
<1>5. NetInv'
  BY <1>1, <1>2, <1>4 DEF NetInv
<1> QED
  BY <1>1, <1>5 DEF Inv, RoutesInv, CountInv

(* A ping, a punch packet or data that a client sends on its own. *)
LEMMA SentInv ==
    ASSUME Inv, NEW k \in Kinds, NEW c \in Clients, NEW d \in Clients,
           NEW t \in 1 .. MAX_TTL, NEW to \in Machines, to # c,
           k \in {"PunchRequest", "PunchResponse"} => t = 1,
           SendByKey(net, Packet(k, c, d, t, c, to)), UNCHANGED <<routes, broken, losses>>
    PROVE  Inv'
<1>1. Honest(Packet(k, c, d, t, c, to))
  BY PacketHonest
<1>2. NetInv'
  BY <1>1, SendHonest DEF Inv
<1> QED
  BY <1>2 DEF Inv, RoutesInv, CountInv

(* The keys of a route list are machines other than its owner. *)
LEMMA KeysElsewhere ==
    ASSUME RoutesInv, NEW c \in Clients, NEW d \in Clients, NEW i \in DOMAIN routes[c][d]
    PROVE  routes[c][d][i].key \in Machines /\ routes[c][d][i].key # c
<1>1. routes[c][d] \in Seq(Table!Route) /\ TrueList(c, d, routes[c][d])
  BY DEF RoutesInv
<1>2. routes[c][d][i] \in Table!Route
  BY <1>1
<1> QED
  BY <1>1, <1>2 DEF TrueList, Table!Route, Machines

(* Every step keeps the invariant. *)
LEMMA NextInv == Inv /\ [Next]_vars => Inv'
<1> SUFFICES ASSUME Inv, [Next]_vars PROVE Inv'
  OBVIOUS
<1>1. /\ RoutesInv /\ NetInv /\ CountInv
      /\ PING_TTL \in 1 .. MAX_TTL /\ DATA_TTL \in 1 .. MAX_TTL /\ 1 \in 1 .. MAX_TTL
      /\ Server \in Machines /\ \A c \in Clients : c \in Machines /\ c # Server
  BY TtlAssumption, ClientsAssumption DEF Inv, Machines
<1>2. ASSUME NEW p \in net, Handle(p)
      PROVE  Inv'
  <2>1. CASE Receive(p)
    BY <2>1, ReceiveInv
  <2>2. CASE Drop(p)
    BY <1>1, <2>2, TakenHonest DEF Drop, Inv, RoutesInv, CountInv
  <2>3. CASE ServerTurn(p)
    BY <2>3, ServerInv
  <2> QED
    BY <1>2, <2>1, <2>2, <2>3 DEF Handle
<1>3. ASSUME NEW p \in net, Lose(p)
      PROVE  Inv'
  <2>1. NetInv' /\ RoutesInv'
    BY <1>1, <1>3, TakenHonest DEF Lose, RoutesInv
  <2>2. CountInv'
    BY <1>1, <1>3, BoundsAssumption DEF Lose, CountInv
  <2> QED
    BY <2>1, <2>2 DEF Inv
<1>4. ASSUME NEW p \in net, Damage(p)
      PROVE  Inv'
  <2> DEFINE q == [p EXCEPT !.ttl = p.source_ttl + 2]
  <2>1. Honest(q)
    BY <1>1, DamagedHonest DEF NetInv
  <2>2. net' = (net \ {p}) \cup {q} /\ UNCHANGED <<routes, broken>>
    BY <1>4 DEF Damage
  <2> HIDE DEF q
  <2>3. NetInv' /\ RoutesInv'
    BY <1>1, <2>1, <2>2 DEF NetInv, RoutesInv
  <2>4. CountInv'
    BY <1>1, <1>4, BoundsAssumption DEF Damage, CountInv
  <2> QED
    BY <2>3, <2>4 DEF Inv
<1>5. ASSUME NEW c \in Clients, NEW d \in Peers(c), Heartbeat(c, d)
      PROVE  Inv'
  <2>1. d \in Clients /\ UNCHANGED <<routes, broken, losses>>
    BY <1>5 DEF Peers, Heartbeat
  <2>2. PICK to \in Machines :
             to # c /\ SendByKey(net, Packet("Ping", c, d, PING_TTL, c, to))
    BY <1>1, <1>5, <2>1, KeysElsewhere DEF Heartbeat
  <2> QED
    BY <1>1, <2>1, <2>2, SentInv DEF Kinds
<1>6. ASSUME NEW c \in Clients, NEW d \in Peers(c), PunchSend(c, d)
      PROVE  Inv'
  <2>1. d \in Clients /\ d # c /\ d \in Machines /\ UNCHANGED <<routes, broken, losses>>
        /\ SendByKey(net, Packet("PunchRequest", c, d, 1, c, d))
    BY <1>1, <1>6 DEF Peers, PunchSend
  <2> QED
    BY <1>1, <2>1, SentInv DEF Kinds
<1>7. ASSUME NEW c \in Clients, NEW d \in Peers(c), SendData(c, d)
      PROVE  Inv'
  <2>1. d \in Clients /\ UNCHANGED <<routes, broken, losses>>
    BY <1>7 DEF Peers, SendData
  <2>2. \A r \in get_route_by_id(routes[c][d]) : r.key \in Machines /\ r.key # c
    <3>1. \A r \in get_route_by_id(routes[c][d]) :
             \E i \in DOMAIN routes[c][d] : r = routes[c][d][i]
      BY DEF get_route_by_id
    <3> QED
      BY <1>1, <2>1, <3>1, KeysElsewhere
  <2>3. PICK kind \in {"Echo", "Data"}, to \in Machines :
             to # c /\ SendByKey(net, Packet(kind, c, d, DATA_TTL, c, to))
    BY <1>1, <1>7, <2>2 DEF SendData
  <2> QED
    BY <1>1, <2>1, <2>3, SentInv DEF Kinds
<1>8. ASSUME NEW c \in Clients, NEW d \in Peers(c), NEW v \in Peers(c), ClientRelay(c, d, v)
      PROVE  Inv'
  <2>1. d \in Clients /\ v \in Machines /\ v # c /\ UNCHANGED <<routes, broken, losses>>
        /\ SendByKey(net, Packet("Ping", c, d, PING_TTL, c, v))
    BY <1>1, <1>8 DEF Peers, ClientRelay
  <2> QED
    BY <1>1, <2>1, SentInv DEF Kinds
<1>9. ASSUME NEW c \in Clients, NEW d \in Peers(c), NEW i \in DOMAIN routes[c][d],
             RouteIdle(c, d, i)
      PROVE  Inv'
  <2> DEFINE s == Table!RetainOther(routes[c][d], routes[c][d][i].key)
  <2>1. d \in Clients /\ SetList(c, d, s) /\ UNCHANGED <<net, broken, losses>>
    BY <1>9 DEF Peers, RouteIdle
  <2>2. TrueList(c, d, s)
    BY <1>1, <2>1, RetainTrue DEF RoutesInv
  <2> HIDE DEF s
  <2>3. RoutesInv'
    BY <1>1, <2>1, <2>2, SetListTrue
  <2> QED
    BY <1>1, <2>1, <2>3 DEF Inv, NetInv, CountInv
<1>10. ASSUME NEW l \in Links, Break(l)
      PROVE  Inv'
  <2>1. NetInv' /\ RoutesInv'
    BY <1>1, <1>10, TakenHonest DEF Break, RoutesInv
  <2>2. CountInv'
    BY <1>1, <1>10, BoundsAssumption, ClientsAssumption DEF Break, CountInv
  <2> QED
    BY <2>1, <2>2 DEF Inv
<1>11. CASE UNCHANGED vars
  BY <1>11 DEF vars, Inv, RoutesInv, NetInv, CountInv
<1> QED
  BY <1>2, <1>3, <1>4, <1>5, <1>6, <1>7, <1>8, <1>9, <1>10, <1>11 DEF Next

(* The inductive invariant holds in every reachable state. *)
THEOREM Invariance == Spec => []Inv
BY InitInv, NextInv, PTL DEF Spec

(* What a client believes of a path is so, for any number of clients that  *)
(* relay for each other over any links: the ttl counts the hops, and a     *)
(* route of metric 1 leads to the peer itself.                             *)
THEOREM BeliefsAreTrue == Spec => []RoutesAreTrue
<1>1. Inv => TypeOK
  <2> SUFFICES ASSUME Inv PROVE TypeOK
    OBVIOUS
  <2>1. ASSUME NEW c \in Clients, NEW d \in Clients, NEW i \in DOMAIN routes[c][d]
        PROVE  /\ routes[c][d][i].key \in Machines /\ routes[c][d][i].key # c
               /\ routes[c][d][i].metric \in 1 .. MAX_TTL
    <3>1. routes[c][d] \in Seq(Table!Route)
      BY DEF Inv, RoutesInv
    <3>2. routes[c][d][i] \in Table!Route
      BY <3>1
    <3>3. routes[c][d][i].metric \in 1 .. MAX_TTL
      BY <3>2 DEF Table!Route
    <3> QED
      BY <3>3, KeysElsewhere DEF Inv
  <2>2. \A p \in net : /\ p.kind \in Kinds /\ {p.src, p.dst} \subseteq Clients
                       /\ {p.from, p.to} \subseteq Machines /\ p.from # p.to
    BY DEF Inv, NetInv, Honest, PacketType
  <2> QED
    BY <2>1, <2>2 DEF TypeOK, Inv, CountInv, Machines
<1>2. Inv => TtlCountsHops
  BY DEF Inv, NetInv, Honest, TtlCountsHops
<1>3. Inv => P2pIsDirect
  BY DEF Inv, RoutesInv, TrueList, P2pIsDirect, Table!P2pPositions, Table!IsP2p
<1> QED
  BY <1>1, <1>2, <1>3, Invariance, PTL DEF RoutesAreTrue
=============================================================================
