------------------------------- MODULE Relay -------------------------------
(***************************************************************************)
(* The packets clients exchange and relay for each other, and the routes   *)
(* they learn from them: handle/recv_data/{mod,client,turn}.rs, the        *)
(* heartbeats of handle/maintain/heartbeat.rs and the sending side         *)
(* send_ipv4_by_id of channel/context.rs.  Every client holds a route      *)
(* table; its lists change by the operators of RouteTable.                 *)
(*                                                                         *)
(* A client has one address, and a route key is the address of a client or *)
(* of the server.  The head of a packet has the ttl it started with and    *)
(* the ttl it has left; hops is a history variable that counts the         *)
(* machines that passed it on.  The server, external, passes packets on as *)
(* a client does; the network loses packets on broken links, and breaks    *)
(* links and loses or damages packets a bounded number of times.           *)
(***************************************************************************)
EXTENDS Integers, Sequences, FiniteSets

CONSTANTS
    Clients,         \* virtual ips, which are ordered: numbers
    Server,          \* the address of the server
    Links,           \* pairs of clients between which a hole can be punched
    Watched,         \* the links that are relied on to be heard on
    PING_TTL,        \* ttl of a heartbeat, 5
    DATA_TTL,        \* ttl of a packet from the device, 6
    MAX_TTL,         \* ttl of an answer, 15
    USE_CHANNEL,     \* use_channel_type: "Relay", "P2p" or "All"
    FIRST_LATENCY,
    MAX_FLIGHT,      \* bound: packets on their way at a time
    MAX_LOSSES       \* bound: links broken, packets lost or damaged

ASSUME ClientsAssumption ==
    /\ Clients \subseteq Nat /\ Server \notin Clients
    /\ Links \subseteq Clients \X Clients
    /\ Watched \subseteq Links
    /\ \A l \in Links : <<l[2], l[1]>> \in Links /\ l[1] # l[2]
ASSUME TtlAssumption ==
    /\ {PING_TTL, DATA_TTL, MAX_TTL} \subseteq Nat \ {0}
    /\ PING_TTL <= MAX_TTL /\ DATA_TTL <= MAX_TTL
ASSUME ModeAssumption == FIRST_LATENCY \in BOOLEAN
ASSUME BoundsAssumption == MAX_FLIGHT \in Nat /\ MAX_LOSSES \in Nat

VARIABLES
    routes,          \* routes[c][d]: the list of routes of client c to d
    net,             \* packets on their way
    broken,          \* links that no longer carry packets
    losses           \* counted against MAX_LOSSES

vars == <<routes, net, broken, losses>>

DEFAULT_RT == 9999
MEASURED == 1        \* the rt of a route that was measured

(* The lists of RouteTable; no thread is between two of its steps here. *)
Table == INSTANCE RouteTable WITH
    Ids <- Clients, Keys <- Clients \cup {Server}, Metrics <- 1 .. MAX_TTL,
    Rts <- {MEASURED}, CHANNEL_NUM <- 1, ONLY_P2P <- USE_CHANNEL = "P2p",
    READ_IDLE <- 1, Receivers <- {}, table <- routes, adding <- <<>>,
    reaping <- [none |-> TRUE]

Kinds == {"Ping", "Pong", "PunchRequest", "PunchResponse", "Echo", "Data"}
Packet(k, s, d, t, from, to) ==
    [kind |-> k, src |-> s, dst |-> d, source_ttl |-> t, ttl |-> t,
     hops |-> 0, from |-> from, to |-> to]

Room == Cardinality(net) < MAX_FLIGHT
(* A packet is lost between clients whose link is broken or never was. *)
Carried(p) ==
    \/ Server \in {p.from, p.to}
    \/ <<p.from, p.to>> \in Links \ broken
SendByKey(rest, p) == net' = rest \cup {q \in {p} : Carried(q)}

-----------------------------------------------------------------------------
(* The route table of a client.                                            *)

(* add_route_if_absent: the list it leaves, and what it returns. *)
AbsentAdded(s, r) ==
    /\ Table!ChannelAllowed(r)
    /\ \/ Table!PositionsOf(s, r.key) # {}
       \/ /\ FIRST_LATENCY \/ Table!P2pPositions(s) = {}
          /\ Table!PositionsOf(Table!WriteRoute(s, r, TRUE), r.key) # {}
AbsentList(s, r) ==
    IF /\ Table!ChannelAllowed(r) /\ Table!PositionsOf(s, r.key) = {}
       /\ FIRST_LATENCY \/ Table!P2pPositions(s) = {}
    THEN Table!WriteRoute(s, r, TRUE) ELSE s

(* The whole list of id is replaced. *)
SetList(c, d, s) == routes' = [routes EXCEPT ![c][d] = s]

(* get_route_by_id: a route that was measured, the first one of the list. *)
get_route_by_id(s) ==
    IF FIRST_LATENCY THEN {s[i] : i \in DOMAIN s \cap {1}}
    ELSE LET known == {i \in DOMAIN s : s[i].rt # DEFAULT_RT} IN
         {s[i] : i \in {j \in known : \A k \in known : j <= k}}

(* route_one: the first route of the list. *)
route_one(s) == {s[i] : i \in DOMAIN s \cap {1}}

HasDirect(c, d) == Table!P2pPositions(routes[c][d]) # {}

-----------------------------------------------------------------------------
(* A packet arrives.                                                       *)

(* handle0: the packet is dropped. *)
Outdated_Low(p) == p.ttl = 0
Outdated(p) == p.ttl = 0 \/ p.source_ttl < p.ttl

(* The number of links a packet came over. *)
Metric_Short(p) == p.source_ttl - p.ttl
Metric(p) == p.source_ttl - p.ttl + 1

Answer(c, p, kind, ttl) == Packet(kind, c, p.src, ttl, c, p.from)

(* ClientPacketHandler::control, on a packet for c that was taken from the *)
(* network, and the data that ip_turn writes to the device.                *)
Ping_Forgets(c, p) ==
    /\ p.kind = "Ping" /\ SetList(c, p.src, routes[c][p.src])
    /\ SendByKey(net \ {p}, Answer(c, p, "Pong", MAX_TTL))
Ping(c, p) ==
    LET s == routes[c][p.src]
        r == Table!NewRoute(p.from, Metric(p), DEFAULT_RT)
    IN  /\ p.kind = "Ping" /\ SetList(c, p.src, AbsentList(s, r))
        /\ IF AbsentAdded(s, r) \/ p.src < c
           THEN SendByKey(net \ {p}, Answer(c, p, "Pong", MAX_TTL)) ELSE net' = net \ {p}

(* A pong is dropped when the 16-bit clock has wrapped since the ping. *)
Pong(c, p) ==
    LET r == Table!NewRoute(p.from, Metric(p), MEASURED) IN
    /\ p.kind = "Pong"
    /\ SetList(c, p.src,
               IF Table!ChannelAllowed(r) THEN Table!WriteRoute(routes[c][p.src], r, FALSE)
                                          ELSE routes[c][p.src])
    /\ net' = net \ {p}

PunchRequest(c, p) ==
    /\ p.kind = "PunchRequest"
    /\ IF USE_CHANNEL = "Relay" THEN net' = net \ {p}
                                ELSE SendByKey(net \ {p}, Answer(c, p, "PunchResponse", 1))
    /\ UNCHANGED routes

PunchResponse(c, p) ==
    LET r == Table!NewRoute(p.from, 1, DEFAULT_RT) IN
    /\ p.kind = "PunchResponse"
    /\ SetList(c, p.src, IF USE_CHANNEL = "Relay" THEN routes[c][p.src]
                                                  ELSE AbsentList(routes[c][p.src], r))
    /\ net' = net \ {p}

(* An echo request is answered over the way it came, with the ttl it has   *)
(* left; other data goes to the device.                                    *)
Echo(c, p) ==
    /\ p.kind = "Echo" /\ UNCHANGED routes
    /\ SendByKey(net \ {p},
                 [p EXCEPT !.kind = "Data", !.src = c, !.dst = p.src, !.from = c, !.to = p.from])
Data(c, p) ==
    /\ p.kind = "Data"
    /\ net' = net \ {p} /\ UNCHANGED routes

(* TurnPacketHandler: the packet goes on with one ttl less, to the first   *)
(* route of its destination that does not lead back and is short enough.   *)
(* incr_ttl takes one from a ttl that is not 0.                            *)
incr_ttl_Kept(p) == [p EXCEPT !.hops = @ + 1]
incr_ttl(p) == [p EXCEPT !.ttl = @ - 1, !.hops = @ + 1]
TurnRoute(c, p, ttl) ==
    {r \in route_one(routes[c][p.dst]) : ttl > 0 /\ r.key # p.from /\ r.metric <= ttl}
Turn(c, p) ==
    LET q == incr_ttl(p) IN
    /\ p.dst # c
    /\ IF TurnRoute(c, p, q.ttl) = {} THEN net' = net \ {p}
       ELSE \E r \in TurnRoute(c, p, q.ttl) :
               SendByKey(net \ {p}, [q EXCEPT !.from = c, !.to = r.key])
    /\ UNCHANGED routes

Receive(p) ==
    LET c == p.to IN
    /\ c \in Clients /\ ~ Outdated(p)
    /\ \/ Turn(c, p)
       \/ /\ p.dst = c
          /\ Ping(c, p) \/ Pong(c, p) \/ PunchRequest(c, p) \/ PunchResponse(c, p)
             \/ Echo(c, p) \/ Data(c, p)
    /\ UNCHANGED <<broken, losses>>
Drop(p) ==
    /\ p.to \in Clients /\ Outdated(p) /\ net' = net \ {p}
    /\ UNCHANGED <<routes, broken, losses>>

(* The server passes a packet on to its destination (external). *)
ServerTurn(p) ==
    LET q == incr_ttl(p) IN
    /\ p.to = Server
    /\ IF Outdated(p) THEN net' = net \ {p}
       ELSE net' = (net \ {p}) \cup {[q EXCEPT !.from = Server, !.to = p.dst]}
    /\ UNCHANGED <<routes, broken, losses>>

-----------------------------------------------------------------------------
(* What a client sends on its own.                                         *)

Peers(c) == Clients \ {c}

(* heartbeat0: a ping on every route, and over the server to a client      *)
(* without a route.                                                        *)
Heartbeat(c, d) ==
    /\ Room
    /\ \/ \E i \in DOMAIN routes[c][d] :
             SendByKey(net, Packet("Ping", c, d, PING_TTL, c, routes[c][d][i].key))
       \/ /\ routes[c][d] = <<>>
          /\ SendByKey(net, Packet("Ping", c, d, PING_TTL, c, Server))
    /\ UNCHANGED <<routes, broken, losses>>

(* client_relay0: a client without a direct route is looked for through    *)
(* the clients that have one.                                              *)
ClientRelay(c, d, via) ==
    /\ Room /\ HasDirect(c, via)
    /\ FIRST_LATENCY \/ ~ HasDirect(c, d)
    /\ SendByKey(net, Packet("Ping", c, d, PING_TTL, c, via))
    /\ UNCHANGED <<routes, broken, losses>>

(* A packet of Punch::punch, to the address of the other client. *)
PunchSend(c, d) ==
    /\ Room /\ <<c, d>> \in Links /\ ~ HasDirect(c, d)
    /\ SendByKey(net, Packet("PunchRequest", c, d, 1, c, d))
    /\ UNCHANGED <<routes, broken, losses>>

(* send_ipv4_by_id: a packet of the device goes by a route that was        *)
(* measured, or to the server unless only direct routes are used.          *)
SendData(c, d) ==
    /\ Room
    /\ LET found == get_route_by_id(routes[c][d]) IN
       \E kind \in {"Echo", "Data"} :
          \/ \E r \in found : SendByKey(net, Packet(kind, c, d, DATA_TTL, c, r.key))
          \/ /\ found = {} /\ USE_CHANNEL # "P2p"
             /\ SendByKey(net, Packet(kind, c, d, DATA_TTL, c, Server))
    /\ UNCHANGED <<routes, broken, losses>>

(* idle_route0 removes a route that nothing is heard on any more. *)
RouteIdle(c, d, i) ==
    LET k == routes[c][d][i].key IN
    /\ <<c, k>> \in broken \/ (k # d /\ k # Server)
    /\ SetList(c, d, Table!RetainOther(routes[c][d], k))
    /\ UNCHANGED <<net, broken, losses>>

(* The network. *)
Damage(p) ==
    /\ losses < MAX_LOSSES /\ losses' = losses + 1
    /\ net' = (net \ {p}) \cup {[p EXCEPT !.ttl = p.source_ttl + 2]}
    /\ UNCHANGED <<routes, broken>>
Break(l) ==
    /\ losses < MAX_LOSSES /\ losses' = losses + 1
    /\ broken' = broken \cup {l, <<l[2], l[1]>>}
    /\ net' = {p \in net : <<p.from, p.to>> \notin broken'}
    /\ UNCHANGED routes
Lose(p) ==
    /\ losses < MAX_LOSSES /\ losses' = losses + 1
    /\ net' = net \ {p} /\ UNCHANGED <<routes, broken>>

-----------------------------------------------------------------------------
Init ==
    /\ routes = [c \in Clients |-> [d \in Clients |-> <<>>]]
    /\ net = {} /\ broken = {} /\ losses = 0

Handle(p) == Receive(p) \/ Drop(p) \/ ServerTurn(p)
Next ==
    \/ \E p \in net : Handle(p) \/ Lose(p) \/ Damage(p)
    \/ \E c \in Clients : \E d \in Peers(c) :
          \/ Heartbeat(c, d) \/ PunchSend(c, d) \/ SendData(c, d)
          \/ \E v \in Peers(c) : ClientRelay(c, d, v)
          \/ \E i \in DOMAIN routes[c][d] : RouteIdle(c, d, i)
    \/ \E l \in Links : Break(l)

(* The threads handle what arrives, the scheduler runs the heartbeats.     *)
Fairness ==
    /\ WF_vars(\E p \in net : Handle(p))
    /\ \A l \in Watched : SF_vars(Heartbeat(l[1], l[2]))

Spec == Init /\ [][Next]_vars /\ Fairness

-----------------------------------------------------------------------------
(* Types: the route lists are lists of routes with a hop count the 4 bits  *)
(* of the ttl can give, a packet on its way is between two machines.       *)
TypeOK ==
    /\ \A c, d \in Clients : \A i \in DOMAIN routes[c][d] :
          /\ routes[c][d][i].key \in (Clients \cup {Server}) \ {c}
          /\ routes[c][d][i].metric \in 1 .. MAX_TTL
    /\ \A p \in net :
          /\ p.kind \in Kinds /\ {p.src, p.dst} \subseteq Clients
          /\ {p.from, p.to} \subseteq Clients \cup {Server} /\ p.from # p.to
    /\ broken \subseteq Links /\ losses \in 0 .. MAX_LOSSES

(* The ttl of a packet that the handlers accept counts the machines that   *)
(* passed it on, whoever relayed it: source_ttl - ttl + 1, computed with   *)
(* 8-bit numbers by the handlers of both kinds, is the length of its way.  *)
TtlCountsHops ==
    \A p \in net : Outdated(p) \/ p.hops = p.source_ttl - p.ttl

(* A route of metric 1 leads to the client itself: neither a ping that     *)
(* came over relays nor an answer to a punch request can make is_p2p true  *)
(* of a route through another machine.                                     *)
P2pIsDirect ==
    \A c, d \in Clients : \A i \in Table!P2pPositions(routes[c][d]) :
        routes[c][d][i].key = d

(* Punching does not end in one-way communication: when a client has found *)
(* a direct route and the link works, the other one gets a direct route    *)
(* back, although only the answers to its own packets and the pings of the *)
(* first tell it so.                                                       *)
DirectBothWays ==
    \A l \in Watched :
        (HasDirect(l[1], l[2]) /\ l \notin broken)
            ~> (HasDirect(l[2], l[1]) \/ l \in broken)

(* What a client believes of a path is so: the ttl of a packet tells its   *)
(* hops, and a route called direct came from a packet that had none.       *)
RoutesAreTrue == TypeOK /\ TtlCountsHops /\ P2pIsDirect
=============================================================================
