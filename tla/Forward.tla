------------------------------- MODULE Forward -------------------------------
(* Where an ip packet read from the tun device, or handed to the sender of  *)
(* the api, goes: the tun handler (tun_handler.rs handle, broadcast), the   *)
(* IpPacketSender (sender.rs), the external routes and the addresses of the *)
(* virtual network (handle/mod.rs CurrentDeviceInfo).                       *)
(*                                                                          *)
(* An address is a number of WIDTH bits, a netmask the number of its one    *)
(* bits.  A node is a record:                                               *)
(*   me, gateway, prefix   its address, the gateway's, the mask             *)
(*   online                status is Connected                              *)
(*   order                 the peers of device_map, in the order in which   *)
(*                         the hash map gives them                          *)
(*   up, wg                the peers that are online, and the WireGuard ones*)
(*   p2p, routed           peers with a p2p route, with any route, on which *)
(*                         a send succeeds                                  *)
(*   allow_wg, only_p2p    configuration                                    *)
(*   routes                ExternalRoute's table                            *)
(* The result is the sequence of packets sent: to a peer's route or to the  *)
(* server, with the transport protocol, the destination in the head and the *)
(* peers a broadcast has been sent to already.                              *)
EXTENDS Bytes

CONSTANTS
    WIDTH,      \* bits of an address
    MAX_COUNT   \* peers broadcast() tries itself, less one
ASSUME WidthAssumption == WIDTH \in Nat \ {0}
ASSUME MaxCountAssumption == MAX_COUNT \in Nat

Addresses32 == 0..(Power2(WIDTH) - 1)
UNSPECIFIED == 0
BROADCAST == Power2(WIDTH) - 1
Host(prefix) == Power2(WIDTH - prefix)
Masked(ip, prefix) == (ip \div Host(prefix)) * Host(prefix)

\* 224.0.0.0/4: the top sixteenth but the last sixteenth.
is_multicast(ip) == WIDTH >= 4 /\ ip \div Host(4) = 14

(* CurrentDeviceInfo::new, update: mask and gateway give the rest.          *)
virtual_network(n) == Masked(n.gateway, n.prefix)
broadcast_ip(n) == Masked(n.gateway, n.prefix) + Host(n.prefix) - 1
not_in_network_Mine(n, ip) == Masked(ip, n.prefix) # n.gateway
not_in_network(n, ip) == Masked(ip, n.prefix) # virtual_network(n)

-----------------------------------------------------------------------------
(* ExternalRoute: entries <<dest, prefix, gateway>>, masked and sorted by   *)
(* falling destination (stably); the first that matches wins.               *)

ExternalRoute_Unsorted(table) ==
    [i \in DOMAIN table |-> <<Masked(table[i][1], table[i][2]), table[i][2], table[i][3]>>]
ExternalRoute(table) ==
    LET masked == [i \in DOMAIN table |->
                      <<Masked(table[i][1], table[i][2]), table[i][2], table[i][3]>>]
        Before(i, j) == \/ masked[i][1] > masked[j][1]
                        \/ masked[i][1] = masked[j][1] /\ i < j
        place(i) == Cardinality({j \in DOMAIN table : Before(j, i)}) + 1
    IN  [k \in DOMAIN table |-> masked[CHOOSE i \in DOMAIN table : place(i) = k]]

Matching(table, ip) == {i \in DOMAIN table : Masked(ip, table[i][2]) = table[i][1]}
HasRoute(table, ip) == Matching(table, ip) # {}
route(table, ip) ==
    table[CHOOSE i \in Matching(table, ip) : \A j \in Matching(table, ip) : i <= j][3]

\* AllowExternalRoute: some entry of the list contains the address.
allow(table, ip) == \E i \in DOMAIN table : Masked(ip, table[i][2]) = Masked(table[i][1], table[i][2])

-----------------------------------------------------------------------------
(* Sending.                                                                 *)

SERVER == -1
DEVICE == -2
Packet(to, transport, dest, listed) ==
    [to |-> to, transport |-> transport, dest |-> dest, listed |-> listed]
ToServer(transport, dest) == <<Packet(SERVER, transport, dest, {})>>

\* send_ipv4_by_id: the best route of the peer, else the server.
send_ipv4_by_id(n, dest) ==
    IF dest \in n.routed THEN <<Packet(dest, "Ipv4", dest, {})>>
    ELSE IF ~ n.only_p2p /\ n.online THEN ToServer("Ipv4", dest)
    ELSE << >>

(* broadcast: directly to the first peers that have a p2p route; if any is  *)
(* left the server is told whom to skip.                                    *)
Listed(n) == {i \in DOMAIN n.order : n.order[i] \in n.up \ n.wg}
Tried(n) == {i \in Listed(n) : Cardinality({j \in Listed(n) : j < i}) <= MAX_COUNT}
broadcast_Forgets(n, dest) ==
    LET tried == {n.order[i] : i \in Tried(n)}
        direct == tried \cap n.p2p
        sent == SetToSeq({Packet(p, "Ipv4", dest, {}) : p \in direct})
    IN  IF tried = {} \/ direct = tried \/ ~ n.online THEN sent
        ELSE sent \o <<Packet(SERVER, "Ipv4Broadcast", dest, direct)>>
broadcast(n, dest) ==
    LET overflow == Tried(n) # Listed(n)
        tried == {n.order[i] : i \in Tried(n)}
        direct == tried \cap n.p2p
        relay == direct # tried
        sent == SetToSeq({Packet(p, "Ipv4", dest, {}) : p \in direct})
    IN  IF Listed(n) = {} THEN << >>
        ELSE IF ~ overflow /\ ~ relay THEN sent
        ELSE IF ~ n.online THEN sent
        ELSE IF direct = {} THEN ToServer("Ipv4", dest)
        ELSE sent \o <<Packet(SERVER, "Ipv4Broadcast", dest, direct)>>

\* send_to_wg_broadcast: a copy for the WireGuard peers, if one is online.
WgCopy(n, dest) ==
    IF n.allow_wg /\ n.up \cap n.wg # {} THEN ToServer("WGIpv4", dest) ELSE << >>

-----------------------------------------------------------------------------
(* handle of the tun handler, for a packet src -> dst of the tun device.    *)

Echoed == <<Packet(DEVICE, "echo", 0, {})>>

handle(n, src, dst, icmp) ==
    LET special(ip) == is_multicast(ip) \/ ip = BROADCAST \/ ip = broadcast_ip(n)
        outside == ~ special(dst) /\ not_in_network(n, dst)
        stopped == outside /\ (~ HasRoute(n.routes, dst) \/ route(n.routes, dst) = src)
        via == IF outside /\ HasRoute(n.routes, dst) THEN route(n.routes, dst) ELSE dst
        dest == IF is_multicast(via) THEN BROADCAST ELSE via
        all == dest = BROADCAST \/ dest = broadcast_ip(n)
        known == dest \in ToSet(n.order)
    IN  IF src = dst THEN IF icmp THEN Echoed ELSE << >>
        ELSE IF dst = n.gateway THEN IF icmp THEN ToServer("gateway", dst) ELSE << >>
        ELSE IF stopped THEN << >>
        ELSE IF all THEN WgCopy(n, dest) \o broadcast(n, dest)
        ELSE IF n.allow_wg /\ known /\ dest \notin n.up THEN << >>
        ELSE IF n.allow_wg /\ known /\ dest \in n.wg THEN ToServer("WGIpv4", dest)
        ELSE send_ipv4_by_id(n, dest)

(* IpPacketSender::send_ip: the source is always this device; a broadcast   *)
(* is left to the server.                                                   *)
send_ip(n, dst) ==
    LET via == IF HasRoute(n.routes, dst) THEN route(n.routes, dst) ELSE dst
        dest == IF is_multicast(via) THEN BROADCAST ELSE via
        all == dest = BROADCAST \/ dest = broadcast_ip(n)
        wg == n.allow_wg /\ dest \in ToSet(n.order) /\ dest \in n.wg
    IN  IF n.me = UNSPECIFIED THEN << >>
        ELSE IF all THEN WgCopy(n, dest) \o ToServer("Ipv4", dest)
        ELSE IF wg THEN IF dest \in n.up THEN ToServer("WGIpv4", dest) ELSE << >>
        ELSE IF not_in_network(n, dest) THEN << >>
        ELSE send_ipv4_by_id(n, dest)

-----------------------------------------------------------------------------
(* The server's side of a packet, as the client's messages presume it: an   *)
(* Ipv4 broadcast goes to every vnt client that is online, an Ipv4Broadcast *)
(* to those not listed, a WGIpv4 to the WireGuard clients, anything else to *)
(* its destination.                                                         *)
Recipients(n, p) ==
    LET all == p.dest = BROADCAST \/ p.dest = broadcast_ip(n)
    IN  CASE p.to # SERVER -> {p.to}
          [] p.to = SERVER /\ p.transport = "Ipv4Broadcast" -> (n.up \ n.wg) \ p.listed
          [] p.to = SERVER /\ p.transport = "Ipv4" /\ all -> n.up \ n.wg
          [] p.to = SERVER /\ p.transport = "WGIpv4" /\ all -> n.up \cap n.wg
          [] OTHER -> {p.dest}
Times(n, sends, ip) == Cardinality({i \in DOMAIN sends : ip \in Recipients(n, sends[i])})

-----------------------------------------------------------------------------
Others(n) == ToSet(n.order)

\* A broadcast, from the tun device or from the api, reaches every peer that
\* is online exactly once, whether the peers are reached directly, by the
\* server, or some by each; WireGuard peers only when they are allowed.
BroadcastReaches(n, dst) ==
    \A sends \in {handle(n, n.me, dst, FALSE), send_ip(n, dst)} : \A p \in Others(n) :
        n.online => Times(n, sends, p) = (IF p \in n.up /\ (p \notin n.wg \/ n.allow_wg)
                                          THEN 1 ELSE 0)

\* A packet for one address is sent at most once and only to that peer, or to
\* the gateway of the network it is in; a peer that can be reached is; and
\* the api sends a packet for the virtual network where the device would.
UnicastReaches(n, dst) ==
    LET s == handle(n, n.me, dst, FALSE)
        t == send_ip(n, dst)
        inside == dst \div Host(n.prefix) = n.gateway \div Host(n.prefix)
        target == IF inside THEN {dst}
                  ELSE IF HasRoute(n.routes, dst) THEN {route(n.routes, dst)} \ {n.me} ELSE {}
        reachable == target \cap (IF n.online /\ ~ n.only_p2p THEN n.up ELSE (n.up \cap n.routed) \ n.wg)
    IN  /\ Len(s) <= 1 /\ Len(t) <= 1
        /\ \A i \in DOMAIN s : Recipients(n, s[i]) = target
        /\ reachable # {} => Len(s) = 1
        /\ inside /\ ~ HasRoute(n.routes, dst) /\ dst \in n.up => t = s

\* The gateway chosen for an address is that of its narrowest network: an
\* entry with a longer mask that also contains the address starts where the
\* chosen one starts (the table is ordered by start, not by mask).
NarrowestRoute(table, ip) ==
    LET sorted == ExternalRoute(table)
        matching == Matching(sorted, ip)
        chosen == CHOOSE i \in matching : \A j \in matching : i <= j
    IN  matching # {} =>
          /\ route(sorted, ip) = sorted[chosen][3]
          /\ \A i \in matching : sorted[i][2] > sorted[chosen][2] => sorted[i][1] = sorted[chosen][1]

=============================================================================
