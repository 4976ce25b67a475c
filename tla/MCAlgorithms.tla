---------------------------- MODULE MCAlgorithms ----------------------------
(* The parts of the program that compute, each checked on a set of inputs:  *)
(* an input is picked, its properties are checked, and the next one picked. *)
EXTENDS IpProxy, Forward, NetPackets, Secret, NatRules, Limits, Names, UdpNat

VARIABLE in     \* what is checked, and its inputs
vars == in

Idle == [what |-> "none"]

-----------------------------------------------------------------------------
(* Packets.                                                                 *)

A1 == <<10, 26, 0, 2>>
A2 == <<10, 26, 0, 3>>
LAN == <<192, 168, 1, 7>>
LAN2 == <<172, 16, 255, 255>>

Ipv4(proto, frag, src, dst, p) ==
    <<69, 0>> \o Be16(20 + Len(p)) \o <<0, 1>> \o Be16(frag) \o <<64, proto, 0, 0>> \o src \o dst \o p
UdpOf(sp, dp, data) == Be16(sp) \o Be16(dp) \o Be16(8 + Len(data)) \o <<0, 0>> \o data
TcpOf(sp, dp, data) ==
    Be16(sp) \o Be16(dp) \o <<0, 0, 0, 1, 0, 0, 0, 2, 80, 24, 1, 0, 0, 0, 0, 0>> \o data
IcmpOf(k, id, seq, data) == <<k, 0, 0, 0>> \o Be16(id) \o Be16(seq) \o data

Datas == {<< >>, <<7>>, <<255, 255>>, <<1, 2, 3>>}
Words == {<<0, 0>>, <<0, 2>>, <<255, 255>>}
Samples ==
    [udp |-> {UdpOf(4, 65535, d) : d \in Datas},
     tcp |-> {TcpOf(4, 65535, d) : d \in Datas},
     icmp |-> {IcmpOf(k, 1, 2, d) : k \in {0, 3, 8}, d \in Datas}
                \cup {<<0, 0, 0, 0>> \o a \o b \o c \o d : a, b, c, d \in Words},
     ipv4 |-> {Ipv4(p, 0, A1, LAN2, d) : p \in {1, 17}, d \in Datas},
     igmp_v1 |-> {<<18, 0, 0, 0, 224, 0, 0, 1>>},
     igmp_v2 |-> {<<22, 1, 0, 0, 224, 0, 0, 1>>},
     igmp_v3 |-> {<<17, 1, 0, 0, 224, 0, 0, 1, 10, 5, 0, 0>>},
     ethernet |-> {LAN \o <<1, 2>> \o LAN2 \o <<3, 4, 8, 0>>},
     net |-> {<<18, 4, 4, 102>> \o A1 \o A2, <<255, 3, 1, 255>> \o Zeros(8)},
     ping |-> {<<1, 2, 3, 4>>}, addr |-> {LAN \o <<1, 2>>},
     arp |-> {<<0, 1, 8, 0, 6, 4, 0, 1>> \o LAN \o <<1, 2>> \o A1 \o Zeros(6) \o A2}]

AllViews == Views @@ NetViews
PickChecksum ==
    in.what = "none" /\ \E v \in DOMAIN ChecksumAt : \E b \in Samples[v] :
        in' = [what |-> "checksum", view |-> v, b |-> b]
PickSetter ==
    in.what = "none" /\ \E v \in DOMAIN Samples : \E b \in Samples[v] :
        \E f \in DOMAIN AllViews[v].setters, byte \in {85, 255} :
            LET s == AllViews[v].setters[f]
                bytes == [i \in 1..s[2] |-> byte]
            IN  in' = [what |-> "setter", view |-> v, b |-> b, c |-> Put(b, s[1], bytes),
                       f |-> f, bits |-> Field(bytes, <<0, 8 * s[2]>>)]
\* A part of a byte, whatever else the byte holds and whatever the caller
\* gives; of a value too large for the field its last bits.
PickPart ==
    in.what = "none" /\ \E byte \in 0..255, v \in 0..18 \cup {31, 128, 255} :
        LET ip == Put(CHOOSE b \in Samples.ipv4 : TRUE, 6, <<byte>>)
            igmp_v1 == Put(CHOOSE b \in Samples.igmp_v1 : TRUE, 0, <<byte>>)
            igmp_v3 == Put(CHOOSE b \in Samples.igmp_v3 : TRUE, 8, <<byte>>)
            net == CHOOSE b \in Samples.net : TRUE
            flags == Put(net, 0, <<byte>>)
            ttls == Put(net, 3, <<byte>>)
            Part(view, b, c, f, width) ==
                in' = [what |-> "setter", view |-> view, b |-> b, c |-> c, f |-> f,
                       bits |-> Bits(v % 2^width, width)]
        IN  \/ FlagsSuit(ip, v) /\ Part("ipv4", ip, set_flags(ip, v), "flags", 3)
            \/ Part("igmp_v1", igmp_v1, igmp_v1_set_version(igmp_v1, v), "version", 4)
            \/ TypeSuits(v) /\ Part("igmp_v1", igmp_v1, igmp_v1_set_type(igmp_v1, v), "igmp_type", 4)
            \/ Part("igmp_v3", igmp_v3, set_qrv(igmp_v3, v), "qrv", 3)
            \/ v < 2 /\ Part("net", flags, set_encrypt_flag(flags, v = 1), "encrypt", 1)
            \/ v < 2 /\ Part("net", flags, set_gateway_flag(flags, v = 1), "gateway", 1)
            \/ v < 2 /\ Part("net", flags, set_extension_flag(flags, v = 1), "extension", 1)
            \/ v = 2 /\ Part("net", flags, set_default_version(flags), "version", 4)
            \/ Part("net", ttls, set_ttl(ttls, v), "ttl", 4)
            \/ Part("net", ttls, set_source_ttl(ttls, v), "source_ttl", 4)

Record(aux, num, tail) == <<1, aux>> \o Be16(num) \o <<224, 0, 0, 1>> \o tail
PickReport ==
    in.what = "none" /\ \E n \in 0..3, a1, a2, s1, s2 \in 0..2, l1, l2 \in 0..4 :
        in' = [what |-> "report",
               b |-> <<34, 0, 0, 0, 0, 0>> \o Be16(n)
                       \o Record(a1, s1, [i \in 1..4 * l1 |-> i])
                       \o Record(a2, s2, [i \in 1..4 * l2 |-> 20 + i])]

Frame(proto, p) == LAN \o <<1, 2>> \o LAN2 \o <<3, 4>> \o Be16(proto) \o p
Asks == {Frame(EtherArp, <<0, 1, 8, 0, 6, 4, 0, op>> \o LAN2 \o <<3, 4>> \o s \o Zeros(6) \o t) :
            op \in {1, 2}, s \in {A1, Zeros(4)}, t \in {A1, A2, Zeros(4)}}
Frames == Asks \cup {Frame(34525, <<96>>)}
PickTap ==
    in.what = "none" /\ \E before \in {<< >>} \cup {<<f>> : f \in Frames} \cup {<<f, g>> : f, g \in Frames} :
        in' = [what |-> "tap", before |-> before, b |-> Ipv4(1, 0, A1, A2, <<1>>), mac |-> <<1, 2, 3, 4, 5, 6>>]

\* Packets of a peer, to this device, to its networks and to others.
Summed(b) ==
    LET p == payload(b)
        long == [v \in {"icmp", "udp", "tcp"} |-> Len(p) >= Views[v].min]
        Sum(v) == SetPayload(b, update_checksum(v, p, A1, destination_ip(b)))
    IN  update_checksum("ipv4",
                        CASE protocol(b) = IpProtocol_from(Icmp) /\ long.icmp -> Sum("icmp")
                          [] protocol(b) = IpProtocol_from(Udp) /\ long.udp -> Sum("udp")
                          [] protocol(b) = IpProtocol_from(Tcp) /\ long.tcp -> Sum("tcp")
                          [] OTHER -> b, A1, A1)
Peers == {Summed(Ipv4(pr[1], frag, A1, dst, pr[2])) :
             pr \in {<<Icmp, IcmpOf(k, 5, 6, <<9>>)>> : k \in {0, 3, 8}} \cup {<<Icmp, <<8>>>>}
                    \cup {<<Udp, UdpOf(7, 53, d)>> : d \in Datas} \cup {<<Udp, <<1>>>>}
                    \cup {<<Tcp, TcpOf(7, dp, <<1>>)>> : dp \in {80, 443}} \cup {<<2, <<1>>>>},
             frag \in {0, 8192, 185},
             dst \in {A2, LAN, LAN2, <<255, 255, 255, 255>>, <<224, 0, 0, 1>>, <<10, 26, 0, 255>>}}
Node(proxy) ==
    [nat |-> [tcp |-> << >>, udp |-> << >>], port |-> [tcp |-> 5000, udp |-> 5001],
     icmp_nat |-> << >>, allow |-> {LAN}, local |-> {<<"tcp", LAN, 443>>},
     broadcast_ip |-> <<10, 26, 0, 255>>, proxy |-> proxy]
PickPeerPacket ==
    in.what = "none" /\ \E b \in Peers, proxy \in BOOLEAN :
        in' = [what |-> "peer", b |-> b, proxy |-> proxy]

-----------------------------------------------------------------------------
(* Nodes of a network of eight addresses, 8 to 15, and the peers 11 to 13;  *)
(* external networks of 16, 4, 8, all and one address.                      *)
ASSUME NetworkFits == WIDTH >= 5

Sets == SUBSET {11, 12, 13}
NodeOf(order, up, wg, p2p, routed, online, allow_wg, only_p2p, routes) ==
    [me |-> 10, gateway |-> 9, prefix |-> WIDTH - 3, online |-> online, order |-> order, up |-> up,
     wg |-> wg, p2p |-> p2p, routed |-> routed, allow_wg |-> allow_wg, only_p2p |-> only_p2p,
     routes |-> ExternalRoute(routes)]
Entries == {<<16, WIDTH - 4, 11>>, <<21, WIDTH - 2, 12>>, <<16, WIDTH - 3, 13>>, <<0, 0, 13>>, <<20, WIDTH, 10>>}
Tables == {<< >>} \cup {<<a>> : a \in Entries} \cup {<<a, b>> : a, b \in Entries}
            \cup {<<a, b, c>> : a, b, c \in Entries}

PickBroadcast ==
    in.what = "none" /\ \E order \in {<<11, 12, 13>>, <<13, 11, 12>>}, up \in Sets, wg \in {{}, {13}, {11, 12}},
                           p2p \in Sets, online, allow_wg \in BOOLEAN, dst \in {15, 14 * Host(4), BROADCAST} :
        in' = [what |-> "broadcast", dst |-> dst,
               node |-> NodeOf(order, up, wg, p2p, p2p, online, allow_wg, FALSE, << >>)]
PickUnicast ==
    in.what = "none" /\ \E up \in {{}, {11, 13}, {11, 12, 13}}, wg \in {{}, {13}}, routed \in {{}, {11}, {11, 13}},
                           online, allow_wg, only_p2p \in BOOLEAN, dst \in {2, 11, 12, 13, 14, 16, 20},
                           routes \in {<< >>, <<<<16, WIDTH - 3, 13>>, <<20, WIDTH, 10>>>>, <<<<16, WIDTH - 4, 11>>>>} :
        in' = [what |-> "unicast", dst |-> dst,
               node |-> NodeOf(<<11, 12, 13>>, up, wg, {}, routed \ wg, online, allow_wg, only_p2p, routes)]
PickRoute ==
    in.what = "none" /\ \E table \in Tables, ip \in {3, 16, 20, 21, 25, 31} :
        in' = [what |-> "route", table |-> table, ip |-> ip]

-----------------------------------------------------------------------------
(* Packets of the virtual network.                                          *)

PickHops ==
    in.what = "none" /\ \E b \in Samples.net, ttl \in {1, 6, 15}, hops \in 0..15 :
        in' = [what |-> "hops", b |-> b, ttl |-> ttl, hops |-> hops]
PickServerBroadcast ==
    in.what = "none" /\ \E n \in {0, 1, 2, 64}, inner \in {<<9>>, A1 \o A2 \o LAN} :
        in' = [what |-> "list", list |-> [i \in 1..n |-> <<10, 26, 1, i>>], inner |-> inner]

HeadOf(gateway, extension) ==
    [source |-> 1, destination |-> 2, protocol |-> 4, transport |-> 4, gateway |-> gateway,
     source_ttl |-> 6, ttl |-> 6, encrypt |-> FALSE, extension |-> extension]
NetPacketOf(n) ==
    [head |-> HeadOf(FALSE, FALSE), body |-> Some(n, <<"data", 1>>), cap |-> HEAD + n + ENCRYPTION_RESERVED]
Ciphers == {c \in {new_password(model, "pw", length, token) :
                      model \in Models, length \in {4, 8}, token \in {"none", "tk"}} : c.ok}
Lengths == 0..20 \cup {31, 32, 33, 115, 116, 117, 1400, 1410}

PickLayout ==
    in.what = "none" /\ \E len \in 0..80 \cup {SecretMax, SecretMax + 1}, finger \in BOOLEAN :
        in' = [what |-> "layout", len |-> len, finger |-> finger]
PickDelivery ==
    in.what = "none" /\ \E c \in Ciphers, n \in Lengths, algorithm \in {0, Lz4, Zstd},
                           less \in {1, 19, 20, 21, 60}, hops \in {0, 5} :
        LET p == NetPacketOf(n)
            stale == [HeadOf(FALSE, TRUE) EXCEPT !.source = 7, !.destination = 8, !.source_ttl = 0,
                                                 !.ttl = 0, !.encrypt = (c.p.model # "None")]
            out == [p EXCEPT !.head = stale]
        IN  /\ less < n
            /\ in' = [what |-> "delivery", c |-> c.p, p |-> p, hops |-> hops, out |-> out,
                      sent |-> Sent(c.p, algorithm, p, out, n - less, 1)]
\* A packet of a peer, changed on its way or of another network.
Forged(c, p) ==
    LET sent == encrypt_ipv4(c, p, 1).p
        head == sent.head
        As(change, packets) == {[change |-> change, q |-> q] : q \in packets}
    IN  As("head", {[sent EXCEPT !.head = h] :
                        h \in {[head EXCEPT !.source = 3], [head EXCEPT !.destination = 3],
                               [head EXCEPT !.protocol = 3], [head EXCEPT !.transport = 3],
                               [head EXCEPT !.gateway = TRUE], [head EXCEPT !.source_ttl = 15],
                               [head EXCEPT !.encrypt = FALSE]}})
        \cup As("bytes", UNION {{[sent EXCEPT !.body[i] = Piece(sent.body[i].n, <<"noise">>)],
                                  [sent EXCEPT !.body[i] = Piece(sent.body[i].n, <<"random", 2>>)],
                                  [sent EXCEPT !.body = RemoveAt(sent.body, i)]} :
                                 i \in DOMAIN sent.body})
        \cup As("key", {encrypt_ipv4([c EXCEPT !.key = k], p, 1).p :
                            k \in IF c.model # "None" THEN {<<"other", 256>>} ELSE {}})
        \cup As("token", {encrypt_ipv4([c EXCEPT !.finger = token], p, 1).p :
                              token \in IF c.finger # "none" THEN {"none", "other"} ELSE {}})
PickForgery ==
    in.what = "none" /\ \E c \in Ciphers, n \in {0, 1, 4, 12, 16, 28, 100} :
        \E f \in Forged(c.p, NetPacketOf(n)) :
            in' = [what |-> "forgery", c |-> c.p, sent |-> encrypt_ipv4(c.p, NetPacketOf(n), 1).p,
                   q |-> f.q, change |-> f.change]

-----------------------------------------------------------------------------
(* What is known of a NAT, and what is tried at it.                         *)

FirstOctets ==
    {0, 1, 9, 10, 11, 99, 100, 101, 126, 127, 128, 169, 172, 192, 198, 203, 223, 224, 239, 240, 255}
SecondOctets == {0, 15, 16, 17, 18, 19, 20, 31, 32, 51, 63, 64, 127, 128, 168, 254, 255}
ThirdOctets == {0, 2, 100, 113, 255}
LastOctets == {0, 9, 10, 255}
Ipv4Edges ==
    {<<a, b, c, d>> :
        a \in FirstOctets, b \in SecondOctets, c \in ThirdOctets, d \in LastOctets}
FirstSegments ==
    {0, 100, 256, 8192, 8193, 8194, 64511, 64512, 65023, 65024, 65151, 65152, 65215, 65216}
SecondSegments == {0, 1, 3, 4, 31, 32, 47, 48, 511, 512, 3512, 65435}
ThirdSegments == {0, 1, 274}
SixthSegments == {0, 65535}
LastSegments == {0, 1, 2}
Ipv6Edges ==
    {<<a, b, c, 0, 0, f, 0, h>> :
        a \in FirstSegments, b \in SecondSegments, c \in ThirdSegments,
        f \in SixthSegments, h \in LastSegments}
PickAddress ==
    in.what = "none" /\ \E ip \in Ipv4Edges \cup Ipv6Edges : in' = [what |-> "address", ip |-> ip]

WAN == <<8, 8, 8, 8>>
V6 == <<9000, 1, 1, 1, 1, 1, 1, 1>>
Mapped == {<<LAN, 1>>, <<LAN, 100>>, <<LAN, 278>>, <<LAN, 65535>>, <<A1, 100>>, <<V6, 100>>}
Probes == {[first |-> NO_ADDR, second |-> NO_ADDR]}
          \cup [first : Mapped, second : {NO_ADDR, <<LAN, 99>>}]
Round == {<< >>} \cup {<<a, b>> : a, b \in Probes}
PickStun ==
    in.what = "none" /\ \E a, b \in Round : in' = [what |-> "stun", rounds |-> <<a, b>>]
PortEdges == {0, 1, 2, 59, 60, 61, 179, 180, 30000, 65356, 65400, 65534, 65535}
MAX_RANGE == 181
PickGuess ==
    in.what = "none" /\ \E port \in PortEdges, range \in 0..MAX_RANGE :
        in' = [what |-> "guess", port |-> port, range |-> range]
PickSweep ==
    in.what = "none" /\ \E n \in 1..9, k \in 0..3, max \in 1..12 :
        in' = [what |-> "sweep", all |-> [i \in 1..n |-> n + 1 - i], ips |-> [i \in 1..k |-> i], max |-> max]

Me == NatInfo_new(<<WAN>>, <<40, 41>>, 0, LAN, V6, <<50, 51>>, 60, "Cone")
PickPunch ==
    in.what = "none" /\
    \E m \in PunchModels, local \in {LAN, A2, <<192, 168, 1, 8>>, <<127, 0, 0, 1>>}, v6 \in {NO_ADDR, V6},
      ips \in {<< >>, <<WAN>>, <<WAN, A1>>, <<WAN, <<9, 9, 9, 9>>>>}, ports \in {<<0, 0>>, <<70, 71>>, <<0, 71>>},
      udp \in {<< >>, <<50, 52>>, <<0, 80>>}, tcp \in {0, 60, 61}, cone, tcp_too \in BOOLEAN :
        in' = [what |-> "punch", m |-> m, cone |-> cone, tcp |-> tcp_too,
               peer |-> NatInfo_new(ips, ports, 0, local, v6, udp, tcp, "Cone")]
PickAsk ==
    in.what = "none" /\ \E n \in 1..4, count \in 0..9, nat \in {"Cone", "Symmetric"}, port \in {0, 40} :
        in' = [what |-> "ask", n |-> n, count |-> count,
               info |-> NatInfo_new(<<WAN>>, <<port>>, 0, LAN, V6, <<50>>, 60, nat)]

(* Calls of the limiter and of the meters: <<ticks before, peer, amount>>.  *)
PickCalls ==
    in.what = "none" /\ \E capacity, rate \in 0..2, dt \in [1..5 -> {0, 1, 3}] :
        in' = [what |-> "rate", capacity |-> capacity, rate |-> rate, calls |-> [i \in 1..5 |-> <<dt[i]>>]]
Amounts == <<2, 4, 8, 16>>
PickTraffic ==
    in.what = "none" /\ \E keep \in {1, 2}, dt \in [1..4 -> 0..2], ip \in [1..4 -> {1, 2}] :
        in' = [what |-> "traffic", keep |-> keep, calls |-> [i \in 1..4 |-> <<dt[i], ip[i], Amounts[i]>>]]

-----------------------------------------------------------------------------
(* Names and addresses of the server.                                       *)

V4a == <<"v4", 1>>
V4b == <<"v4", 2>>
V6a == <<"v6", 1>>
Lists == {<<V4a, V4b, V6a>>, <<V6a, V4b, V4a>>, <<V4b, V6a, V4a>>}
PickTurns ==
    in.what = "none" /\ \E some \in SUBSET {V4a, V4b, V6a},
                           o \in [1..3 -> Lists] \cup {[i \in 1..3 |-> l] : l \in {<<V4a, V4b>>, <<V6a>>}} :
        in' = [what |-> "turns", connects |-> some, lists |-> [i \in 1..20 |-> o[(i % 3) + 1]]]

Reply(recv, no_error, records) == [recv |-> recv, no_error |-> no_error, records |-> records]
Replies(type, a) ==
    {Reply(<<"timeout", "timeout", "data">>, TRUE, <<<<"CNAME", NO_SERVER>>, <<type, a>>>>),
     Reply(<<"data", "error", "error">>, TRUE, <<<<"CNAME", NO_SERVER>>>>),
     Reply(<<"data", "error", "error">>, FALSE, <<<<type, a>>>>),
     Reply(<<"timeout", "error", "data">>, TRUE, <<<<type, a>>>>)}
ServerReplies(a) ==
    [A : Replies("A", a), AAAA : Replies("AAAA", V6a),
     TXT : Replies("TXT", a) \cup {Reply(<<"data", "data", "data">>, TRUE, <<<<"TXT", a>>, <<"TXT", NO_SERVER>>>>)}]
Domains == {[kind |-> k, port |-> p, addr |-> V4a] : k \in {"addr", "name", "txt"}, p \in BOOLEAN}
Silent == [i \in 1..6 |-> << >>]
PickQuery ==
    in.what = "none" /\ \E domain \in Domains, ios \in BOOLEAN,
                           servers \in {<< >>, <<"s1">>, <<"s1", "s2">>, <<"unusable", "s1">>},
                           r1 \in ServerReplies(V4a), q \in Replies("A", V4b),
                           at \in {0, 1, 3, 4, 6} :
        in' = [what |-> "query", domain |-> domain, ios |-> ios, servers |-> servers,
               reply |-> [s1 |-> r1, s2 |-> [r1 EXCEPT !.A = q]] @@ ("223.5.5.5" :> r1),
               system |-> IF at = 0 THEN Silent ELSE [Silent EXCEPT ![at] = <<V4b>>]]

Devices == [connect_server : {V4a, V4b}, status : {"Connecting", "Connected"}, virtual_ip : {0, 1}]
PickRequest ==
    in.what = "none" /\ \E loaded, now \in Devices, chosen \in {V4a, V4b, V6a, NO_SERVER} :
        in' = [what |-> "request", loaded |-> loaded, now |-> now, chosen |-> chosen]

(* The sockets of the udp proxy and of a mapped port, step by step.         *)
PickUdp ==
    in.what = "none" /\ \E fixed \in {NO_DEST} \cup Hosts : in' = [what |-> "udp", m |-> Machine(fixed)]
StepUdp ==
    in.what = "udp" /\ \E m \in Steps(in.m) : in' = [in EXCEPT !.m = m]

-----------------------------------------------------------------------------
Return == in.what # "none" /\ in' = Idle
Init == in = Idle
Next == \/ PickChecksum \/ PickSetter \/ PickPart \/ PickReport \/ PickTap \/ PickPeerPacket
        \/ PickBroadcast \/ PickUnicast \/ PickRoute
        \/ PickHops \/ PickServerBroadcast \/ PickLayout \/ PickDelivery \/ PickForgery
        \/ PickAddress \/ PickStun \/ PickGuess \/ PickSweep \/ PickPunch \/ PickAsk
        \/ PickCalls \/ PickTraffic \/ PickTurns \/ PickQuery \/ PickRequest
        \/ PickUdp \/ StepUdp
        \/ Return
Spec == Init /\ [][Next]_vars

(* The checksum update_checksum writes into an ipv4, icmp, igmp, udp or tcp *)
(* packet is accepted by is_valid, and a change of one covered byte is not  *)
(* (an odd length and the carry included).                                  *)
ChecksumsGuard == in.what = "checksum" => ChecksumGuards(in.view, in.b, A1, LAN)

(* What a setter writes its getter reads, and every other getter of the     *)
(* view reads what it did: fields of whole bytes, and those that share a    *)
(* byte, over every value of the rest of it.  set_flags keeps that only on  *)
(* the headers icmp_proxy builds, set_type of IGMPv1 only for four bits.    *)
SettersKeepRest ==
    in.what = "setter" => OnlyField(AllViews[in.view].fields, in.b, in.c, in.f, in.bits)

(* group_records cuts an IGMPv3 report into records that lie one behind the *)
(* other, each exactly its head, sources and auxiliary data.                *)
ReportRecordsTile == in.what = "report" => RecordsTile(in.b)

(* What write_tap sends is what read_tap of the other end returns, whatever *)
(* arp and foreign frames come first, and each arp request is answered to   *)
(* its asker.                                                               *)
TapEndsTalk == in.what = "tap" => TapTalks(in.before, in.b, in.mac)

(* An icmp echo to this device is answered in place: ends exchanged,        *)
(* identifier, sequence and data kept, both checksums right (ip_turn).      *)
EchoesReturn == in.what = "peer" => EchoReturned(in.b, A2, A1)

(* A packet turned to the udp or tcp proxy (recv_handle) and the proxy's    *)
(* answer (send_handle): the application sees an answer of the host and     *)
(* port it wrote to, and all checksums hold.                                *)
ProxyTransparent ==
    in.what = "peer" /\ protocol(in.b) \in {IpProtocol_from(Udp), IpProtocol_from(Tcp)} =>
        LET view == IF protocol(in.b) = IpProtocol_from(Tcp) THEN "tcp" ELSE "udp"
        IN  New(view, payload(in.b)) => ProxyIsTransparent(view, in.b, A1, A2, 5000)

(* ip_turn drops what is for no network this node serves, and an echo that  *)
(* leaves by the icmp socket finds its way back to the peer that asked.     *)
PeerPacketsTurned == in.what = "peer" => TurnedRight(Node(in.proxy), in.b, A1, A2)

(* A broadcast of the tun handler or of the api reaches every online peer   *)
(* exactly once, though some are sent to directly and the rest by the       *)
(* server, which is told whom to skip.                                      *)
BroadcastOnce == in.what = "broadcast" => BroadcastReaches(in.node, in.dst)

(* A packet for one address goes to that peer, or to the gateway of its     *)
(* external network, once; a peer that can be reached is; the api agrees    *)
(* with the device.                                                         *)
UnicastOnce == in.what = "unicast" => UnicastReaches(in.node, in.dst)

(* ExternalRoute::route, which orders its table by the start of a network   *)
(* and not by its size, still returns the gateway of the narrowest network  *)
(* an address is in; only among networks with the same start does the order *)
(* of the configuration decide.                                             *)
MostSpecificRoute == in.what = "route" => NarrowestRoute(in.table, in.ip)

(* first_set_ttl and incr_ttl share a byte: after any number of hops both   *)
(* halves are right and no other field of the head has moved.               *)
HopsAreCounted == in.what = "hops" => HopsCounted(in.b, in.ttl, in.hops)

(* The broadcast packet the server gets holds exactly the peers to skip and *)
(* the client's packet, with the room for the server's cipher behind it.    *)
ServerBroadcastCarries == in.what = "list" => BroadcastCarries(in.list, in.inner)

(* The parts (data, random, tag, finger) into which the secret bodies of    *)
(* the ciphers cut a payload fill it without gap or overlap, for every      *)
(* length.                                                                  *)
SecretLayoutsTile == in.what = "layout" => LayoutTiles(in.len, in.finger)

(* What a client compresses and encrypts, its peer decrypts and inflates to *)
(* the same packet, over relays and whatever the buffers held before; its   *)
(* finger can be checked on the way without the key, where check_finger and *)
(* the cipher agree on what it covers; the server reads what is encrypted   *)
(* with its public key.                                                     *)
PacketsDelivered ==
    in.what = "delivery" =>
        /\ Delivered(in.c, in.sent, in.p, in.out, in.hops)
        /\ ServerReads(in.p, 1)

(* is_ipv4_global and is_ipv6_global, written by hand octet by octet, agree *)
(* with the blocks of the special-purpose registries, at the edges of each. *)
PublicAddresses == in.what = "address" => PublicAddress(in.ip)

(* What stun_test_nat says of the NAT follows the first probes of a round:  *)
(* a cone only when no two of them showed different ipv4 mappings,          *)
(* symmetric only when two differ, and the range of ports guessed from one  *)
(* contains the others.                                                     *)
StunFinds == in.what = "stun" => StunFindsNat(in.rounds)

(* The ports guessed around a public port are ports, and no more of them    *)
(* are taken than there are, for every port and range, though the u16 size  *)
(* of the range wraps when no public port is known.                         *)
GuessesPorts == in.what = "guess" => GuessesArePorts(in.port, in.range)

(* The sweep of punch_symmetric, cut off at a limit in each call, has tried *)
(* every port at every address before it starts over.                       *)
SweepCoversPorts == in.what = "sweep" => SweepCovers(in.all, in.ips, in.max)

(* Punch::punch looks for a peer at every mapping of a cone and never at    *)
(* this node's own sockets, at port 0, inside the virtual network or by a   *)
(* protocol it may not use.                                                 *)
PunchTargetsSensible ==
    in.what = "punch" => TargetsSensible(in.m, Me, in.peer, {A1, A2}, in.tcp, 2, 4, in.cone)

(* The addr_request task asks for the public port of each channel in turn,  *)
(* although its counter is shared by all of them.                           *)
AllChannelsAsked == in.what = "ask" => ChannelsAsked(in.info, in.n, in.count)

(* Between any two calls of try_acquire the limiter lets through no more    *)
(* than its capacity and what the seconds between them bring.               *)
RateIsHeld == in.what = "rate" => RateHeld(in.capacity, in.rate, in.calls)

(* The traffic meters lose nothing and count nothing twice: total, per-peer *)
(* totals, open count and history add up while the history has room.        *)
TrafficSums == in.what = "traffic" => TrafficAddsUp(in.calls, in.keep)

(* decrypt_ipv4 refuses a packet whose body or head was changed, or that    *)
(* was sent under another password or token, by every cipher whose tag,     *)
(* finger or head in the ciphertext is there for it, and check_finger does  *)
(* without the key; the one change that Chacha20 with a finger lets pass,   *)
(* that of the drawn part of the nonce, turns the payload into noise.       *)
ForgeriesRejected == in.what = "forgery" => ForgedRejected(in.c, in.sent, in.q, in.change)

(* address_choose shares the attempts out: no address of the server is ever *)
(* more than three attempts ahead of another, in whatever order the answers *)
(* list them, as long as all can be tried; one that cannot be is not chosen.*)
AddressesTakeTurns == in.what = "turns" => TakeTurns(in.lists, in.connects)

(* dns_query_all finds the server when one name server, or one call of the  *)
(* system's resolver on iOS, has an answer, whatever times out, fails or is *)
(* empty before it.                                                         *)
NamesResolve ==
    in.what = "query" => FoundIfAnswered(in.domain, in.servers, in.reply, in.system, in.ios)

(* domain_request0 loads the device info, queries for seconds and writes    *)
(* the address: a registration or a disconnection in between is not undone. *)
QueriesAreHarmless == in.what = "request" => QueryHarmless(in.loaded, in.now, in.chosen)

(* A task of the udp proxy or of a mapped port that ends takes only its own *)
(* socket out of inner_map, though the loop may already open the next one.  *)
UdpSocketsOwned == in.what = "udp" => SocketsOwned(in.m)

(* The udp proxy keeps sources apart: a datagram reaches a host its source  *)
(* has written to, and an answer has the name of such a host or of the      *)
(* proxy, though nat_map changes between a datagram and its answer.         *)
UdpKeptApart == in.what = "udp" => KeptApart(in.m)

-----------------------------------------------------------------------------
(* What the run checks: the parts above, by the journey of a packet.        *)

(* What the setters, checksum writers and cipher layouts put into a packet, *)
(* the getters and the other end's slices find again, and nothing else is   *)
(* touched: checksums, fields, ttl byte, report records, secret bodies, the *)
(* frames of a tap device.                                                  *)
PacketsReadBack ==
    ChecksumsGuard /\ SettersKeepRest /\ ReportRecordsTile /\ TapEndsTalk /\ HopsAreCounted /\ SecretLayoutsTile

(* A peer talks through this node as if to the host itself: ip_turn answers *)
(* echoes, recv_handle and send_handle of the udp and tcp proxies and the   *)
(* icmp socket return the answers, and nothing goes to a network that is    *)
(* not served.                                                              *)
ProxiesTransparent == EchoesReturn /\ ProxyTransparent /\ PeerPacketsTurned

(* A packet of the device or of the api reaches each of its destinations    *)
(* exactly once: directly, by the server with its list of peers to skip, or *)
(* by the gateway of the narrowest external network.                        *)
ReachedOnce == BroadcastOnce /\ UnicastOnce /\ MostSpecificRoute /\ ServerBroadcastCarries

(* Hole punching aims at what can be the peer: at public addresses, as the  *)
(* first probes of stun found them, at real ports, at all of them in time,  *)
(* never at itself, and the public port of every channel is asked for.      *)
PunchAimsRight ==
    PublicAddresses /\ StunFinds /\ GuessesPorts /\ SweepCoversPorts /\ PunchTargetsSensible /\ AllChannelsAsked

(* A server that some name server knows is found, its addresses take turns, *)
(* and the write of the new address by domain_request0, seconds after it    *)
(* read the device info, undoes no registration or disconnection.           *)
ServerFound == AddressesTakeTurns /\ NamesResolve /\ QueriesAreHarmless

(* The token bucket never lets through more than it may, and the traffic    *)
(* meters lose and double nothing.                                          *)
AmountsAddUp == RateIsHeld /\ TrafficSums

(* In every interleaving of the loop with the tasks of its sockets each     *)
(* socket of the udp proxy or of a mapped port has an owner, and datagrams  *)
(* of one source never reach another or a host it did not write to.         *)
UdpProxySound == UdpSocketsOwned /\ UdpKeptApart
=============================================================================
