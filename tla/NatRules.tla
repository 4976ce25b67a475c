------------------------------- MODULE NatRules -------------------------------
(* How a node learns what its NAT does to it (nat/mod.rs, nat/stun.rs,      *)
(* addr_request.rs) and at which addresses it then looks for a peer         *)
(* (channel/punch.rs).  Ipv4 addresses are four octets, ipv6 addresses      *)
(* eight segments.                                                          *)
EXTENDS Bytes

-----------------------------------------------------------------------------
(* Which addresses are public.                                              *)

is_private(ip) ==
    ip[1] = 10 \/ (ip[1] = 172 /\ ip[2] \in 16..31) \/ (ip[1] = 192 /\ ip[2] = 168)
is_documentation(ip) == SubSeq(ip, 1, 3) \in {<<192, 0, 2>>, <<198, 51, 100>>, <<203, 0, 113>>}
is_broadcast(ip) == ip = <<255, 255, 255, 255>>

is_ipv4_global_AnyShared(ip) ==
    ~ \/ ip[1] = 0 \/ is_private(ip) \/ ip[1] = 100 \/ ip[1] = 127
      \/ (ip[1] = 169 /\ ip[2] = 254)
      \/ (ip[1] = 192 /\ ip[2] = 0 /\ ip[3] = 0 /\ ip[4] # 9 /\ ip[4] # 10)
      \/ is_documentation(ip) \/ (ip[1] = 198 /\ ip[2] \div 2 = 9) \/ ip[1] >= 240
is_ipv4_global(ip) ==
    ~ \/ ip[1] = 0
      \/ is_private(ip)
      \/ ip[1] = 100 /\ ip[2] \div 64 = 1
      \/ ip[1] = 127
      \/ ip[1] = 169 /\ ip[2] = 254
      \/ ip[1] = 192 /\ ip[2] = 0 /\ ip[3] = 0 /\ ip[4] # 9 /\ ip[4] # 10
      \/ is_documentation(ip)
      \/ ip[1] = 198 /\ ip[2] \div 2 = 9
      \/ ip[1] \div 16 = 15 /\ ~ is_broadcast(ip)
      \/ is_broadcast(ip)

(* The segments in the notation of the code: 0x64 = 100, 0xff9b = 65435,    *)
(* 0x2001 = 8193, 0x112 = 274, 0xdb8 = 3512, 0xfc00 = 64512, 0xfe80 = 65152.*)
is_ipv6_global(s) ==
    ~ \/ s = <<0, 0, 0, 0, 0, 0, 0, 0>> \/ s = <<0, 0, 0, 0, 0, 0, 0, 1>>
      \/ SubSeq(s, 1, 6) = <<0, 0, 0, 0, 0, 65535>>
      \/ SubSeq(s, 1, 3) = <<100, 65435, 1>>
      \/ SubSeq(s, 1, 4) = <<256, 0, 0, 0>>
      \/ /\ s[1] = 8193 /\ s[2] < 512
         /\ ~ \/ s \in {<<8193, 1, 0, 0, 0, 0, 0, 1>>, <<8193, 1, 0, 0, 0, 0, 0, 2>>}
              \/ s[2] = 3
              \/ s[2] = 4 /\ s[3] = 274
              \/ s[2] \in 32..47
      \/ s[1] = 8193 /\ s[2] = 3512
      \/ s[1] \div 512 = 126
      \/ s[1] \div 64 = 1018

-----------------------------------------------------------------------------
(* NatInfo: [public_ips, public_ports, range, local_ipv4, ipv6, udp_ports,  *)
(* tcp_port, nat_type]; NONE where there is no address.                     *)

NO_ADDR == << >>
Special(ip) == ip = <<0, 0, 0, 0>> \/ ip[1] \in {127} \cup 224..239 \/ is_broadcast(ip)
NatInfo_new(public_ips, public_ports, range, local_ipv4, ipv6, udp_ports, tcp_port, nat_type) ==
    LET ips == Kept(public_ips, {ip \in ToSet(public_ips) : ~ Special(ip) /\ ~ is_private(ip)})
        usable == local_ipv4 # NO_ADDR /\ ~ Special(local_ipv4)
        usable6 == ipv6 # NO_ADDR /\ ipv6[1] \div 256 # 255
                   /\ ipv6 \notin {<<0, 0, 0, 0, 0, 0, 0, 0>>, <<0, 0, 0, 0, 0, 0, 0, 1>>}
    IN  [public_ips |-> ips, public_ports |-> public_ports, range |-> range,
         local_ipv4 |-> IF usable THEN local_ipv4 ELSE NO_ADDR,
         ipv6 |-> IF usable6 THEN ipv6 ELSE NO_ADDR,
         udp_ports |-> udp_ports, tcp_port |-> tcp_port,
         nat_type |-> IF Len(ips) > 1 THEN "Symmetric" ELSE nat_type]

update_addr(info, index, ip, port) ==
    [info EXCEPT !.public_ports = IF port # 0 /\ index + 1 \in DOMAIN @
                                  THEN [@ EXCEPT ![index + 1] = port] ELSE @,
                 !.public_ips = IF is_ipv4_global(ip) /\ ip \notin ToSet(@) THEN Append(@, ip) ELSE @]

\* recv_data: only the answer of a stun server that is configured counts.
recv_data(info, servers, index, source, ip, port) ==
    IF source \in servers /\ is_ipv4_global(ip) THEN update_addr(info, index, ip, port) ELSE info

is_local_address(info, tcp, ip, port) ==
    /\ IF tcp THEN info.tcp_port = port ELSE port \in ToSet(info.udp_ports)
    /\ ip # NO_ADDR /\ ip \in {info.local_ipv4, info.ipv6}

-----------------------------------------------------------------------------
(* The stun test.  A server is asked twice from one socket, the second time *)
(* at the other address it names; its answer is [first, second], the        *)
(* mappings <<ip, port>> it saw, NO_ADDR where none came back.  A round     *)
(* that cannot bind its socket is << >>.                                    *)

is_ipv4(a) == a # NO_ADDR /\ Len(a[1]) = 4
\* test_nat: the mapping of the second probe is not taken over; when it is
\* ipv4, that of the first is inserted once more, of whatever family it is.
test_nat(answer) ==
    IF answer.first # NO_ADDR /\ (is_ipv4(answer.first) \/ is_ipv4(answer.second))
    THEN {answer.first} ELSE {}
Ports(mapped) == {a[2] : a \in mapped}
stun_test_nat0(answers) ==
    LET pub_addrs == UNION {test_nat(answers[i]) : i \in DOMAIN answers}
        v4 == {a \in pub_addrs : is_ipv4(a)}
    IN  [nat_type |-> IF Cardinality(pub_addrs) > 1 THEN "Symmetric" ELSE "Cone",
         ips |-> {a[1] : a \in v4},
         range |-> IF v4 = {} THEN 0 ELSE Max(Ports(v4)) - Min(Ports(v4))]
stun_test_nat_Last(rounds) ==
    LET r == [i \in DOMAIN rounds |-> stun_test_nat0(rounds[i])]
    IN  [r[Len(rounds)] EXCEPT !.ips = UNION {r[i].ips : i \in DOMAIN r}]
stun_test_nat(rounds) ==
    LET r == [i \in DOMAIN rounds |-> stun_test_nat0(rounds[i])]
    IN  [nat_type |-> IF \E i \in DOMAIN r : r[i].nat_type = "Symmetric" THEN "Symmetric" ELSE "Cone",
         ips |-> UNION {r[i].ips : i \in DOMAIN r},
         range |-> Max({r[i].range : i \in DOMAIN r})]
re_test(info, rounds, local_ipv4, ipv6) ==
    LET t == stun_test_nat(rounds)
    IN  IF t.ips = {} THEN info
        ELSE [info EXCEPT !.nat_type = t.nat_type, !.public_ips = SetToSeq(t.ips), !.range = t.range,
                          !.local_ipv4 = IF local_ipv4 # NO_ADDR THEN local_ipv4 ELSE @,
                          !.ipv6 = ipv6]

pub_address_request_Stays(info, channel_num, count) ==
    [index |-> count % channel_num, next |-> count % channel_num, time |-> 3]
\* pub_address_request: the channel asked, the seconds to the next request
\* and the count it is made with.
pub_address_request(info, channel_num, count) ==
    LET index == count % channel_num
    IN  [index |-> index, next |-> index + 1,
         time |-> IF 0 \in ToSet(info.public_ports) \/ info.public_ips = << >> THEN 3
                  ELSE IF info.nat_type = "Symmetric" THEN 600
                  ELSE IF index = channel_num - 1 THEN 19 ELSE 9]

-----------------------------------------------------------------------------
(* Where punch() looks for a peer.                                          *)

PunchModels == {"IPv4", "IPv6", "IPv4Tcp", "IPv4Udp", "IPv6Tcp", "IPv6Udp", "All"}
use_tcp(m) == m \notin {"IPv4Udp", "IPv6Udp"}
use_udp(m) == m \notin {"IPv4Tcp", "IPv6Tcp"}
use_ipv6(m) == m \in {"All", "IPv6", "IPv6Tcp", "IPv6Udp"}
use_ipv4(m) == m \in {"All", "IPv4", "IPv4Tcp", "IPv4Udp"}

\* What is left of the peer's NatInfo: no address of the virtual network net,
\* no port 0.
Cleaned(peer, net) ==
    [peer EXCEPT !.public_ips = Kept(@, {ip \in ToSet(@) : is_ipv4_global(ip) /\ ip \notin net}),
                 !.public_ports = Kept(@, ToSet(@) \ {0}),
                 !.udp_ports = Kept(@, ToSet(@) \ {0}),
                 !.local_ipv4 = IF @ \in net THEN NO_ADDR ELSE @]

Target(tcp, index, ip, port) == [tcp |-> tcp, index |-> index, ip |-> ip, port |-> port]
TcpTargets(m, me, peer, punch_tcp) ==
    LET try(ip) == IF ip = NO_ADDR \/ is_local_address(me, TRUE, ip, peer.tcp_port) THEN {}
                   ELSE {Target(TRUE, 0, ip, peer.tcp_port)}
    IN  IF ~ (punch_tcp /\ use_tcp(m) /\ peer.tcp_port # 0) THEN {}
        ELSE (IF use_ipv6(m) THEN try(peer.ipv6) ELSE {})
             \cup (IF use_ipv4(m) THEN UNION {try(ip) : ip \in {peer.local_ipv4} \cup ToSet(peer.public_ips)}
                   ELSE {})

LocalTargets(me, peer, ip, indexes) ==
    LET port(i) == peer.udp_ports[(i % Len(peer.udp_ports)) + 1]
    IN  IF ip = NO_ADDR \/ peer.udp_ports = << >> THEN {}
        ELSE {Target(FALSE, i, ip, port(i)) :
                 i \in {j \in indexes : ~ is_local_address(me, FALSE, ip, port(j))}}
\* The udp targets but the guesses of a symmetric NAT.  Under IPv6 the first
\* packet that can be sent is enough.
UdpTargets(m, me, peer, channel_num, main_len, cone) ==
    LET all6 == LocalTargets(me, peer, peer.ipv6, channel_num..(main_len - 1))
        ipv6 == IF m = "IPv6" THEN {t \in all6 : \A u \in all6 : t.index <= u.index} ELSE all6
        open == {Target(FALSE, i, ip, port) :
                    i \in 0..(channel_num - 1), ip \in ToSet(peer.public_ips), port \in ToSet(peer.udp_ports)}
        n == IF Len(peer.public_ports) < channel_num THEN Len(peer.public_ports) ELSE channel_num
        mapped == IF peer.nat_type # "Cone" THEN {}
                  ELSE IF cone THEN {Target(FALSE, i, ip, peer.public_ports[i + 1]) :
                                        i \in 0..(n - 1), ip \in ToSet(peer.public_ips)}
                  ELSE IF n = 0 THEN {}
                  ELSE {Target(FALSE, i, ip, peer.public_ports[1]) :
                           i \in 0..(channel_num - 1), ip \in ToSet(peer.public_ips)}
    IN  IF ~ use_udp(m) THEN {}
        ELSE (IF use_ipv6(m) THEN ipv6 ELSE {})
             \cup (IF use_ipv4(m)
                   THEN LocalTargets(me, peer, peer.local_ipv4, 0..(channel_num - 1)) \cup open \cup mapped
                   ELSE {})
punch_Raw(m, me, peer, net, punch_tcp, channel_num, main_len, cone) ==
    TcpTargets(m, me, peer, punch_tcp) \cup UdpTargets(m, me, peer, channel_num, main_len, cone)
punch(m, me, peer, net, punch_tcp, channel_num, main_len, cone) ==
    LET p == Cleaned(peer, net)
    IN  TcpTargets(m, me, p, punch_tcp) \cup UdpTargets(m, me, p, channel_num, main_len, cone)

(* A symmetric NAT: guesses around the known port, then a sweep over all.   *)

MAX_K1 == 60
\* u16 arithmetic: the difference of a lowest and a highest port.
Wrap16(n) == n % 65536
PredictedPorts_Wraps(port, range) ==
    LET min_port == IF port > range THEN port - range ELSE 1
        max_port == Wrap16(port + range)
        size == Wrap16((max_port - min_port) + 1)
    IN  [min |-> min_port, max |-> max_port, k |-> IF size > MAX_K1 THEN MAX_K1 ELSE size]
PredictedPorts(port, range) ==
    LET min_port == IF port > range THEN port - range ELSE 1
        max_port == IF port + range > 65535 THEN 65535 ELSE port + range
        size == Wrap16((max_port - min_port) + 1)
    IN  [min |-> min_port, max |-> max_port, k |-> IF size > MAX_K1 THEN MAX_K1 ELSE size]
Predicts(range) == range < MAX_K1 * 3

max_k2(drawn, count) ==
    IF count > 2 THEN IF (drawn * 2) \div count > MAX_K1 THEN (drawn * 2) \div count ELSE MAX_K1
    ELSE drawn

\* punch_symmetric: how many ports were done and what was sent; the probe
\* that would be number max is not sent.
punch_symmetric(ports, ips, max) ==
    LET probes == [i \in 1..(Len(ports) * Len(ips)) |->
                      <<(i - 1) \div Len(ips), ips[((i - 1) % Len(ips)) + 1]>>]
        sent == IF Len(probes) < max THEN Len(probes) ELSE max - 1
    IN  [done |-> IF Len(probes) < max THEN Len(ports) ELSE probes[max][1],
         sent |-> {<<ports[probes[i][1] + 1], probes[i][2]>> : i \in 1..sent}]

\* One call of punch: the sweep goes on where the last one ended.
Sweep_Skips(all, start, ips, max) ==
    LET end == IF start + max > Len(all) THEN Len(all) ELSE start + max
        r == punch_symmetric(SubSeq(all, start + 1, end), ips, max)
    IN  [index |-> IF end >= Len(all) THEN 0 ELSE end, sent |-> r.sent]
Sweep(all, start, ips, max) ==
    LET end == IF start + max > Len(all) THEN Len(all) ELSE start + max
        r == punch_symmetric(SubSeq(all, start + 1, end), ips, max)
        index == start + r.done
    IN  [index |-> IF index >= Len(all) THEN 0 ELSE index, sent |-> r.sent]

-----------------------------------------------------------------------------
\* An address is taken for public exactly when it is outside of every block
\* set aside for something else, or in one of the blocks inside those that
\* are public again.  A block is <<its first words, the bits of its prefix>>.
InBlock(a, block, width) ==
    LET whole == block[2] \div width
        part == Power2(width - (block[2] % width))
    IN  /\ \A i \in 1..whole : a[i] = block[1][i]
        /\ block[2] % width # 0 => a[whole + 1] \div part = block[1][whole + 1] \div part
InSome(a, blocks, width) == \E block \in blocks : InBlock(a, block, width)
Blocks4 == {<<<<0>>, 8>>, <<<<10>>, 8>>, <<<<100, 64>>, 10>>, <<<<127>>, 8>>, <<<<169, 254>>, 16>>,
            <<<<172, 16>>, 12>>, <<<<192, 0, 0>>, 24>>, <<<<192, 0, 2>>, 24>>, <<<<192, 168>>, 16>>,
            <<<<198, 18>>, 15>>, <<<<198, 51, 100>>, 24>>, <<<<203, 0, 113>>, 24>>, <<<<240>>, 4>>}
Again4 == {<<<<192, 0, 0, 9>>, 32>>, <<<<192, 0, 0, 10>>, 32>>}
Blocks6 == {<<<<0, 0, 0, 0, 0, 0, 0, 0>>, 128>>, <<<<0, 0, 0, 0, 0, 0, 0, 1>>, 128>>,
            <<<<0, 0, 0, 0, 0, 65535>>, 96>>, <<<<100, 65435, 1>>, 48>>, <<<<256, 0, 0, 0>>, 64>>,
            <<<<8193, 0>>, 23>>, <<<<8193, 3512>>, 32>>, <<<<64512>>, 7>>, <<<<65152>>, 10>>}
Again6 == {<<<<8193, 1, 0, 0, 0, 0, 0, 1>>, 128>>, <<<<8193, 1, 0, 0, 0, 0, 0, 2>>, 128>>,
           <<<<8193, 3>>, 32>>, <<<<8193, 4, 274>>, 48>>, <<<<8193, 32>>, 28>>}
PublicAddress(a) ==
    IF Len(a) = 4 THEN is_ipv4_global(a) = (InSome(a, Again4, 8) \/ ~ InSome(a, Blocks4, 8))
    ELSE is_ipv6_global(a) = (InSome(a, Again6, 16) \/ ~ InSome(a, Blocks6, 16))

\* What the stun test says of the NAT, by the first probes of each round,
\* whatever the second ones showed: it is called a cone only if no two
\* servers of a round saw different ipv4 mappings of the socket, symmetric
\* only if two servers of a round did see different mappings; and the ports
\* a peer then guesses around any port that was seen contain every other one
\* of that round, within the ports there are.
FirstProbes(round) == {round[i].first : i \in DOMAIN round} \ {NO_ADDR}
FirstProbes4(round) == {a \in FirstProbes(round) : is_ipv4(a)}
StunFindsNat(rounds) ==
    LET t == stun_test_nat(rounds)
    IN  /\ t.nat_type = "Cone" => \A i \in DOMAIN rounds : Cardinality(FirstProbes4(rounds[i])) <= 1
        /\ t.nat_type # "Cone" => \E i \in DOMAIN rounds : Cardinality(FirstProbes(rounds[i])) > 1
        /\ \A i \in DOMAIN rounds : \A a, b \in FirstProbes4(rounds[i]) :
             LET g == PredictedPorts(a[2], t.range)
             IN  Predicts(t.range) => b[2] \in g.min..g.max

\* The guesses are ports, and no more of them are taken than there are, for
\* every port and range, the unknown port 0 included.
GuessesArePorts(port, range) ==
    LET g == PredictedPorts(port, range)
    IN  Predicts(range) =>
          /\ g.min >= 1 /\ g.max <= 65535
          /\ g.k <= Cardinality(g.min..g.max)
          /\ port # 0 => port \in g.min..g.max /\ g.k > 0

\* Before the sweep starts again from the first port it has tried every port
\* at every address, though every call is cut off at its own limit.
SweepCovers(all, ips, max) ==
    LET call[n \in 0..(Len(all) + 1)] ==
            IF n = 0 THEN [index |-> 0, sent |-> {}, over |-> FALSE]
            ELSE IF call[n - 1].over THEN call[n - 1]
            ELSE LET s == Sweep(all, call[n - 1].index, ips, max)
                 IN  [index |-> s.index, sent |-> call[n - 1].sent \cup s.sent, over |-> s.index = 0]
    IN  Len(ips) < max =>
          /\ call[Len(all) + 1].over
          /\ call[Len(all) + 1].sent = ToSet(all) \X ToSet(ips)

\* A node never looks for a peer at a local address of its own, at port 0,
\* inside the virtual network (ipv4), or with a protocol it was told not to
\* use; it does look at every mapping of a cone.
TargetsSensible(m, me, peer, net, punch_tcp, channel_num, main_len, cone) ==
    LET ts == punch(m, me, peer, net, punch_tcp, channel_num, main_len, cone)
        v6(t) == Len(t.ip) = 8
    IN  /\ \A t \in ts :
             /\ t.port # 0 /\ (v6(t) \/ t.ip \notin net)
             /\ t.ip \in {me.local_ipv4, me.ipv6} =>
                  IF t.tcp THEN t.port # me.tcp_port ELSE t.port \notin ToSet(me.udp_ports)
             /\ IF t.tcp THEN use_tcp(m) ELSE use_udp(m)
             /\ IF v6(t) THEN use_ipv6(m) ELSE use_ipv4(m)
        /\ use_udp(m) /\ use_ipv4(m) /\ peer.nat_type = "Cone" /\ cone =>
             \A i \in 1..channel_num : \A ip \in ToSet(peer.public_ips) :
                (\A j \in DOMAIN peer.public_ports : peer.public_ports[j] # 0)
                /\ i \in DOMAIN peer.public_ports /\ is_ipv4_global(ip) /\ ip \notin net =>
                    Target(FALSE, i - 1, ip, peer.public_ports[i]) \in ts

\* Every channel's port is asked for in turn, within one round of requests.
ChannelsAsked(info, channel_num, count) ==
    LET ask[n \in 0..channel_num] ==
            IF n = 0 THEN pub_address_request(info, channel_num, count)
            ELSE pub_address_request(info, channel_num, ask[n - 1].next)
    IN  {ask[n].index : n \in 0..(channel_num - 1)} = 0..(channel_num - 1)

===============================================================================
