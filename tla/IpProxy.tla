------------------------------- MODULE IpProxy -------------------------------
(* What the client does with an ipv4 packet of a peer (client.rs ip_turn):  *)
(* answer an echo, stop a packet to a network it does not serve, hand it to *)
(* the proxy of its protocol (ip_proxy/), or write it to the device; and    *)
(* the way back through send_handle and the icmp socket.                    *)
EXTENDS IpPackets

(* The tcp and the udp proxy: a packet for another network is turned to the *)
(* proxy's own port; nat_map remembers, per source, where it was going.     *)

New(view, p) == IF view = "tcp" THEN Tcp_new(p) ELSE Udp_new(p)

recv_handle_KeepsSum(view, nat, port, b, source, destination) ==
    LET p == payload(b)
        turned == SetPayload(b, set_destination_port(p, port))
    IN  [packet |-> update_checksum("ipv4", set_destination_ip(turned, destination),
                                    source, destination),
         nat |-> (<<source, source_port(p)>> :> <<destination_ip(b), destination_port(p)>>) @@ nat]
recv_handle(view, nat, port, b, source, destination) ==
    LET p == payload(b)
        q == update_checksum(view, set_destination_port(p, port), source, destination)
        turned == set_destination_ip(SetPayload(b, q), destination)
    IN  [packet |-> update_checksum("ipv4", turned, source, destination),
         nat |-> (<<source, source_port(p)>> :> <<destination_ip(b), destination_port(p)>>) @@ nat]

\* The answer of the proxy's socket, on its way out through the tun handler
\* (NONE: the packet is too short for its protocol, an error).
send_handle(view, nat, b) ==
    LET p == payload(b)
        dest_ip == destination_ip(b)
        key == <<dest_ip, destination_port(p)>>
        from == nat[key]
        q == update_checksum(view, set_source_port(p, from[2]), from[1], dest_ip)
    IN  IF ~ New(view, p) THEN NONE
        ELSE IF key \notin DOMAIN nat THEN b
        ELSE update_checksum("ipv4", set_source_ip(SetPayload(b, q), from[1]), from[1], dest_ip)

(* The icmp proxy: only packets with an identifier, never a fragment.       *)
icmp_recv_handle(nat, b, source) ==
    LET other == header_other(payload(b))
    IN  IF ~ Fragment(b) /\ other[1] = "Identifier"
        THEN [sent |-> <<destination_ip(b), payload(b)>>,
              nat |-> (<<destination_ip(b), other[2], other[3]>> :> source) @@ nat]
        ELSE [sent |-> NONE, nat |-> nat]
icmp_answer(nat, b, peer_ip) ==
    LET other == header_other(payload(b))
        key == <<peer_ip, other[2], other[3]>>
    IN  IF IpV4_new(b) /\ Icmp_new(payload(b)) /\ other[1] = "Identifier" /\ key \in DOMAIN nat
        THEN update_checksum("ipv4", set_destination_ip(b, nat[key]), peer_ip, nat[key])
        ELSE NONE

-----------------------------------------------------------------------------
(* ip_turn: node is [nat, icmp_nat, tcp_port, udp_port, allow, local,       *)
(* broadcast_ip, proxy]; the result names what is done and with what.       *)

Broadcast(ip) == ip = <<255, 255, 255, 255>>
Multicast(ip) == ip[1] \in 224..239

\* The proxy took the packet of the udp or tcp view to its port.
Proxied(node, b, source, destination) ==
    LET view == IF protocol(b) = IpProtocol_from(Tcp) THEN "tcp" ELSE "udp"
        r == recv_handle(view, node.nat[view], node.port[view], b, source, destination)
    IN  IF protocol(b) = IpProtocol_from(Icmp)
        THEN LET i == icmp_recv_handle(node.icmp_nat, b, source)
             IN  IF ~ Fragment(b) /\ ~ Icmp_new(payload(b))
                 THEN [did |-> "err", packet |-> NONE, node |-> node]
                 ELSE [did |-> "icmp", packet |-> i.sent, node |-> [node EXCEPT !.icmp_nat = i.nat]]
        ELSE IF protocol(b) \notin {IpProtocol_from(Tcp), IpProtocol_from(Udp)}
        THEN [did |-> "write", packet |-> b, node |-> node]
        ELSE IF ~ New(view, payload(b))
        THEN [did |-> "err", packet |-> NONE, node |-> node]
        ELSE [did |-> "write", packet |-> r.packet, node |-> [node EXCEPT !.nat[view] = r.nat]]

Refused_AnyNetwork(node, b) ==
    LET p == payload(b)
    IN  \/ protocol(b) = IpProtocol_from(Tcp) /\ Len(p) < 20
        \/ protocol(b) = IpProtocol_from(Udp) /\ Len(p) < 8
\* A packet the device's own sockets sent or listen for must not be proxied.
Refused(node, b) ==
    LET real == destination_ip(b)
        p == payload(b)
    IN  \/ real \notin node.allow
        \/ protocol(b) = IpProtocol_from(Tcp)
           /\ (Len(p) < 20 \/ <<"tcp", real, destination_port(p)>> \in node.local)
        \/ protocol(b) = IpProtocol_from(Udp)
           /\ (Len(p) < 8 \/ <<"udp", real, destination_port(p)>> \in node.local)

ip_turn(node, b, source, destination) ==
    LET real == destination_ip(b)
        plain == real = destination \/ Broadcast(real) \/ Multicast(real)
                 \/ real = node.broadcast_ip \/ real = Zeros(4)
        done(what, p) == [did |-> what, packet |-> p, node |-> node]
    IN  CASE ~ IpV4_new(b) -> done("err", NONE)
          [] IpV4_new(b) /\ protocol(b) = IpProtocol_from(Icmp) /\ real = destination
             /\ ~ Icmp_new(payload(b)) -> done("err", NONE)
          [] IpV4_new(b) /\ Echo(b) /\ real = destination ->
                done("answer", EchoAnswer(b, destination, source))
          [] OTHER ->
                IF plain THEN done("write", b)
                ELSE IF Refused(node, b) THEN done("drop", NONE)
                ELSE IF node.proxy THEN Proxied(node, b, source, destination)
                ELSE done("write", b)

-----------------------------------------------------------------------------
\* A packet turned to the proxy and the answer of the proxy's socket: the
\* application sees an answer of the host it wrote to, from the port it wrote
\* to, and every checksum on the way is right.  The answer is the request
\* with its ends exchanged, as the proxy's socket sends it.
ProxyIsTransparent(view, b, source, destination, port) ==
    \A r \in {recv_handle(view, << >>, port, b, source, destination)} :
        LET p == payload(r.packet)
            answer == set_destination_ip(set_source_ip(
                        SetPayload(r.packet, set_destination_port(set_source_port(p, port),
                                                                  source_port(p))),
                        destination), source)
        IN  /\ destination_ip(r.packet) = destination /\ destination_port(p) = port
            /\ is_valid("ipv4", r.packet, source, destination)
            /\ is_valid(view, p, source, destination)
            /\ \A back \in {send_handle(view, r.nat, answer)} :
                  /\ source_ip(back) = destination_ip(b)
                  /\ source_port(payload(back)) = destination_port(payload(b))
                  /\ destination_ip(back) = source
                  /\ destination_port(payload(back)) = source_port(payload(b))
                  /\ is_valid("ipv4", back, source_ip(back), source)
                  /\ is_valid(view, payload(back), source_ip(back), source)

\* What ip_turn may do with a packet of a peer: a packet it does not serve is
\* never written or proxied, what is handed to a socket or the device came
\* from the packet, and an echo to another network that leaves by the icmp
\* socket finds its way back to the peer that asked.
TurnedRight(node, b, source, destination) ==
    LET to == destination_ip(b)
        answer == set_source_ip(SetPayload(b, Put(payload(b), 0, <<EchoReply>>)), to)
        outside == /\ to \notin {destination, node.broadcast_ip, Zeros(4)}
                   /\ ~ Broadcast(to) /\ ~ Multicast(to)
    IN  IpV4_new(b) =>
          \A r \in {ip_turn(node, b, source, destination)} :
            /\ outside /\ to \notin node.allow => r.did = "drop"
            /\ r.did = "icmp" /\ Echo(b) /\ ~ Fragment(b) =>
                 /\ r.packet = <<to, payload(b)>>
                 /\ \A back \in {icmp_answer(r.node.icmp_nat, answer, to)} :
                       /\ back # NONE /\ destination_ip(back) = source
                       /\ is_valid("ipv4", back, to, source)
            /\ r.did = "write" => source_ip(r.packet) = source_ip(b)

=============================================================================
