------------------------------ MODULE NetPackets ------------------------------
(* The packets of the virtual network (vnt/src/protocol): a head of twelve  *)
(* bytes, the codes of each protocol, and the bodies with a fixed layout.   *)
EXTENDS Bytes

HEAD_LEN == 12
ENCRYPTION_RESERVED == 60

Version_from(v) == Name(v, {2})
Version_into(name) == Code(name)
Protocol_from(v) == Name(v, 1..5)       \* Service, Error, Control, IpTurn, OtherTurn
Protocol_into(name) == Code(name)
Control_from(v) == Name(v, 1..6)        \* Ping, Pong, Punch*, Addr*
Control_into(name) == Code(name)
IpTurn_from(v) == Name(v, {4, 5, 201})  \* Ipv4, WGIpv4, Ipv4Broadcast
IpTurn_into(name) == Code(name)
Error_from(v) == Name(v, 1..6)
Error_into(name) == Code(name)
Service_from(v) == Name(v, 1..9)
Service_into(name) == Code(name)
OtherTurn_from(v) == Name(v, {1})       \* Punch
OtherTurn_into(name) == Code(name)

-----------------------------------------------------------------------------
(* A packet is [b, data_len]: the whole buffer and the bytes in use.        *)

Error == [b |-> << >>, data_len |-> 0]
new0(data_len, b) ==
    IF data_len > Len(b) \/ data_len < HEAD_LEN THEN Error ELSE [b |-> b, data_len |-> data_len]
new_encrypt(b) ==
    IF HEAD_LEN + ENCRYPTION_RESERVED > Len(b) THEN Error
    ELSE new0(Len(b) - ENCRYPTION_RESERVED, b)
reserve(p) == Len(p.b) - p.data_len
set_data_len(p, n) == IF n > Len(p.b) \/ n < HEAD_LEN THEN Error ELSE [p EXCEPT !.data_len = n]
set_payload_len(p, n) == set_data_len(p, HEAD_LEN + n)
net_payload(p) == Cut(p.b, HEAD_LEN, p.data_len)
set_payload(p, s) ==
    IF p.data_len - HEAD_LEN # Len(s) THEN Error ELSE [p EXCEPT !.b = Put(@, HEAD_LEN, s)]

NetHead ==
    [min |-> HEAD_LEN,
     fields |-> [encrypt |-> <<0, 1>>, gateway |-> <<1, 1>>, extension |-> <<2, 1>>,
                 version |-> <<4, 4>>, protocol |-> <<8, 8>>, transport |-> <<16, 8>>,
                 source_ttl |-> <<24, 4>>, ttl |-> <<28, 4>>,
                 source |-> <<32, 32>>, destination |-> <<64, 32>>],
     setters |-> [protocol |-> <<1, 1>>, transport |-> <<2, 1>>, source |-> <<4, 4>>,
                  destination |-> <<8, 4>>]]

\* The flags and the version share a byte, each with its mask.
SetHeadFlag(b, mask, on) ==
    Put(b, 0, <<IF on THEN Or(At(b, 0), mask) ELSE And(At(b, 0), 255 - mask)>>)
set_encrypt_flag(b, on) == SetHeadFlag(b, 128, on)
set_gateway_flag(b, on) == SetHeadFlag(b, 64, on)
set_extension_flag(b, on) == SetHeadFlag(b, 32, on)
set_default_version(b) == Put(b, 0, <<Or(And(At(b, 0), 240), And(15, 2))>>)

\* The byte of the two ttls: set once for both, then counted down.
MAX_TTL == 15
MAX_SOURCE == 240
first_set_ttl(b, ttl) == Put(b, 3, <<Or(Shl(ttl, 4), ttl)>>)
set_ttl_Both(b, ttl) == Put(b, 3, <<And(MAX_TTL, ttl)>>)
set_ttl(b, ttl) == Put(b, 3, <<Or(And(At(b, 3), MAX_SOURCE), And(MAX_TTL, ttl))>>)
incr_ttl(b) == set_ttl(b, And(At(b, 3), MAX_TTL) - 1)
set_source_ttl(b, ttl) == Put(b, 3, <<Or(Shl(ttl, 4), And(MAX_TTL, At(b, 3)))>>)

PingPacket ==
    [min |-> 4, fields |-> [time |-> <<0, 16>>, epoch |-> <<16, 16>>], setters |-> [time |-> <<0, 2>>, epoch |-> <<2, 2>>]]
AddrPacket ==
    [min |-> 6, fields |-> [ipv4 |-> <<0, 32>>, port |-> <<32, 16>>], setters |-> [ipv4 |-> <<0, 4>>, port |-> <<4, 2>>]]
NetViews == [net |-> NetHead, ping |-> PingPacket, addr |-> AddrPacket]

\* ControlPacket::new: the body a transport code asks for, if b can hold it.
ControlPacket(code, b) ==
    LET shortest == IF code \in {1, 2} THEN PingPacket.min ELSE IF code = 6 THEN AddrPacket.min ELSE 0
    IN  code \in 1..6 /\ Len(b) >= shortest

-----------------------------------------------------------------------------
(* BroadcastPacket: number of addresses, the addresses, the packet.         *)

addr_num(b) == At(b, 0)
BroadcastPacket_new(b) == Len(b) >= 6 /\ addr_num(b) # 0
addresses(b) == [i \in 1..addr_num(b) |-> Cut(b, 1 + 4 * (i - 1), 1 + 4 * i)]
broadcast_data(b) == From(b, 1 + 4 * addr_num(b))
set_address(b, list) ==
    IF Len(b) < 1 + 4 * Len(list) \/ Len(list) > 255 THEN << >>
    ELSE Put(b, 0, <<Len(list)>> \o FlattenSeq(list))
set_data(b, d) ==
    LET start == 1 + 4 * addr_num(b)
    IN  IF start >= Len(b) \/ start + Len(d) # Len(b) THEN << >> ELSE Put(b, start, d)

\* What broadcast() of the tun handler sends to the server: the client
\* packet inside, and room behind it for the server's cipher.
ServerBroadcast_Tight(list, inner) ==
    LET p == new_encrypt(Zeros(HEAD_LEN + 4 * Len(list) + Len(inner) + ENCRYPTION_RESERVED))
    IN  set_payload(p, set_data(set_address(net_payload(p), list), inner))
ServerBroadcast(list, inner) ==
    LET p == new_encrypt(Zeros(HEAD_LEN + 1 + 4 * Len(list) + Len(inner) + ENCRYPTION_RESERVED))
    IN  set_payload(p, set_data(set_address(net_payload(p), list), inner))

-----------------------------------------------------------------------------
\* The broadcast the server gets holds exactly the peers to skip and the
\* client's packet, and the room its cipher needs is behind it.
BroadcastCarries(list, inner) ==
    LET p == ServerBroadcast(list, inner)
        body == net_payload(p)
    IN  /\ p # Error /\ reserve(p) = ENCRYPTION_RESERVED
        /\ list # << >> => BroadcastPacket_new(body) /\ addresses(body) = list
        /\ broadcast_data(body) = inner

\* The ttl of a packet counts its hops: what is left of it and the hops taken
\* add up to the first ttl, which later hops still read, until it is used up;
\* the other fields of the head do not move.
HopsCounted(b, ttl, hops) ==
    LET step[n \in 0..hops] == IF n = 0 THEN first_set_ttl(b, ttl) ELSE incr_ttl(step[n - 1])
        f == NetHead.fields
    IN  hops <= ttl =>
          /\ At(step[hops], 3) = 16 * ttl + (ttl - hops)
          /\ \A g \in DOMAIN f \ {"ttl", "source_ttl"} : Field(step[hops], f[g]) = Field(b, f[g])

===============================================================================
