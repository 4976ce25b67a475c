------------------------------ MODULE IpPackets ------------------------------
(* The packet crate: the ipv4, icmp, udp, tcp, igmp, arp and ethernet views *)
(* of a byte buffer, their checksums, and the ethernet end of a tap device  *)
(* (vnt/packet/src, vnt/tun/src/packet).  A view is the table of the bits   *)
(* its getters read and of the bytes its setters write; the setters of a    *)
(* part of a byte are operators of their own.                               *)
EXTENDS Bytes

-----------------------------------------------------------------------------
(* Checksums: one's complement sum of the 16-bit words, an odd last byte    *)
(* filled up with zero, carries added back until none is left.              *)

WordSum(b) ==
    LET word(i) == IF 2 * i <= Len(b) THEN U16(b, 2 * i - 2) ELSE b[2 * i - 1] * 256
    IN  FoldSeq(LAMBDA x, y : x + y, 0, [i \in 1..(Len(b) + 1) \div 2 |-> word(i)])

FoldCarry_Once(sum) == ((sum % 65536) + (sum \div 65536)) % 65536
\* Three rounds: a 32-bit sum has no carry left after them.
FoldCarry(sum) ==
    LET once(s) == (s % 65536) + (s \div 65536) IN once(once(once(sum)))

cal_checksum(b) == 65535 - FoldCarry(WordSum(b))
ipv4_cal_checksum(b, src, dst, protocol) ==
    65535 - FoldCarry(WordSum(src) + WordSum(dst) + protocol + Len(b) + WordSum(b))

-----------------------------------------------------------------------------
(* Codes of one or two bytes (Name and Code of Bytes).                      *)

Icmp == 1
Tcp == 6
Udp == 17
IpProtocolCodes == 0..142 \cup {253, 254}
IpProtocol_from(v) == Name(v, IpProtocolCodes)
IpProtocol_into(name) == Code(name)

EtherIpv4 == 2048
EtherArp == 2054
EtherProtocolCodes ==
            {EtherIpv4, EtherArp, 2114, 8947, 24579, 32821, 32923, 33011, 33079,
             33284, 34525, 34824, 34841, 34887, 34888, 34915, 34916, 33024,
             34984, 35020, 35063, 35074, 37120}
EtherProtocol_from(v) == Name(v, EtherProtocolCodes)
EtherProtocol_into(name) == Code(name)

EchoReply == 0
EchoRequest == 8
Kind_from(v) == Name(v, {0, 3, 4, 5} \cup 8..18 \cup {30})
Kind_into(name) == Code(name)

\* The codes of three kinds have names too.
DestinationUnreachable == 3
Redirect == 5
ParameterProblem == 12
DestinationUnreachableCodes == 0..15
RedirectCodes == 0..3
ParameterProblemCodes == 0..2
Code_from(k, c) ==
    CASE Code(k) = DestinationUnreachable -> Name(c, DestinationUnreachableCodes)
      [] Code(k) = Redirect               -> Name(c, RedirectCodes)
      [] Code(k) = ParameterProblem       -> Name(c, ParameterProblemCodes)
      [] OTHER                            -> <<"Other", c>>

IgmpV2Type_from(v) == Name(v, {17, 22, 23})
IgmpV2Type_into(name) == Code(name)
IgmpV3Type_from(v) == Name(v, {17, 34})
IgmpV3Type_into(name) == Code(name)

-----------------------------------------------------------------------------
(* The views: shortest buffer accepted, what the getters read as            *)
(* <<first bit, bits>>, what the setters write as <<first byte, bytes>>.    *)

IpV4Packet ==
    [min |-> 20,
     fields |-> [version |-> <<0, 4>>, header_len |-> <<4, 4>>, dscp |-> <<8, 6>>,
                 ecn |-> <<14, 2>>, length |-> <<16, 16>>, id |-> <<32, 16>>,
                 flags |-> <<48, 3>>, offset |-> <<51, 13>>, ttl |-> <<64, 8>>,
                 protocol |-> <<72, 8>>, checksum |-> <<80, 16>>,
                 source_ip |-> <<96, 32>>, destination_ip |-> <<128, 32>>],
     setters |-> [protocol |-> <<9, 1>>, source_ip |-> <<12, 4>>, destination_ip |-> <<16, 4>>,
                  ttl |-> <<8, 1>>, checksum |-> <<10, 2>>]]

IcmpPacket ==
    [min |-> 8,
     fields |-> [kind |-> <<0, 8>>, code |-> <<8, 8>>, checksum |-> <<16, 16>>,
                 other |-> <<32, 32>>],
     setters |-> [kind |-> <<0, 1>>, checksum |-> <<2, 2>>]]

UdpPacket_Shifted ==
    [min |-> 8,
     fields |-> [source_port |-> <<0, 16>>, destination_port |-> <<16, 16>>,
                 length |-> <<32, 16>>, checksum |-> <<48, 16>>],
     setters |-> [source_port |-> <<0, 2>>, destination_port |-> <<1, 2>>, checksum |-> <<6, 2>>]]
UdpPacket ==
    [min |-> 8,
     fields |-> [source_port |-> <<0, 16>>, destination_port |-> <<16, 16>>,
                 length |-> <<32, 16>>, checksum |-> <<48, 16>>],
     setters |-> [source_port |-> <<0, 2>>, destination_port |-> <<2, 2>>, checksum |-> <<6, 2>>]]
TcpPacket ==
    [min |-> 20,
     fields |-> [source_port |-> <<0, 16>>, destination_port |-> <<16, 16>>,
                 sequence |-> <<32, 32>>, acknowledgment |-> <<64, 32>>,
                 data_offset |-> <<96, 4>>, flags |-> <<104, 8>>, window |-> <<112, 16>>,
                 checksum |-> <<128, 16>>, urgent_pointer |-> <<144, 16>>],
     setters |-> [source_port |-> <<0, 2>>, destination_port |-> <<2, 2>>, checksum |-> <<16, 2>>]]

IgmpV1Packet ==
    [min |-> 8,
     fields |-> [version |-> <<0, 4>>, igmp_type |-> <<4, 4>>, unused |-> <<8, 8>>,
                 checksum |-> <<16, 16>>, group_address |-> <<32, 32>>],
     setters |-> [checksum |-> <<2, 2>>, group_address |-> <<4, 4>>]]
IgmpV2Packet ==
    [min |-> 8,
     fields |-> [igmp_type |-> <<0, 8>>, max_resp_time |-> <<8, 8>>,
                 checksum |-> <<16, 16>>, group_address |-> <<32, 32>>],
     setters |-> [igmp_type |-> <<0, 1>>, max_resp_time |-> <<1, 1>>,
                  checksum |-> <<2, 2>>, group_address |-> <<4, 4>>]]

IgmpV3QueryPacket ==
    [min |-> 12,
     fields |-> [igmp_type |-> <<0, 8>>, max_resp_code |-> <<8, 8>>,
                 checksum |-> <<16, 16>>, group_address |-> <<32, 32>>,
                 resv |-> <<64, 4>>, s |-> <<68, 1>>, qrv |-> <<69, 3>>,
                 qqic |-> <<72, 8>>, source_number |-> <<80, 16>>],
     setters |-> [igmp_type |-> <<0, 1>>, max_resp_code |-> <<1, 1>>,
                  checksum |-> <<2, 2>>, group_address |-> <<4, 4>>, qqic |-> <<9, 1>>]]

EthernetPacket ==
    [min |-> 14,
     fields |-> [destination |-> <<0, 48>>, source |-> <<48, 48>>, protocol |-> <<96, 16>>],
     setters |-> [destination |-> <<0, 6>>, source |-> <<6, 6>>, protocol |-> <<12, 2>>]]

ArpPacket ==
    [min |-> 28,
     fields |-> [hardware_type |-> <<0, 16>>, protocol_type |-> <<16, 16>>,
                 hardware_size |-> <<32, 8>>, protocol_size |-> <<40, 8>>,
                 op_code |-> <<48, 16>>, sender_hardware_addr |-> <<64, 48>>,
                 sender_protocol_addr |-> <<112, 32>>, target_hardware_addr |-> <<144, 48>>,
                 target_protocol_addr |-> <<192, 32>>],
     setters |-> [hardware_type |-> <<0, 2>>, protocol_type |-> <<2, 2>>,
                  hardware_size |-> <<4, 1>>, protocol_size |-> <<5, 1>>, op_code |-> <<6, 2>>,
                  sender_hardware_addr |-> <<8, 6>>, sender_protocol_addr |-> <<14, 4>>,
                  target_hardware_addr |-> <<18, 6>>, target_protocol_addr |-> <<24, 4>>]]

Views == [ipv4 |-> IpV4Packet, icmp |-> IcmpPacket, udp |-> UdpPacket,
          tcp |-> TcpPacket, igmp_v1 |-> IgmpV1Packet, igmp_v2 |-> IgmpV2Packet, igmp_v3 |-> IgmpV3QueryPacket,
          ethernet |-> EthernetPacket, arp |-> ArpPacket]

(* The setters of a part of a byte, with their masks.                       *)
\* The mask is that of the flags: they stay, and what is left of the byte, a
\* part of the offset, goes.
set_flags(b, flags) == Put(b, 6, <<Or(And(At(b, 6), 224), Shl(flags, 5))>>)
igmp_v1_set_version(b, v) == Put(b, 0, <<Or(Shl(v, 4), And(15, At(b, 0)))>>)
\* The codes of the named types, 17 and 18, have a bit outside the field.
igmp_v1_set_type(b, t) == Put(b, 0, <<Or(And(At(b, 0), 240), t)>>)
set_qrv_NoMask(b, qrv) == Put(b, 8, <<Or(And(At(b, 8), 248), qrv)>>)
set_qrv(b, qrv) == Put(b, 8, <<Or(And(At(b, 8), 248), And(qrv, 7))>>)

-----------------------------------------------------------------------------
(* ipv4: the header is header_len words of four bytes.                      *)

header_len(b) == 4 * (At(b, 0) % 16)
IpV4_new(b) == Len(b) >= 20 /\ At(b, 0) \div 16 = 4 /\ Len(b) >= header_len(b)
payload(b) == From(b, header_len(b))
SetPayload(b, p) == Put(b, header_len(b), p)
protocol(b) == IpProtocol_from(At(b, 9))
source_ip(b) == Cut(b, 12, 16)
destination_ip(b) == Cut(b, 16, 20)
set_source_ip(b, ip) == Put(b, 12, ip)
set_destination_ip(b, ip) == Put(b, 16, ip)

\* is_fragment: the test of icmp_proxy on flags and offset.
Fragment(b) == At(b, 6) % 64 >= 32 \/ U16(b, 6) % 8192 # 0

(* tcp, and the length test of udp and icmp.                                *)
Tcp_new(b) == Len(b) >= 20 /\ Len(b) >= 4 * (At(b, 12) \div 16)
Udp_new(b) == Len(b) >= 8
Icmp_new(b) == Len(b) >= 8
source_port(b) == U16(b, 0)
destination_port(b) == U16(b, 2)
set_source_port(b, v) == Put(b, 0, Be16(v))
set_destination_port(b, v) == Put(b, 2, Be16(v))

(* The checksum of a view: where it is kept and what it covers.             *)
ChecksumAt == [ipv4 |-> 10, icmp |-> 2, udp |-> 6, tcp |-> 16, igmp_v1 |-> 2, igmp_v2 |-> 2, igmp_v3 |-> 2]
Covered(view, b, src, dst) ==
    CASE view = "ipv4" -> cal_checksum(Cut(b, 0, header_len(b)))
      [] view = "udp"  -> ipv4_cal_checksum(b, src, dst, Udp)
      [] view = "tcp"  -> ipv4_cal_checksum(b, src, dst, Tcp)
      [] OTHER         -> cal_checksum(b)
checksum(view, b) == U16(b, ChecksumAt[view])
update_checksum(view, b, src, dst) ==
    LET cleared == Put(b, ChecksumAt[view], <<0, 0>>)
    IN  Put(cleared, ChecksumAt[view], Be16(Covered(view, cleared, src, dst)))
is_valid(view, b, src, dst) ==
    checksum(view, b) = 0 \/ Covered(view, b, src, dst) = 0

-----------------------------------------------------------------------------
(* icmp: what the second word means depends on the kind.                    *)

kind(b) == Kind_from(At(b, 0))
header_other(b) ==
    CASE At(b, 0) \in {0, 8, 13, 14, 15, 16} -> <<"Identifier", U16(b, 4), U16(b, 6)>>
      [] At(b, 0) \in {3, 11, 4}             -> <<"Unused", Cut(b, 4, 8)>>
      [] At(b, 0) = 5                        -> <<"Address", Cut(b, 4, 8)>>
      [] At(b, 0) = 12                       -> <<"Pointer", At(b, 4)>>
      [] OTHER                               -> <<"UnKnown", Cut(b, 4, 8)>>
description(b) ==
    LET rest == From(b, 8)
    IN  IF At(b, 0) \in {3, 11, 12, 4, 5} /\ IpV4_new(rest) THEN <<"Ip", rest>>
        ELSE IF At(b, 0) \in {13, 14}
        THEN <<"Timestamp", Cut(rest, 0, 4), Cut(rest, 4, 8), Cut(rest, 8, 12)>>
        ELSE <<"Other", rest>>

-----------------------------------------------------------------------------
(* igmp v3: a query has its sources at the end, a report its group records, *)
(* each with its own sources and auxiliary data.                            *)

NONE == << >>

Addresses(b, at, num) ==
    IF num = 0 \/ at + 4 * num > Len(b) THEN NONE
    ELSE [i \in 1..num |-> Cut(b, at + 4 * (i - 1), at + 4 * i)]
query_source_addresses(b) == Addresses(b, 12, U16(b, 10))
record_source_addresses(r) == Addresses(r, 8, U16(r, 2))
\* source_address: the test of the index against the number is the wrong way
\* round, and what is behind the last source is read.
AddressAt(b, at, num, index) ==
    IF num >= index \/ at + 4 * index + 4 > Len(b) THEN NONE
    ELSE Cut(b, at + 4 * index, at + 4 * index + 4)
query_source_address(b, index) == AddressAt(b, 12, U16(b, 10), index)
record_source_address(r, index) == AddressAt(r, 8, U16(r, 2), index)
auxiliary_data(r) ==
    LET start == 8 + 4 * U16(r, 2)
        end == start + 4 * At(r, 1)
    IN  IF end > Len(r) THEN << >> ELSE Cut(r, start, end)

RecordEnd_NoAux(b, start) ==
    IF start = 0 \/ start + 8 > Len(b) THEN 0
    ELSE LET end == start + 8 + 4 * U16(b, start + 2)
         IN  IF end > Len(b) THEN 0 ELSE end
\* The end of the record that starts at start, 0 when there is none.
RecordEnd(b, start) ==
    IF start = 0 \/ start + 8 > Len(b) THEN 0
    ELSE LET end == start + 8 + 4 * At(b, start + 1) + 4 * U16(b, start + 2)
         IN  IF end > Len(b) THEN 0 ELSE end
group_records(b) ==
    LET num == U16(b, 6)
        starts[i \in 0..num] == IF i = 0 THEN 8 ELSE RecordEnd(b, starts[i - 1])
    IN  IF num = 0 \/ starts[num] = 0 THEN NONE
        ELSE [i \in 1..num |-> Cut(b, starts[i - 1], starts[i])]

-----------------------------------------------------------------------------
(* The tap device: ethernet frames are stripped to their ipv4 packet; an    *)
(* arp request is answered with one fixed hardware address.                 *)

MAC == <<15, 15, 15, 15, 14, 9>>
ether_protocol(f) == EtherProtocol_from(U16(f, 12))
ArpOf(f) == From(f, 14)

ArpAsked(f) ==
    LET a == ArpOf(f)
        sender_p == Cut(a, 14, 18)
        target_p == Cut(a, 24, 28)
    IN  /\ ether_protocol(f) = EtherProtocol_from(EtherArp)
        /\ target_p # Zeros(4) /\ sender_p # Zeros(4) /\ target_p # sender_p
        /\ U16(a, 6) = 1
ArpAnswer_NotSwapped(f) ==
    LET a == ArpOf(f)
        swapped == Put(Put(Put(a, 6, Be16(2)), 18, Cut(a, 8, 14)), 8, MAC)
    IN  Put(Put(Put(f, 14, swapped), 0, Cut(a, 8, 14)), 6, MAC)
ArpAnswer(f) ==
    LET a == ArpOf(f)
        sender_h == Cut(a, 8, 14)
        sender_p == Cut(a, 14, 18)
        target_p == Cut(a, 24, 28)
        answer == Put(Put(Put(Put(Put(a, 6, Be16(2)), 18, sender_h), 24, sender_p),
                              14, target_p), 8, MAC)
    IN  Put(Put(Put(f, 14, answer), 0, sender_h), 6, MAC)

\* read_tap on the frames that wait: the answers written on the way to the
\* first ipv4 frame, and the packet handed on (NONE: the frames ran out, or
\* an empty read ended the call; <<"err">>: a frame shorter than its header
\* did).  The caller's buffer is taken to hold the packet.
read_tap(frames) ==
    LET short(f) == Len(f) < 14
        ends == {i \in DOMAIN frames :
                    short(frames[i]) \/ ether_protocol(frames[i]) = EtherProtocol_from(EtherIpv4)}
        last == IF ends = {} THEN Len(frames) ELSE Min(ends)
        passed == SubSeq(frames, 1, IF ends = {} THEN last ELSE last - 1)
        asked == SelectSeq(passed, ArpAsked)
    IN  [answers |-> [i \in DOMAIN asked |-> ArpAnswer(asked[i])],
         packet |-> IF ends = {} \/ frames[last] = << >> THEN NONE
                    ELSE IF short(frames[last]) THEN <<"err">> ELSE From(frames[last], 14)]
write_tap(packet, mac) == mac \o MAC \o Be16(EtherIpv4) \o packet

-----------------------------------------------------------------------------
(* The echo answered on the spot: by the tun handler for a packet to its    *)
(* own address and by the client handler for a packet to this device.       *)
Echo(b) ==
    /\ protocol(b) = IpProtocol_from(Icmp)
    /\ Icmp_new(payload(b))
    /\ kind(payload(b)) = Kind_from(EchoRequest)
EchoAnswer_OldSum(b, from, to) ==
    LET answer == SetPayload(b, Put(payload(b), 0, <<EchoReply>>))
    IN  update_checksum("ipv4", set_destination_ip(set_source_ip(answer, from), to), from, to)
EchoAnswer(b, from, to) ==
    LET icmp == Put(payload(b), 0, <<EchoReply>>)
        answer == SetPayload(b, update_checksum("icmp", icmp, from, to))
    IN  update_checksum("ipv4", set_destination_ip(set_source_ip(answer, from), to), from, to)

-----------------------------------------------------------------------------
(* What is expected of the views.                                           *)

\* An updated checksum is accepted, and no single byte it covers can change
\* unnoticed, unless the sum came out as 0, which readers take for "none".
\* (Byte 0 of an ipv4 header says how far the sum reaches.)
ChecksumGuards(view, b, src, dst) ==
    LET u == update_checksum(view, b, src, dst)
        at == ChecksumAt[view]
        covered == IF view = "ipv4" THEN 1..(header_len(b) - 1) ELSE 0..(Len(b) - 1)
    IN  /\ is_valid(view, u, src, dst)
        /\ checksum(view, u) # 0 =>
             \A i \in covered \ {at, at + 1}, v \in {0, 1, 128, 255} :
                v # At(u, i) => ~ is_valid(view, Put(u, i, <<v>>), src, dst)

\* What the callers of set_flags and of the type of version 1 see to: no bit
\* of the byte is set that is not asked for; the code fits the field.
FlagsSuit(b, flags) == BitsOf(At(b, 6)) \subseteq BitsOf(Shl(flags, 5))
TypeSuits(t) == t < 16

\* The records of a report lie one behind the other, and each is its head,
\* its sources and its auxiliary data with nothing left over.  None of its
\* sources can be asked for by index.
RecordsTile(b) ==
    LET rs == group_records(b)
    IN  rs # NONE =>
          /\ Cut(b, 8, 8 + Len(FlattenSeq(rs))) = FlattenSeq(rs)
          /\ \A i \in DOMAIN rs :
               LET sources == record_source_addresses(rs[i])
               IN  /\ From(rs[i], 8) = (IF sources = NONE THEN << >> ELSE FlattenSeq(sources))
                                         \o auxiliary_data(rs[i])
                   /\ Len(auxiliary_data(rs[i])) = 4 * At(rs[i], 1)
                   /\ \A k \in 0..Len(sources) : record_source_address(rs[i], k) = NONE

\* A packet written to one tap is what the other end reads, whatever frames
\* wait before it, and each arp request among them is answered to its asker
\* for the address it asked for.
TapTalks(before, packet, mac) ==
    LET r == read_tap(Append(before, write_tap(packet, mac)))
        asked == SelectSeq(before, ArpAsked)
    IN  /\ r.packet = packet
        /\ Len(r.answers) = Len(asked)
        /\ \A i \in DOMAIN asked :
             LET q == ArpOf(asked[i])
                 a == ArpOf(r.answers[i])
             IN  /\ Cut(r.answers[i], 0, 6) = Cut(q, 8, 14)
                 /\ U16(a, 6) = 2
                 /\ Cut(a, 14, 18) = Cut(q, 24, 28)
                 /\ Cut(a, 18, 28) = Cut(q, 8, 18)

\* The answer to an echo goes back to the asker with the same identifier,
\* sequence and data, and both its checksums are right.
EchoReturned(b, me, source) ==
    LET a == EchoAnswer(b, me, source)
    IN  Echo(b) =>
          /\ source_ip(a) = me /\ destination_ip(a) = source
          /\ header_other(payload(a)) = header_other(payload(b))
          /\ description(payload(a)) = description(payload(b))
          /\ is_valid("ipv4", a, me, source)
          /\ is_valid("icmp", payload(a), me, source)

=============================================================================
