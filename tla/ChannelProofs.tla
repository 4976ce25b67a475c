--------------------------- MODULE ChannelProofs ---------------------------
(***************************************************************************)
(* Theorems about the channels of a client: about StreamChannel, the tcp   *)
(* and web socket connections, for any number of connections, addresses    *)
(* and failures and every capacity of the channels; and about UdpPoll, the *)
(* loops over the udp sockets, for any number of sockets in a set, any     *)
(* capacity of the channel and any number of threads that switch.          *)
(***************************************************************************)
EXTENDS StreamChannel, UdpPoll, SequenceTheorems, TLAPS

Connections ==
    [at : {"free", "dial", "first", "insert", "open"}, addr : Addrs, tries : 0 .. 2,
     writer : {"none", "running", "ended"},
     reader : {"none", "reading", "removing", "ended"},
     chan : Seq(Packets), wire : Seq(Packets), first : Packets \cup {"none"},
     reply : BOOLEAN, peer : {"none", "open", "closed", "reset", "silent"}]

(* On a connection to the server the handshake has been read, or it is the *)
(* head of the wire, or nothing has been written yet.                      *)
HandshakeAhead(k) ==
    k.addr = Server =>
        IF k.at \in {"insert", "open"}
        THEN \/ k.first = "handshake"
             \/ k.first = "none" /\ k.wire # << >> /\ k.wire[1] = "handshake"
        ELSE k.first = "none" /\ k.wire = << >>

(* A connection by itself: only an open one has a writer. *)
Good(k) ==
    /\ k \in Connections /\ Len(k.chan) <= CHANNEL /\ Len(k.wire) <= WINDOW
    /\ k.at # "open" => k.writer = "none"
    /\ HandshakeAhead(k)

Ports ==
    /\ proto \in {"TCP", "WS"} /\ {timely, online, stopped} \subseteq BOOLEAN
    /\ trouble \in 0 .. MAX_TROUBLE
    /\ asked \in Seq(Addrs) /\ Len(asked) <= DIALS
    /\ packet_map \in [Addrs -> Conns \cup {NoConn}]

Inv ==
    /\ Ports /\ conn \in [Conns -> Connections]
    /\ \A c \in Conns : Good(conn[c])
    /\ EntryHasReader

-----------------------------------------------------------------------------
(* A connection by itself.                                                 *)

LEMMA FreshGood == Good(Fresh) /\ Fresh.at = "free"
<1>1. << >> \in Seq(Packets) /\ Len(<< >>) = 0
  BY EmptySeq
<1>2. Fresh \in Connections
  BY <1>1, BoundsAssumption DEF Fresh, Connections
<1> QED
  BY <1>1, <1>2, BoundsAssumption DEF Good, HandshakeAhead, Fresh

(* The invariant in terms of the connections gives the one of the module.  *)
LEMMA InvGivesTypes == Inv => TypeOK /\ HandshakeFirst
<1> SUFFICES ASSUME Inv PROVE TypeOK /\ HandshakeFirst
  OBVIOUS
<1>1. TypeOK
  BY DEF Inv, Ports, TypeOK, Good, Connections
<1>2. HandshakeFirst
  BY DEF Inv, HandshakeFirst, Good, HandshakeAhead
<1> QED
  BY <1>1, <1>2

LEMMA InitInv == Init => Inv
<1> SUFFICES ASSUME Init PROVE Inv
  OBVIOUS
<1>1. Ports
  <2>1. asked \in Seq(Addrs) /\ Len(asked) <= DIALS
    BY EmptySeq, BoundsAssumption DEF Init
  <2>2. {timely, online, stopped} \subseteq BOOLEAN
    BY DEF Init
  <2>3. trouble \in 0 .. MAX_TROUBLE /\ packet_map \in [Addrs -> Conns \cup {NoConn}]
    BY BoundsAssumption DEF Init
  <2> QED
    BY <2>1, <2>2, <2>3 DEF Init, Ports
<1>2. conn \in [Conns -> Connections] /\ \A c \in Conns : Good(conn[c])
  BY FreshGood DEF Init, Good
<1>3. EntryHasReader
  BY DEF Init, EntryHasReader
<1> QED
  BY <1>1, <1>2, <1>3 DEF Inv

(* The steps of a connection keep it good. *)
LEMMA DialGood ==
    ASSUME NEW k, Good(k), k.at = "dial"
    PROVE  /\ Good([k EXCEPT !.at = "first", !.peer = "open"])
           /\ k.tries + 1 < 3 => Good([k EXCEPT !.tries = @ + 1])
<1>1. [k EXCEPT !.at = "first", !.peer = "open"] \in Connections
  BY DEF Good, Connections
<1>2. k.tries + 1 < 3 => [k EXCEPT !.tries = @ + 1] \in Connections
  BY DEF Good, Connections
<1>3. Good([k EXCEPT !.at = "first", !.peer = "open"])
  BY <1>1 DEF Good, Connections, HandshakeAhead
<1>4. k.tries + 1 < 3 => Good([k EXCEPT !.tries = @ + 1])
  BY <1>2 DEF Good, Connections, HandshakeAhead
<1> QED
  BY <1>3, <1>4

LEMMA FirstGood ==
    ASSUME NEW k, Good(k), k.at = "first"
    PROVE  Good([k EXCEPT !.at = "insert", !.wire = <<"handshake">>])
<1>1. <<"handshake">> \in Seq(Packets) /\ Len(<<"handshake">>) = 1
      /\ <<"handshake">> # << >> /\ <<"handshake">>[1] = "handshake"
  BY DEF Packets
<1> DEFINE w == <<"handshake">>
<1> HIDE DEF w
<1>2. [k EXCEPT !.at = "insert", !.wire = w] \in Connections
  BY <1>1 DEF Good, Connections, w
<1> QED
  BY <1>1, <1>2, BoundsAssumption DEF Good, Connections, HandshakeAhead, w

LEMMA OpenedGood ==
    ASSUME NEW k, Good(k), k.at = "insert"
    PROVE  Good(Opened(k)) /\ Opened(k).at = "open" /\ Opened(k).addr = k.addr
           /\ Opened(k).reader = "reading" /\ Opened(k).writer = "running"
<1>1. Opened(k) \in Connections
  BY DEF Good, Connections, Opened
<1> QED
  BY <1>1 DEF Good, Connections, HandshakeAhead, Opened

LEMMA AcceptedGood ==
    ASSUME NEW a \in Addrs, a # Server
    PROVE  LET k == Opened([Fresh EXCEPT !.addr = a, !.peer = "open"])
           IN  Good(k) /\ k.at = "open" /\ k.addr = a /\ k.reader = "reading"
               /\ k.writer = "running"
<1>1. ASSUME NEW f, Good(f)
      PROVE  LET k == Opened([f EXCEPT !.addr = a, !.peer = "open"])
             IN  Good(k) /\ k.at = "open" /\ k.addr = a /\ k.reader = "reading"
                 /\ k.writer = "running"
  <2> DEFINE k == Opened([f EXCEPT !.addr = a, !.peer = "open"])
  <2>1. k \in Connections
    BY <1>1 DEF Good, Connections, Opened
  <2> QED
    BY <1>1, <2>1 DEF Good, Connections, HandshakeAhead, Opened
<1> QED
  BY <1>1, FreshGood

LEMMA SpawnedGood ==
    ASSUME NEW a \in Addrs
    PROVE  Good([Fresh EXCEPT !.at = "dial", !.addr = a])
<1>1. ASSUME NEW f, Good(f), f.first = "none", f.wire = << >>, f.writer = "none"
      PROVE  Good([f EXCEPT !.at = "dial", !.addr = a])
  <2>1. [f EXCEPT !.at = "dial", !.addr = a] \in Connections
    BY <1>1 DEF Good, Connections
  <2> QED
    BY <1>1, <2>1 DEF Good, Connections, HandshakeAhead
<1>2. Fresh.first = "none" /\ Fresh.wire = << >> /\ Fresh.writer = "none"
  BY DEF Fresh
<1> QED
  BY <1>1, <1>2, FreshGood

LEMMA AppendFacts ==
    ASSUME NEW s \in Seq(Packets), NEW e \in Packets
    PROVE  /\ Append(s, e) \in Seq(Packets) /\ Len(Append(s, e)) = Len(s) + 1
           /\ Append(s, e) # << >> /\ (s # << >> => Append(s, e)[1] = s[1])
<1>1. Append(s, e) \in Seq(Packets) /\ Len(Append(s, e)) = Len(s) + 1 /\ Len(s) \in Nat
  OBVIOUS
<1>2. Append(s, e) # << >>
  BY <1>1, Len(<< >>) = 0
<1>3. s # << >> => Append(s, e)[1] = s[1]
  OBVIOUS
<1> QED
  BY <1>1, <1>2, <1>3

(* What is written goes behind the handshake. *)
LEMMA WrittenGood ==
    ASSUME NEW k, Good(k), k.writer = "running", k.chan # << >>, Len(k.wire) < WINDOW
    PROVE  Good([k EXCEPT !.chan = Tail(@), !.wire = Append(@, Head(k.chan))])
<1> DEFINE w == Append(k.wire, Head(k.chan))
           rest == Tail(k.chan)
           l == [k EXCEPT !.chan = rest, !.wire = w]
<1>0. k \in Connections /\ k.chan \in Seq(Packets) /\ k.wire \in Seq(Packets) /\ k.at = "open"
  BY DEF Good, Connections
<1>1. rest \in Seq(Packets) /\ Len(rest) = Len(k.chan) - 1 /\ Head(k.chan) \in Packets
  BY <1>0
<1>2. w \in Seq(Packets) /\ Len(w) = Len(k.wire) + 1 /\ w # << >>
      /\ (k.wire # << >> => w[1] = k.wire[1])
  BY <1>0, <1>1, AppendFacts
<1> HIDE DEF w, rest
<1>3. l \in Connections
  BY <1>0, <1>1, <1>2 DEF Connections
<1>4. Len(l.chan) <= CHANNEL /\ Len(l.wire) <= WINDOW
  <2>1. Len(k.chan) \in Nat /\ Len(k.wire) \in Nat /\ Len(k.chan) <= CHANNEL
    BY <1>0 DEF Good
  <2> QED
    BY <1>0, <1>1, <1>2, <2>1, BoundsAssumption DEF Connections
<1>5. HandshakeAhead(l)
  BY <1>0, <1>2 DEF Good, HandshakeAhead, Connections
<1> QED
  BY <1>0, <1>3, <1>4, <1>5 DEF Good, Connections, w, rest

(* What the other end reads first is the handshake. *)
LEMMA PeerReadGood ==
    ASSUME NEW k, Good(k), k.wire # << >>
    PROVE  Good([k EXCEPT !.wire = Tail(@),
                          !.first = IF @ = "none" THEN Head(k.wire) ELSE @,
                          !.reply = Head(k.wire) = "handshake" \/ @])
<1> DEFINE w == Tail(k.wire)
           f == IF k.first = "none" THEN Head(k.wire) ELSE k.first
           b == Head(k.wire) = "handshake" \/ k.reply
           l == [k EXCEPT !.wire = w, !.first = f, !.reply = b]
<1>0. k \in Connections /\ k.wire \in Seq(Packets)
  BY DEF Good, Connections
<1>1. w \in Seq(Packets) /\ Len(w) = Len(k.wire) - 1 /\ Head(k.wire) \in Packets
      /\ Head(k.wire) = k.wire[1] /\ Len(k.wire) \in Nat
  BY <1>0
<1>2. f \in Packets \cup {"none"}
  BY <1>0, <1>1 DEF Connections
<1>3. b \in BOOLEAN
  OBVIOUS
<1>4. k.addr = Server => k.at \in {"insert", "open"} /\ f = "handshake"
  BY <1>0, <1>1 DEF Good, HandshakeAhead
<1> HIDE DEF w, f, b
<1>5. l \in Connections
  BY <1>0, <1>1, <1>2, <1>3 DEF Connections
<1>6. HandshakeAhead(l)
  BY <1>0, <1>4 DEF HandshakeAhead, Connections
<1>7. Len(l.chan) <= CHANNEL /\ Len(l.wire) <= WINDOW
  BY <1>0, <1>1, BoundsAssumption DEF Good, Connections
<1> QED
  BY <1>0, <1>5, <1>6, <1>7 DEF Good, Connections, w, f, b

(* The tasks of a connection end and the other end goes away. *)
LEMMA EndsGood ==
    ASSUME NEW k, Good(k)
    PROVE  /\ k.at = "open" => Good(WriterOver(k))
           /\ Good([k EXCEPT !.reply = FALSE])
           /\ \A r \in {"removing", "ended"} : Good([k EXCEPT !.reader = r, !.reply = FALSE])
           /\ \A p \in {"closed", "reset", "silent"} : Good([k EXCEPT !.peer = p])
<1>0. k \in Connections /\ << >> \in Seq(Packets) /\ Len(<< >>) = 0
  BY EmptySeq DEF Good
<1>1. WriterOver(k) \in Connections
  BY <1>0 DEF WriterOver, Connections
<1>2. k.at = "open" => Good(WriterOver(k))
  BY <1>0, <1>1, BoundsAssumption DEF Good, HandshakeAhead, WriterOver, Connections
<1>3. Good([k EXCEPT !.reply = FALSE])
  BY <1>0 DEF Good, HandshakeAhead, Connections
<1>4. ASSUME NEW r \in {"removing", "ended"}
      PROVE  Good([k EXCEPT !.reader = r, !.reply = FALSE])
  BY <1>0 DEF Good, HandshakeAhead, Connections
<1>5. ASSUME NEW p \in {"closed", "reset", "silent"}
      PROVE  Good([k EXCEPT !.peer = p])
  BY <1>0 DEF Good, HandshakeAhead, Connections
<1> QED
  BY <1>2, <1>3, <1>4, <1>5

-----------------------------------------------------------------------------
(* A step of one connection.                                               *)

LEMMA SetKeeps ==
    ASSUME Inv, NEW c \in Conns, NEW k, Good(k), Set(c, k)
    PROVE  /\ conn' \in [Conns -> Connections] /\ \A e \in Conns : Good(conn'[e])
           /\ \A e \in Conns : e # c => conn'[e] = conn[e]
           /\ conn'[c] = k \/ k.reader = "ended"
<1> DEFINE v == IF k.writer = "ended" /\ k.reader = "ended" THEN Fresh ELSE k
<1>1. Good(v) /\ (v = k \/ k.reader = "ended")
  BY FreshGood
<1>2. conn' = [conn EXCEPT ![c] = v] /\ conn \in [Conns -> Connections]
  BY DEF Set, Inv
<1> HIDE DEF v
<1>3. v \in Connections
  BY <1>1 DEF Good
<1>4. conn' \in [Conns -> Connections] /\ conn'[c] = v
      /\ \A e \in Conns : e # c => conn'[e] = conn[e]
  BY <1>2, <1>3
<1>5. \A e \in Conns : Good(conn'[e])
  BY <1>1, <1>4 DEF Inv
<1> QED
  BY <1>1, <1>4, <1>5

(* The map is left alone, and a connection that may be in it stays one. *)
LEMMA MapKept ==
    ASSUME Inv, NEW c \in Conns, NEW k, Good(k), Set(c, k), Ports',
           UNCHANGED <<packet_map, stopped>>,
           conn[c].at = "open" /\ conn[c].reader \in {"reading", "removing"} =>
              k.at = "open" /\ k.addr = conn[c].addr /\ k.reader \in {"reading", "removing"}
    PROVE  Inv'
<1>1. /\ conn' \in [Conns -> Connections] /\ \A e \in Conns : Good(conn'[e])
      /\ \A e \in Conns : e # c => conn'[e] = conn[e]
      /\ conn'[c] = k \/ k.reader = "ended"
  BY SetKeeps
<1>2. EntryHasReader'
  <2> SUFFICES ASSUME NEW a \in Addrs, packet_map[a] # NoConn, ~ stopped
               PROVE  LET l == conn'[packet_map[a]] IN
                      l.at = "open" /\ l.addr = a /\ l.reader \in {"reading", "removing"}
    BY DEF EntryHasReader
  <2>1. packet_map[a] \in Conns
    BY DEF Inv, Ports
  <2>2. LET l == conn[packet_map[a]] IN
        l.at = "open" /\ l.addr = a /\ l.reader \in {"reading", "removing"}
    BY DEF Inv, EntryHasReader
  <2>3. CASE packet_map[a] # c
    BY <1>1, <2>1, <2>2, <2>3
  <2>4. CASE packet_map[a] = c
    BY <1>1, <2>2, <2>4
  <2> QED
    BY <2>3, <2>4
<1> QED
  BY <1>1, <1>2 DEF Inv

(* A connection that was not open is put into the map. *)
LEMMA MapSet ==
    ASSUME Inv, NEW c \in Conns, NEW k, Good(k), Set(c, k), Ports', UNCHANGED stopped,
           conn[c].at # "open", k.at = "open", k.reader = "reading",
           packet_map' = [packet_map EXCEPT ![k.addr] = c]
    PROVE  Inv'
<1>1. /\ conn' \in [Conns -> Connections] /\ \A e \in Conns : Good(conn'[e])
      /\ \A e \in Conns : e # c => conn'[e] = conn[e]
      /\ conn'[c] = k
  BY SetKeeps
<1>2. EntryHasReader'
  <2> SUFFICES ASSUME NEW a \in Addrs, packet_map'[a] # NoConn, ~ stopped
               PROVE  LET l == conn'[packet_map'[a]] IN
                      l.at = "open" /\ l.addr = a /\ l.reader \in {"reading", "removing"}
    BY DEF EntryHasReader
  <2>1. CASE a = k.addr
    BY <1>1, <2>1 DEF Inv, Ports
  <2>2. CASE a # k.addr
    <3>1. packet_map'[a] = packet_map[a] /\ packet_map[a] \in Conns
      BY <2>2 DEF Inv, Ports
    <3>2. LET l == conn[packet_map[a]] IN
          l.at = "open" /\ l.addr = a /\ l.reader \in {"reading", "removing"}
      BY <3>1 DEF Inv, EntryHasReader
    <3> QED
      BY <1>1, <3>1, <3>2
  <2> QED
    BY <2>1, <2>2
<1> QED
  BY <1>1, <1>2 DEF Inv

LEMMA TryConnectTypes ==
    ASSUME Inv, NEW a \in Addrs, TryConnect(a) \/ UNCHANGED asked
    PROVE  asked' \in Seq(Addrs) /\ Len(asked') <= DIALS
<1>1. asked \in Seq(Addrs) /\ Len(asked) <= DIALS /\ DIALS \in Nat /\ Len(asked) \in Nat
  BY BoundsAssumption DEF Inv, Ports
<1> QED
  BY <1>1 DEF TryConnect

(* A send adds to the channel of a connection with a writer, if there is   *)
(* room.                                                                   *)
LEMMA SendStep ==
    ASSUME Inv, Ports', NEW a \in Addrs, NEW p \in Packets, send_tcp(a, p),
           UNCHANGED <<packet_map, stopped>>
    PROVE  Inv'
<1>1. CASE SendResult(a) # "Ok"
  <2>1. conn' = conn
    BY <1>1 DEF send_tcp
  <2> QED
    BY <2>1 DEF Inv, EntryHasReader
<1>2. CASE SendResult(a) = "Ok"
  <2> DEFINE c == packet_map[a]
             s == conn[c].chan
             l == [conn[c] EXCEPT !.chan = Append(s, p)]
  <2>1. c # NoConn /\ conn[c].writer = "running" /\ Len(s) # CHANNEL
    BY <1>2 DEF SendResult
  <2>2. c \in Conns
    BY <2>1 DEF Inv, Ports
  <2>3. Good(conn[c]) /\ s \in Seq(Packets) /\ conn \in [Conns -> Connections]
    BY <2>2 DEF Inv, Good, Connections
  <2>4. conn' = [conn EXCEPT ![c] = l]
    BY <1>2, <2>2, <2>3 DEF send_tcp
  <2>5. Append(s, p) \in Seq(Packets) /\ Len(Append(s, p)) <= CHANNEL
    BY <2>1, <2>3, AppendFacts, BoundsAssumption DEF Good
  <2> DEFINE t == Append(s, p)
  <2> HIDE DEF t
  <2>6. l = [conn[c] EXCEPT !.chan = t]
    BY DEF t
  <2>7. Good(l) /\ l.at = conn[c].at /\ l.addr = conn[c].addr /\ l.reader = conn[c].reader
    <3>1. l \in Connections
      BY <2>3, <2>5, <2>6 DEF Good, Connections, t
    <3> QED
      BY <2>3, <2>5, <2>6, <3>1 DEF Good, Connections, HandshakeAhead, t
  <2> HIDE DEF l
  <2>8. conn' \in [Conns -> Connections] /\ conn'[c] = l
        /\ \A e \in Conns : e # c => conn'[e] = conn[e]
    BY <2>2, <2>3, <2>4, <2>7 DEF Good
  <2>9. \A e \in Conns : Good(conn'[e])
    BY <2>7, <2>8 DEF Inv
  <2>10. \A e \in Conns : /\ conn'[e].at = conn[e].at /\ conn'[e].addr = conn[e].addr
                          /\ conn'[e].reader = conn[e].reader
    BY <2>7, <2>8
  <2>11. EntryHasReader'
    <3> SUFFICES ASSUME NEW b \in Addrs, packet_map[b] # NoConn, ~ stopped
                 PROVE  LET k == conn'[packet_map[b]] IN
                        k.at = "open" /\ k.addr = b /\ k.reader \in {"reading", "removing"}
      BY DEF EntryHasReader
    <3>1. packet_map[b] \in Conns
      BY DEF Inv, Ports
    <3> QED
      BY <2>10, <3>1 DEF Inv, EntryHasReader
  <2> QED
    BY <2>8, <2>9, <2>11 DEF Inv
<1> QED
  BY <1>1, <1>2

-----------------------------------------------------------------------------
(* The steps of the specification.                                         *)

LEMMA GatewayStep ==
    ASSUME Inv, \/ check_gateway_channel \/ GatewayIdle \/ Stop
                \/ \E a \in Addrs : SendData(a) \/ PunchTcp(a)
    PROVE  Inv'
<1>1. CASE check_gateway_channel
  <2>1. Ports'
    BY <1>1, TryConnectTypes, BoundsAssumption DEF check_gateway_channel, Inv, Ports
  <2> QED
    BY <1>1, <2>1, SendStep, BoundsAssumption DEF check_gateway_channel, Packets
<1>2. CASE GatewayIdle
  BY <1>2 DEF GatewayIdle, Inv, Ports, EntryHasReader
<1>3. CASE Stop
  <2>1. Ports'
    BY <1>3, EmptySeq, BoundsAssumption DEF Stop, Inv, Ports
  <2>2. conn' \in [Conns -> Connections] /\ \A e \in Conns : Good(conn'[e])
    BY <1>3, FreshGood DEF Stop, Good
  <2> QED
    BY <1>3, <2>1, <2>2 DEF Stop, Inv, EntryHasReader
<1>4. ASSUME NEW a \in Addrs, SendData(a)
      PROVE  Inv'
  <2>1. Ports'
    BY <1>4 DEF SendData, Inv, Ports
  <2> QED
    BY <1>4, <2>1, SendStep DEF SendData, Packets
<1>5. ASSUME NEW a \in Addrs, PunchTcp(a)
      PROVE  Inv'
  <2>1. asked' \in Seq(Addrs) /\ Len(asked') <= DIALS
    BY <1>5, TryConnectTypes DEF PunchTcp
  <2>2. Ports'
    BY <1>5, <2>1, BoundsAssumption DEF PunchTcp, Inv, Ports
  <2> QED
    BY <1>5, <2>2 DEF PunchTcp, Inv, EntryHasReader
<1> QED
  BY <1>1, <1>2, <1>3, <1>4, <1>5

LEMMA ConnectStep ==
    ASSUME Inv, NEW c \in Conns, Connect(c) \/ DialFails(c) \/ \E a \in Addrs : tcp_accept(c, a)
    PROVE  Inv'
<1>0. Good(conn[c]) /\ conn[c] \in Connections
  BY DEF Inv, Good
<1>1. CASE Spawn(c)
  <2>1. Head(asked) \in Addrs /\ Tail(asked) \in Seq(Addrs) /\ Len(Tail(asked)) <= DIALS
    BY <1>1, BoundsAssumption DEF Spawn, Inv, Ports
  <2>2. Ports'
    BY <1>1, <2>1 DEF Spawn, Inv, Ports
  <2>3. Good([Fresh EXCEPT !.at = "dial", !.addr = Head(asked)])
    BY <2>1, SpawnedGood
  <2> QED
    BY <1>1, <2>2, <2>3, MapKept DEF Spawn
<1>2. CASE Dial(c)
  <2>1. Ports'
    BY <1>2 DEF Dial, Inv, Ports
  <2>2. Good([conn[c] EXCEPT !.at = "first", !.peer = "open"])
    BY <1>0, <1>2, DialGood DEF Dial
  <2> QED
    BY <1>2, <2>1, <2>2, MapKept DEF Dial
<1>3. CASE DialFails(c)
  <2>1. Ports'
    BY <1>3, BoundsAssumption DEF DialFails, Trouble, Inv, Ports
  <2>2. PICK k : Good(k) /\ Set(c, k)
    BY <1>0, <1>3, DialGood, FreshGood DEF DialFails
  <2>3. conn[c].at = "dial" /\ UNCHANGED <<packet_map, stopped>>
    BY <1>3 DEF DialFails
  <2> QED
    BY <2>1, <2>2, <2>3, MapKept
<1>4. CASE WriteFirst(c)
  <2>1. Ports'
    BY <1>4 DEF WriteFirst, Inv, Ports
  <2>2. PICK k : Good(k) /\ Set(c, k)
    BY <1>0, <1>4, FirstGood, FreshGood DEF WriteFirst
  <2>3. conn[c].at = "first" /\ UNCHANGED <<packet_map, stopped>>
    BY <1>4 DEF WriteFirst
  <2> QED
    BY <2>1, <2>2, <2>3, MapKept
<1>5. CASE tcp_stream_handle(c)
  <2>1. /\ conn[c].at = "insert" /\ Set(c, Opened(conn[c])) /\ UNCHANGED stopped
        /\ packet_map' = [packet_map EXCEPT ![conn[c].addr] = c]
        /\ UNCHANGED <<proto, timely, online, asked, stopped, trouble>>
    BY <1>5 DEF tcp_stream_handle
  <2>2. Ports'
    BY <2>1 DEF Inv, Ports
  <2>3. /\ Good(Opened(conn[c])) /\ Opened(conn[c]).at = "open"
        /\ Opened(conn[c]).addr = conn[c].addr /\ Opened(conn[c]).reader = "reading"
    BY <1>0, <2>1, OpenedGood
  <2> QED
    BY <2>1, <2>2, <2>3, MapSet
<1>6. ASSUME NEW a \in Addrs, tcp_accept(c, a)
      PROVE  Inv'
  <2> DEFINE k == Opened([Fresh EXCEPT !.addr = a, !.peer = "open"])
  <2>1. /\ conn[c].at = "free" /\ Set(c, k) /\ a # Server /\ Trouble
        /\ packet_map' = [packet_map EXCEPT ![a] = c]
        /\ UNCHANGED <<proto, timely, online, asked, stopped>>
    BY <1>6 DEF tcp_accept
  <2>2. Ports'
    BY <2>1, BoundsAssumption DEF Inv, Ports, Trouble
  <2>3. Good(k) /\ k.at = "open" /\ k.addr = a /\ k.reader = "reading"
    BY <2>1, AcceptedGood
  <2> HIDE DEF k
  <2> QED
    BY <2>1, <2>2, <2>3, MapSet
<1> QED
  BY <1>1, <1>2, <1>3, <1>4, <1>5, <1>6 DEF Connect

LEMMA TaskStep ==
    ASSUME Inv, NEW c \in Conns, WriterStep(c) \/ Reader(c)
    PROVE  Inv'
<1>0. Good(conn[c]) /\ conn[c] \in Connections
  BY DEF Inv, Good
<1>1. CASE WriterStep(c)
  <2>1. Ports' /\ UNCHANGED <<packet_map, stopped>>
    BY <1>1 DEF WriterStep, Inv, Ports
  <2>2. conn[c].at = "open"
    BY <1>0, <1>1 DEF WriterStep, Good
  <2>3. PICK k : /\ Good(k) /\ Set(c, k) /\ k.at = conn[c].at /\ k.addr = conn[c].addr
                 /\ k.reader = conn[c].reader
    <3> DEFINE k1 == [conn[c] EXCEPT !.chan = Tail(@), !.wire = Append(@, Head(conn[c].chan))]
               k2 == WriterOver(conn[c])
    <3>1. /\ k1.at = conn[c].at /\ k1.addr = conn[c].addr /\ k1.reader = conn[c].reader
          /\ k2.at = conn[c].at /\ k2.addr = conn[c].addr /\ k2.reader = conn[c].reader
      BY <1>0 DEF Connections, WriterOver
    <3>2. Good(k2)
      BY <1>0, <2>2, EndsGood
    <3>3. CASE conn[c].chan # << >> /\ Len(conn[c].wire) < WINDOW /\ Set(c, k1)
      <4>1. Good(k1)
        BY <1>0, <1>1, <3>3, WrittenGood DEF WriterStep
      <4> HIDE DEF k1
      <4> QED
        BY <3>1, <3>3, <4>1
    <3>4. CASE Set(c, k2)
      <4> HIDE DEF k2
      <4> QED
        BY <3>1, <3>2, <3>4
    <3> QED
      BY <1>1, <3>3, <3>4 DEF WriterStep
  <2> QED
    BY <2>1, <2>2, <2>3, MapKept
<1>2. CASE Read(c)
  <2>1. Ports' /\ UNCHANGED <<packet_map, stopped>>
    BY <1>2 DEF Read, Inv, Ports
  <2>2. Good([conn[c] EXCEPT !.reply = FALSE])
    BY <1>0, EndsGood
  <2> QED
    BY <1>0, <1>2, <2>1, <2>2, MapKept DEF Read, Connections
<1>3. CASE ReadEnds(c)
  <2>1. Ports' /\ UNCHANGED <<packet_map, stopped>>
    BY <1>3, BoundsAssumption DEF ReadEnds, Trouble, Inv, Ports
  <2>2. Good([conn[c] EXCEPT !.reader = "removing", !.reply = FALSE])
    BY <1>0, EndsGood
  <2> QED
    BY <1>0, <1>3, <2>1, <2>2, MapKept DEF ReadEnds, Connections
<1>4. CASE Remove(c)
  <2> DEFINE k == [conn[c] EXCEPT !.reader = "ended", !.reply = FALSE]
  <2>1. /\ Set(c, k) /\ packet_map' = [packet_map EXCEPT ![conn[c].addr] = NoConn]
        /\ UNCHANGED <<proto, timely, online, asked, stopped, trouble>>
    BY <1>4 DEF Remove
  <2>2. Ports'
    BY <2>1 DEF Inv, Ports
  <2>3. Good(k)
    BY <1>0, EndsGood
  <2> HIDE DEF k
  <2>4. /\ conn' \in [Conns -> Connections] /\ \A e \in Conns : Good(conn'[e])
        /\ \A e \in Conns : e # c => conn'[e] = conn[e]
    BY <2>1, <2>3, SetKeeps
  <2>5. EntryHasReader'
    <3> SUFFICES ASSUME NEW a \in Addrs, packet_map'[a] # NoConn, ~ stopped
                 PROVE  LET l == conn'[packet_map'[a]] IN
                        l.at = "open" /\ l.addr = a /\ l.reader \in {"reading", "removing"}
      BY <2>1 DEF EntryHasReader
    <3>1. a # conn[c].addr /\ packet_map'[a] = packet_map[a] /\ packet_map[a] \in Conns
      BY <2>1 DEF Inv, Ports
    <3>2. LET l == conn[packet_map[a]] IN
          l.at = "open" /\ l.addr = a /\ l.reader \in {"reading", "removing"}
      BY <3>1 DEF Inv, EntryHasReader
    <3> QED
      BY <2>4, <3>1, <3>2
  <2> QED
    BY <2>2, <2>4, <2>5 DEF Inv
<1> QED
  BY <1>1, <1>2, <1>3, <1>4 DEF Reader

LEMMA PeerStep ==
    ASSUME Inv, NEW c \in Conns, PeerRead(c) \/ PeerCloses(c)
    PROVE  Inv'
<1>0. Good(conn[c]) /\ conn[c] \in Connections
  BY DEF Inv, Good
<1>1. CASE PeerRead(c)
  <2> DEFINE k == [conn[c] EXCEPT !.wire = Tail(@),
                      !.first = IF @ = "none" THEN Head(conn[c].wire) ELSE @,
                      !.reply = Head(conn[c].wire) = "handshake" \/ @]
  <2>1. Ports' /\ UNCHANGED <<packet_map, stopped>> /\ Set(c, k)
    BY <1>1 DEF PeerRead, Inv, Ports
  <2>2. Good(k)
    BY <1>0, <1>1, PeerReadGood DEF PeerRead
  <2>3. k.at = conn[c].at /\ k.addr = conn[c].addr /\ k.reader = conn[c].reader
    BY <1>0 DEF Connections
  <2> HIDE DEF k
  <2> QED
    BY <2>1, <2>2, <2>3, MapKept
<1>2. CASE PeerCloses(c)
  <2>1. Ports' /\ UNCHANGED <<packet_map, stopped>>
    BY <1>2, BoundsAssumption DEF PeerCloses, Trouble, Inv, Ports
  <2>2. PICK p \in {"closed", "reset", "silent"} : Set(c, [conn[c] EXCEPT !.peer = p])
    BY <1>2 DEF PeerCloses
  <2> DEFINE k == [conn[c] EXCEPT !.peer = p]
  <2>3. Good(k)
    BY <1>0, EndsGood
  <2>4. k.at = conn[c].at /\ k.addr = conn[c].addr /\ k.reader = conn[c].reader
    BY <1>0 DEF Connections
  <2>5. Set(c, k)
    BY <2>2
  <2> HIDE DEF k
  <2> QED
    BY <2>1, <2>3, <2>4, <2>5, MapKept
<1> QED
  BY <1>1, <1>2

LEMMA NextInv == Inv /\ [Next]_vars => Inv'
<1> SUFFICES ASSUME Inv, [Next]_vars PROVE Inv'
  OBVIOUS
<1>1. CASE UNCHANGED vars
  BY <1>1 DEF vars, Inv, Ports, EntryHasReader
<1> QED
  BY <1>1, GatewayStep, ConnectStep, TaskStep, PeerStep DEF Next

(* The inductive invariant holds in every state of the channels. *)
THEOREM Invariance == Spec => []Inv
BY InitInv, NextInv, PTL DEF Spec

(* MapIsSound for any number of connections, addresses and failures: a     *)
(* sender in packet_map belongs to a connection that is still read,        *)
(* although readers remove by address whatever is there, and nothing is    *)
(* read by the server before the handshake.                                *)
THEOREM MapSound == Spec => []MapIsSound
<1>1. Inv => MapIsSound
  BY InvGivesTypes DEF Inv, MapIsSound
<1> QED
  BY <1>1, Invariance, PTL

-----------------------------------------------------------------------------
(* The udp loops.                                                          *)

(* The set of sockets that the loop has when it has applied its channel. *)
Last == IF chan = << >> THEN list ELSE chan[Len(chan)]

(* A socket is only read while the loop has a set. *)
ReadsASet == pc = "read" => list # 0

(* Where a switcher is between its lock and its commit says whether the    *)
(* loop has been told yet.                                                 *)
SwitchAgrees ==
    pc # "returned" =>
        /\ lock = NoThread => sub = Last
        /\ \A t \in Switchers :
              /\ switching[t] = "send" => sub = Last
              /\ switching[t] \in {"notify", "wake", "commit"} => wanted[t] = Last

UdpInv == PollTypeOK /\ ReadsASet /\ SwitchAgrees

-----------------------------------------------------------------------------
LEMMA UdpInitInv == PollInit => UdpInv
<1> SUFFICES ASSUME PollInit PROVE UdpInv
  OBVIOUS
<1>1. 0 \in Sets /\ 1 \in Sets /\ 0 \in Indexes
  BY PollAssumption DEF Sets, Indexes
<1>2. PollTypeOK
  <2>1. chan \in Seq(Sets) /\ Len(chan) <= CAPACITY
    BY PollAssumption, EmptySeq DEF PollInit
  <2>2. {list, sub, made} \subseteq Sets /\ reading \in Indexes /\ arrived \in 0 .. MAX_DATAGRAMS
    BY <1>1, PollAssumption DEF PollInit
  <2>3. \A t \in Switchers : lock = t <=> switching[t] # "idle"
    BY ThreadAssumption DEF PollInit
  <2> QED
    BY <1>1, <2>1, <2>2, <2>3 DEF PollInit, PollTypeOK
<1>3. ReadsASet /\ SwitchAgrees
  BY DEF PollInit, ReadsASet, SwitchAgrees, Last
<1> QED
  BY <1>2, <1>3 DEF UdpInv

(* Applying the head of the channel leaves the last set the last one. *)
LEMMA ApplyKeepsLast ==
    ASSUME chan \in Seq(Sets), chan # << >>
    PROVE  /\ Head(chan) \in Sets /\ Tail(chan) \in Seq(Sets)
           /\ Len(Tail(chan)) = Len(chan) - 1 /\ Len(chan) > 0
           /\ Last = IF Tail(chan) = << >> THEN Head(chan) ELSE Tail(chan)[Len(Tail(chan))]
<1> DEFINE rest == Tail(chan)
<1>1. /\ Head(chan) \in Sets /\ rest \in Seq(Sets) /\ Len(chan) \in Nat \ {0}
      /\ Len(rest) = Len(chan) - 1 /\ Head(chan) = chan[1]
      /\ \A i \in 1 .. Len(rest) : rest[i] = chan[i + 1]
  OBVIOUS
<1>2. rest = << >> <=> Len(rest) = 0
  <2> HIDE DEF rest
  <2> QED
    BY <1>1, EmptySeq
<1> HIDE DEF rest
<1>3. CASE Len(chan) = 1
  BY <1>1, <1>2, <1>3 DEF Last, rest
<1>4. CASE Len(chan) # 1
  <2>1. rest # << >> /\ Len(rest) \in 1 .. Len(rest) /\ Len(rest) + 1 = Len(chan)
    BY <1>1, <1>2, <1>4
  <2>2. rest[Len(rest)] = chan[Len(chan)]
    BY <1>1, <2>1
  <2> QED
    BY <1>1, <2>1, <2>2 DEF Last, rest
<1> QED
  BY <1>3, <1>4

(* The token of a registered socket is one of the poll's. *)
LEMMA TokensOfSockets == \A s \in Sockets : TokenOf(s) \in Tokens
<1> SUFFICES ASSUME NEW s \in Sockets PROVE TokenOf(s) \in Tokens
  OBVIOUS
<1>1. s[2] \in 0 .. SOCKETS - 1
  BY DEF Sockets, Indexes
<1>2. FIRST_TOKEN \in {0, 1}
  BY DEF FIRST_TOKEN
<1> QED
  BY <1>1, <1>2, PollAssumption DEF TokenOf, Tokens

-----------------------------------------------------------------------------
(* The steps of the loop.                                                  *)

(* A step of the loop that leaves its list and the channel alone. *)
LEMMA LoopElsewhere ==
    ASSUME UdpInv, pc # "returned", UNCHANGED <<switchVars, list, chan>>, PollTypeOK', ReadsASet'
    PROVE  UdpInv'
BY DEF UdpInv, SwitchAgrees, Last, switchVars

LEMMA LoopStep ==
    ASSUME UdpInv, Loop \/ PollFails
    PROVE  UdpInv'
<1> USE DEF switchVars, netVars, notifyVars, pollVars
<1>1. CASE PollReturns
  <2>1. batch' \subseteq Tokens
    BY <1>1, TokensOfSockets, PollAssumption DEF PollReturns, UdpInv, PollTypeOK, Tokens, NOTIFY
  <2>2. PollTypeOK'
    BY <1>1, <2>1 DEF PollReturns, UdpInv, PollTypeOK
  <2> QED
    BY <1>1, <2>2, LoopElsewhere DEF PollReturns, ReadsASet
<1>2. CASE BatchDone \/ PollFails \/ ApplyDone \/ ReadDone
  <2>1. PollTypeOK' /\ ReadsASet'
    BY <1>2 DEF BatchDone, PollFails, ApplyDone, ReadDone, UdpInv, PollTypeOK, ReadsASet
  <2> QED
    BY <1>2, <2>1, LoopElsewhere DEF BatchDone, PollFails, ApplyDone, ReadDone
<1>3. CASE NotifyEvent
  <2>1. PollTypeOK' /\ ReadsASet'
    BY <1>3 DEF NotifyEvent, AfterNotify, UdpInv, PollTypeOK, ReadsASet
  <2> QED
    BY <1>3, <2>1, LoopElsewhere DEF NotifyEvent
<1>4. CASE TestAddSocket
  <2>1. PollTypeOK' /\ ReadsASet'
    BY <1>4 DEF TestAddSocket, UdpInv, PollTypeOK, ReadsASet
  <2> QED
    BY <1>4, <2>1, LoopElsewhere DEF TestAddSocket
<1>5. CASE ApplySwitch
  <2>1. /\ Head(chan) \in Sets /\ Tail(chan) \in Seq(Sets)
        /\ Len(Tail(chan)) = Len(chan) - 1 /\ Len(chan) > 0
        /\ Last = IF Tail(chan) = << >> THEN Head(chan) ELSE Tail(chan)[Len(Tail(chan))]
    BY <1>5, ApplyKeepsLast DEF ApplySwitch, UdpInv, PollTypeOK
  <2>2. Len(Tail(chan)) <= CAPACITY
    BY <2>1, PollAssumption DEF UdpInv, PollTypeOK
  <2>3. PollTypeOK'
    BY <1>5, <2>1, <2>2 DEF ApplySwitch, UdpInv, PollTypeOK
  <2>4. Last' = Last
    BY <1>5, <2>1 DEF ApplySwitch, Last
  <2>5. ReadsASet' /\ SwitchAgrees'
    BY <1>5, <2>4 DEF ApplySwitch, UdpInv, ReadsASet, SwitchAgrees
  <2> QED
    BY <2>3, <2>5 DEF UdpInv
<1>6. CASE SocketEvent
  <2>1. PollTypeOK' /\ ReadsASet'
    BY <1>6 DEF SocketEvent, UdpInv, PollTypeOK, ReadsASet
  <2> QED
    BY <1>6, <2>1, LoopElsewhere DEF SocketEvent
<1>7. CASE ReadDatagram
  <2>1. <<list, reading>> \in Sockets
    BY <1>7 DEF ReadDatagram, UdpInv, PollTypeOK, ReadsASet, Sockets, Sets
  <2>2. PollTypeOK' /\ ReadsASet'
    BY <1>7, <2>1 DEF ReadDatagram, loopVars, UdpInv, PollTypeOK, ReadsASet
  <2> QED
    BY <1>7, <2>2, LoopElsewhere DEF ReadDatagram, loopVars
<1> QED
  BY <1>1, <1>2, <1>3, <1>4, <1>5, <1>6, <1>7 DEF Loop

-----------------------------------------------------------------------------
(* The steps of a switcher.                                                *)

LEMMA SwitchStep ==
    ASSUME UdpInv, NEW t \in Switchers, SwitchBegin(t) \/ Switch(t)
    PROVE  UdpInv'
<1> USE DEF loopVars, netVars, notifyVars, pollVars
<1>0. /\ lock \in Switchers \cup {NoThread} /\ t # NoThread
      /\ switching \in [Switchers -> {"idle", "send", "notify", "wake", "commit"}]
      /\ wanted \in [Switchers -> Sets]
      /\ \A u \in Switchers : lock = u <=> switching[u] # "idle"
  BY ThreadAssumption DEF UdpInv, PollTypeOK
<1>1. CASE SwitchBegin(t)
  <2>1. made' \in Sets /\ wanted' \in [Switchers -> Sets]
    <3>1. made \in 0 .. MAX_SETS /\ MAX_SETS \in Nat
      BY PollAssumption DEF UdpInv, PollTypeOK, Sets
    <3>2. 0 \in Sets /\ (made < MAX_SETS => made + 1 \in Sets)
      BY <3>1 DEF Sets
    <3> QED
      BY <1>0, <1>1, <3>1, <3>2 DEF SwitchBegin, Sets
  <2>2. lock = NoThread /\ lock' = t /\ switching' = [switching EXCEPT ![t] = "send"]
        /\ UNCHANGED <<loop, sub, loopVars, netVars, notifyVars, chan, pollVars, stopper>>
    BY <1>1 DEF SwitchBegin
  <2>3. \A u \in Switchers : lock' = u <=> switching'[u] # "idle"
    BY <1>0, <2>2, ThreadAssumption
  <2>4. PollTypeOK'
    BY <1>0, <2>1, <2>2, <2>3 DEF UdpInv, PollTypeOK
  <2>5. \A u \in Switchers : u # t => switching'[u] = "idle"
    BY <1>0, <2>2, ThreadAssumption
  <2>6. SwitchAgrees'
    BY <1>0, <2>2, <2>5 DEF UdpInv, SwitchAgrees, Last
  <2> QED
    BY <2>2, <2>4, <2>6 DEF UdpInv, ReadsASet
<1>2. CASE SwitchSend(t)
  <2>1. lock = t /\ \A u \in Switchers : u # t => switching[u] = "idle"
    BY <1>0, <1>2 DEF SwitchSend
  <2>2. UNCHANGED <<loop, sub, made, wanted, loopVars, netVars, notifyVars, pollVars, stopper>>
    BY <1>2 DEF SwitchSend
  <2>3. CASE Fits
    <3>1. /\ chan' = Append(chan, wanted[t]) /\ lock' = lock
          /\ switching' = [switching EXCEPT ![t] = "notify"]
      BY <1>2, <2>3 DEF SwitchSend
    <3>2. /\ chan' \in Seq(Sets) /\ Len(chan') <= CAPACITY /\ chan' # << >>
          /\ chan'[Len(chan')] = wanted[t]
      BY <1>0, <2>3, <3>1, PollAssumption DEF UdpInv, PollTypeOK, Fits
    <3>3. PollTypeOK'
      BY <1>0, <2>1, <2>2, <3>1, <3>2 DEF UdpInv, PollTypeOK
    <3>4. Last' = wanted[t]
      BY <3>2 DEF Last
    <3>5. SwitchAgrees'
      BY <1>0, <2>1, <2>2, <3>1, <3>4 DEF SwitchAgrees
    <3> QED
      BY <2>2, <3>3, <3>5 DEF UdpInv, ReadsASet
  <2>4. CASE ~ Fits
    <3>1. /\ chan' = chan /\ lock' = NoThread
          /\ switching' = [switching EXCEPT ![t] = "idle"]
      BY <1>2, <2>4 DEF SwitchSend
    <3>2. PollTypeOK'
      BY <1>0, <2>1, <2>2, <3>1, ThreadAssumption DEF UdpInv, PollTypeOK
    <3>3. SwitchAgrees'
      BY <1>0, <1>2, <2>1, <2>2, <3>1 DEF SwitchSend, UdpInv, SwitchAgrees, Last
    <3> QED
      BY <2>2, <3>2, <3>3 DEF UdpInv, ReadsASet
  <2> QED
    BY <2>3, <2>4
<1>3. CASE SwitchNotify(t)
  <2>1. PollTypeOK'
    BY <1>0, <1>3 DEF SwitchNotify, UdpInv, PollTypeOK
  <2>2. SwitchAgrees'
    BY <1>0, <1>3 DEF SwitchNotify, UdpInv, SwitchAgrees, Last
  <2> QED
    BY <1>3, <2>1, <2>2 DEF SwitchNotify, UdpInv, ReadsASet
<1>4. CASE SwitchWake(t)
  <2>1. PollTypeOK'
    BY <1>0, <1>4 DEF SwitchWake, Woken, UdpInv, PollTypeOK
  <2>2. SwitchAgrees'
    BY <1>0, <1>4 DEF SwitchWake, UdpInv, SwitchAgrees, Last
  <2> QED
    BY <1>4, <2>1, <2>2 DEF SwitchWake, UdpInv, ReadsASet
<1>5. CASE SwitchCommit(t)
  <2>1. lock = t /\ \A u \in Switchers : u # t => switching[u] = "idle"
    BY <1>0, <1>5 DEF SwitchCommit
  <2>2. PollTypeOK'
    BY <1>0, <1>5, <2>1, ThreadAssumption DEF SwitchCommit, Committed, UdpInv, PollTypeOK
  <2>3. SwitchAgrees'
    BY <1>0, <1>5, <2>1 DEF SwitchCommit, Committed, UdpInv, SwitchAgrees, Last
  <2> QED
    BY <1>5, <2>2, <2>3 DEF SwitchCommit, UdpInv, ReadsASet
<1> QED
  BY <1>1, <1>2, <1>3, <1>4, <1>5 DEF Switch

-----------------------------------------------------------------------------
LEMMA UdpNextInv == UdpInv /\ [PollNext]_udpVars => UdpInv'
<1> SUFFICES ASSUME UdpInv, [PollNext]_udpVars PROVE UdpInv'
  OBVIOUS
<1> USE DEF switchVars, loopVars, netVars, notifyVars, pollVars
<1>1. CASE StopStore \/ StopWake
  BY <1>1 DEF StopStore, StopWake, UdpInv, PollTypeOK, ReadsASet, SwitchAgrees, Last
<1>2. ASSUME NEW s \in Sockets, Arrive(s)
      PROVE  UdpInv'
  <2>1. PollTypeOK'
    BY <1>2, PollAssumption DEF Arrive, UdpInv, PollTypeOK
  <2> QED
    BY <1>2, <2>1 DEF Arrive, UdpInv, ReadsASet, SwitchAgrees, Last
<1>3. CASE UNCHANGED udpVars
  BY <1>3 DEF udpVars, UdpInv, PollTypeOK, ReadsASet, SwitchAgrees, Last
<1> QED
  BY <1>1, <1>2, <1>3, LoopStep, SwitchStep DEF PollNext

(* The inductive invariant holds in every state of the loop. *)
THEOREM UdpInvariance == PollSpec => []UdpInv
BY UdpInitInv, UdpNextInv, PTL DEF PollSpec, udpVars

(* LoopAndContextAgree for any number of sockets, sets and switching       *)
(* threads: between two switches, the sockets the context sends from are   *)
(* the ones the loop reads or will read next, also when the channel was    *)
(* full or the loop applied a set before its switch committed it.          *)
THEOREM ContextAgrees == PollSpec => []LoopAndContextAgree
<1>1. UdpInv => LoopAndContextAgree
  BY DEF UdpInv, SwitchAgrees, Last, ListFollowsContext, LoopAndContextAgree
<1> QED
  BY <1>1, UdpInvariance, PTL
=============================================================================
