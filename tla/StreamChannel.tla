--------------------------- MODULE StreamChannel ---------------------------
(***************************************************************************)
(* The stream channels (channel/tcp_channel.rs, channel/ws_channel.rs): a  *)
(* connection is a task that dials, writes its first packet and puts the   *)
(* sender of its channel into packet_map, and then a writer and a reader   *)
(* task that end independently.  Inserting a sender drops the one that was *)
(* there, which ends its writer; a reader that ends removes the sender of  *)
(* its address, whose ever it is.  Above them the gateway task             *)
(* (check_gateway_channel) sends a handshake while the client is offline   *)
(* and asks for a new connection when the send fails.                      *)
(*                                                                         *)
(* A tcp connection of a client is dialled or accepted; web sockets only   *)
(* connect to the server, all under the address WS_ADDR.                   *)
(* The other end of a connection and the TCP stack are external.           *)
(***************************************************************************)
EXTENDS Integers, Sequences, FiniteSets

CONSTANTS
    Conns,         \* connections there may be at a time
    Addrs,         \* socket addresses
    Server,        \* the address of the server, for a web socket WS_ADDR
    CHANNEL,       \* capacity of the channel of a connection, 100
    DIALS,         \* capacity of the channel of connect requests, 16
    WINDOW,        \* bound: packets that are on the wire
    MAX_TROUBLE,   \* bound: failures of the network or of the other end
    NoConn

ASSUME BoundsAssumption ==
    /\ {CHANNEL, DIALS, WINDOW} \subseteq Nat \ {0}
    /\ MAX_TROUBLE \in Nat
    /\ Server \in Addrs /\ NoConn \notin Conns

VARIABLES
    proto,         \* context.protocol: "TCP" or "WS"
    timely,        \* the steps of a connection take less than the 5 s of a tick
    online,        \* status of current_device
    asked,         \* addresses in the channel of connect requests
    packet_map,    \* the connection whose sender is under an address
    conn,          \* the connections
    stopped,       \* the stop listener has ended the runtime
    trouble        \* counted against MAX_TROUBLE

vars == <<proto, timely, online, asked, packet_map, conn, stopped, trouble>>

Packets == {"handshake", "data"}
Fresh == [at |-> "free", addr |-> Server, tries |-> 0,
          writer |-> "none", reader |-> "none", chan |-> <<>>,
          wire |-> <<>>, first |-> "none", reply |-> FALSE, peer |-> "none"]
Detached(c) == conn[c].at = "open" /\ packet_map[conn[c].addr] # c
Usable(c) ==
    /\ packet_map[Server] = c
    /\ conn[c].writer = "running" /\ conn[c].reader = "reading" /\ conn[c].peer = "open"

-----------------------------------------------------------------------------
(* packet_map: PacketSender::try_send through send_tcp.                    *)

(* The kind of error of a send to an address, or "Ok". *)
SendResult(addr) ==
    LET c == packet_map[addr] IN
    CASE c = NoConn -> "NotFound"
      [] c # NoConn /\ conn[c].writer # "running" -> "ConnectionRefused"
      [] c # NoConn /\ conn[c].writer = "running" /\ Len(conn[c].chan) = CHANNEL -> "WouldBlock"
      [] OTHER -> "Ok"

send_tcp(addr, p) ==
    conn' = IF SendResult(addr) = "Ok"
            THEN [conn EXCEPT ![packet_map[addr]].chan = Append(@, p)] ELSE conn

(* A thread of the client sends to a connected address, and ignores the    *)
(* error.                                                                  *)
SendData(addr) ==
    /\ online /\ send_tcp(addr, "data") /\ conn' # conn
    /\ UNCHANGED <<proto, timely, online, asked, packet_map, stopped, trouble>>

(* Without the capacity of the channel. *)
TryConnect_Unbounded(addr) == asked' = Append(asked, addr)

(* try_connect_tcp and try_connect_ws: a full channel is only logged. *)
TryConnect(addr) == asked' = IF Len(asked) < DIALS THEN Append(asked, addr) ELSE asked

-----------------------------------------------------------------------------
(* The gateway task, and the idle task that finds the gateway silent.      *)

(* When timely, everything about a connection but the time-out of a silent *)
(* one is over in the 5 seconds before the next tick.                      *)
Settled ==
    /\ asked = <<>>
    /\ \A c \in Conns :
          \/ conn[c].at = "free"
          \/ conn[c].at = "open" /\ conn[c].peer = "silent"
          \/ Usable(c) \/ (conn[c].addr # Server /\ ~ Detached(c))

(* A missing connection taken for one that is still being made. *)
check_gateway_channel_NoConnect ==
    /\ ~ online /\ ~ stopped /\ (timely => Settled)
    /\ send_tcp(Server, "handshake")
    /\ IF SendResult(Server) \in {"Ok", "NotFound"} THEN UNCHANGED asked ELSE TryConnect(Server)
    /\ UNCHANGED <<proto, timely, online, packet_map, stopped, trouble>>

check_gateway_channel ==
    /\ ~ online /\ ~ stopped /\ (timely => Settled)
    /\ send_tcp(Server, "handshake")
    /\ IF SendResult(Server) = "Ok" THEN UNCHANGED asked ELSE TryConnect(Server)
    /\ UNCHANGED <<proto, timely, online, packet_map, stopped, trouble>>

(* idle_route0: nothing came from the gateway for a while. *)
GatewayIdle ==
    /\ online /\ \A c \in Conns : ~ Usable(c)
    /\ online' = FALSE
    /\ UNCHANGED <<proto, timely, asked, packet_map, conn, stopped, trouble>>

(* Another client is punched with tcp: connect to its address. *)
PunchTcp(addr) ==
    /\ proto = "TCP" /\ ~ stopped /\ addr # Server /\ trouble < MAX_TROUBLE
    /\ trouble' = trouble + 1 /\ TryConnect(addr)
    /\ UNCHANGED <<proto, timely, online, packet_map, conn, stopped>>

-----------------------------------------------------------------------------
(* A connection comes to be.                                               *)

Trouble == trouble < MAX_TROUBLE /\ trouble' = trouble + 1
(* What a step leaves of a connection: nothing when both tasks have ended. *)
Set(c, k) ==
    conn' = [conn EXCEPT ![c] = IF k.writer = "ended" /\ k.reader = "ended" THEN Fresh ELSE k]

(* connect_tcp_handle, connect_ws_handle: one task for each request. *)
Spawn(c) ==
    /\ ~ stopped /\ asked # <<>> /\ conn[c].at = "free"
    /\ Set(c, [Fresh EXCEPT !.at = "dial", !.addr = Head(asked)])
    /\ asked' = Tail(asked)
    /\ UNCHANGED <<proto, timely, online, packet_map, stopped, trouble>>

(* The connect of connect_tcp0 and connect_ws succeeds. *)
Dial(c) ==
    /\ conn[c].at = "dial"
    /\ Set(c, [conn[c] EXCEPT !.at = "first", !.peer = "open"])
    /\ UNCHANGED <<proto, timely, online, asked, packet_map, stopped, trouble>>

(* It fails, or takes more than 3 seconds; a redirect of a web socket is   *)
(* followed, up to the third try.                                          *)
DialFails(c) ==
    /\ conn[c].at = "dial" /\ IF conn[c].tries = 0 THEN Trouble ELSE UNCHANGED trouble
    /\ \/ Set(c, Fresh)
       \/ /\ proto = "WS"
          /\ Set(c, IF conn[c].tries + 1 < 3 THEN [conn[c] EXCEPT !.tries = @ + 1] ELSE Fresh)
    /\ UNCHANGED <<proto, timely, online, asked, packet_map, stopped>>

Opened(k) == [k EXCEPT !.at = "open", !.writer = "running", !.reader = "reading"]

(* connect_tcp0 with the first packet written by whoever comes first. *)
WriteFirst_Late(c) ==
    /\ conn[c].at = "first"
    /\ Set(c, IF conn[c].peer = "open"
              THEN [Opened(conn[c]) EXCEPT !.chan = <<"data">>] ELSE Fresh)
    /\ packet_map' = [packet_map EXCEPT ![conn[c].addr] = c]
    /\ UNCHANGED <<proto, timely, online, asked, stopped, trouble>>

(* The request goes out on the new connection before anything else can. *)
WriteFirst(c) ==
    /\ conn[c].at = "first"
    /\ Set(c, IF conn[c].peer = "open"
              THEN [conn[c] EXCEPT !.at = "insert", !.wire = <<"handshake">>] ELSE Fresh)
    /\ UNCHANGED <<proto, timely, online, asked, packet_map, stopped, trouble>>

(* tcp_stream_handle, and the end of connect_ws: the sender goes into the  *)
(* map, the writer and the reader start.                                   *)
tcp_stream_handle(c) ==
    /\ conn[c].at = "insert"
    /\ Set(c, Opened(conn[c]))
    /\ packet_map' = [packet_map EXCEPT ![conn[c].addr] = c]
    /\ UNCHANGED <<proto, timely, online, asked, stopped, trouble>>

(* tcp_accept: another client connects. *)
tcp_accept(c, addr) ==
    /\ proto = "TCP" /\ ~ stopped /\ addr # Server /\ Trouble
    /\ conn[c].at = "free"
    /\ Set(c, Opened([Fresh EXCEPT !.addr = addr, !.peer = "open"]))
    /\ packet_map' = [packet_map EXCEPT ![addr] = c]
    /\ UNCHANGED <<proto, timely, online, asked, stopped>>

-----------------------------------------------------------------------------
(* The writer and the reader of a connection.                              *)

(* The write half is shut down: what was written can still be read. *)
WriterOver(k) == [k EXCEPT !.writer = "ended", !.chan = <<>>]
Broken(k) == k.peer \in {"closed", "reset"}

(* A writer that does not notice that its sender is gone. *)
WriterStep_Deaf(c) ==
    LET k == conn[c] IN
    /\ k.writer = "running" /\ k.chan # <<>>
    /\ \/ /\ ~ Broken(k) /\ Len(k.wire) < WINDOW
          /\ Set(c, [k EXCEPT !.chan = Tail(@), !.wire = Append(@, Head(k.chan))])
       \/ Broken(k) /\ Set(c, WriterOver(k))
    /\ UNCHANGED <<proto, timely, online, asked, packet_map, stopped, trouble>>

WriterStep(c) ==
    LET k == conn[c] IN
    /\ k.writer = "running"
    /\ \/ /\ k.chan # <<>> /\ ~ Broken(k) /\ Len(k.wire) < WINDOW
          /\ Set(c, [k EXCEPT !.chan = Tail(@), !.wire = Append(@, Head(k.chan))])
       \/ k.chan # <<>> /\ Broken(k) /\ Set(c, WriterOver(k))
       \/ k.chan = <<>> /\ packet_map[k.addr] # c /\ Set(c, WriterOver(k))
    /\ UNCHANGED <<proto, timely, online, asked, packet_map, stopped, trouble>>

(* tcp_read, ws_read_handle: a packet is handled by the receiver, which    *)
(* makes the client online when it is the answer of the server.            *)
Read(c) ==
    /\ conn[c].reader = "reading" /\ conn[c].reply
    /\ Set(c, [conn[c] EXCEPT !.reply = FALSE])
    /\ online' = TRUE
    /\ UNCHANGED <<proto, timely, asked, packet_map, stopped, trouble>>

(* The end of the stream, an error, or a head that is not valid. *)
ReadEnds(c) ==
    /\ conn[c].reader = "reading" /\ (conn[c].peer = "closed" => ~ conn[c].reply)
    /\ IF Broken(conn[c]) THEN UNCHANGED trouble ELSE Trouble
    /\ Set(c, [conn[c] EXCEPT !.reader = "removing", !.reply = FALSE])
    /\ UNCHANGED <<proto, timely, online, asked, packet_map, stopped>>

(* The reader leaves the map alone. *)
Remove_Forgotten(c) ==
    /\ conn[c].reader = "removing"
    /\ Set(c, [conn[c] EXCEPT !.reader = "ended"])
    /\ UNCHANGED <<proto, timely, online, asked, packet_map, stopped, trouble>>

(* packet_map.remove(&addr): the sender of whichever connection is there. *)
Remove(c) ==
    /\ conn[c].reader = "removing"
    /\ Set(c, [conn[c] EXCEPT !.reader = "ended", !.reply = FALSE])
    /\ packet_map' = [packet_map EXCEPT ![conn[c].addr] = NoConn]
    /\ UNCHANGED <<proto, timely, online, asked, stopped, trouble>>

(* The stop listener: the runtime and all its tasks go, the map stays. *)
Stop ==
    /\ ~ stopped /\ stopped' = TRUE /\ asked' = <<>>
    /\ conn' = [c \in Conns |-> Fresh]
    /\ UNCHANGED <<proto, timely, online, packet_map, trouble>>

-----------------------------------------------------------------------------
(* The other end (external).                                               *)

PeerRead(c) ==
    LET k == conn[c] IN
    /\ k.peer = "open" /\ k.wire # <<>>
    /\ Set(c, [k EXCEPT !.wire = Tail(@),
                        !.first = IF @ = "none" THEN Head(k.wire) ELSE @,
                        !.reply = Head(k.wire) = "handshake" \/ @])
    /\ UNCHANGED <<proto, timely, online, asked, packet_map, stopped, trouble>>

(* It closes what was closed, and may close, reset or fall silent at any   *)
(* time; a silent connection with something to send fails in the end.      *)
PeerCloses(c) ==
    LET k == conn[c] IN
    /\ \/ /\ k.peer = "open" /\ k.writer = "ended" /\ k.wire = <<>>
          /\ Set(c, [k EXCEPT !.peer = "closed"]) /\ UNCHANGED trouble
       \/ /\ k.peer = "open" /\ Trouble
          /\ \E p \in {"closed", "reset", "silent"} : Set(c, [k EXCEPT !.peer = p])
       \/ /\ k.peer = "silent" /\ (k.wire # <<>> \/ k.writer = "ended")
          /\ Set(c, [k EXCEPT !.peer = "reset"]) /\ UNCHANGED trouble
    /\ UNCHANGED <<proto, timely, online, asked, packet_map, stopped>>

-----------------------------------------------------------------------------
Init ==
    /\ proto \in {"TCP", "WS"} /\ timely \in BOOLEAN
    /\ online = FALSE /\ asked = <<>> /\ stopped = FALSE /\ trouble = 0
    /\ packet_map = [a \in Addrs |-> NoConn]
    /\ conn = [c \in Conns |-> Fresh]

Connect(c) == Spawn(c) \/ Dial(c) \/ WriteFirst(c) \/ tcp_stream_handle(c)
Reader(c) == Read(c) \/ Remove(c) \/ ReadEnds(c)

Next ==
    \/ check_gateway_channel \/ GatewayIdle \/ Stop
    \/ \E a \in Addrs : SendData(a) \/ PunchTcp(a)
    \/ \E c \in Conns :
          \/ Connect(c) \/ DialFails(c) \/ WriterStep(c) \/ Reader(c)
          \/ PeerRead(c) \/ PeerCloses(c)
          \/ \E a \in Addrs : tcp_accept(c, a)

(* The runtime runs its tasks, the scheduler its ticks, the server answers *)
(* and closes what is closed, and TCP gives up a silent connection.        *)
Fairness ==
    /\ WF_vars(check_gateway_channel) /\ WF_vars(GatewayIdle)
    /\ \A c \in Conns :
          /\ WF_vars(Connect(c)) /\ WF_vars(WriterStep(c)) /\ WF_vars(PeerRead(c))
          /\ WF_vars(Reader(c) /\ UNCHANGED trouble)
          /\ WF_vars(PeerCloses(c) /\ UNCHANGED trouble)

Spec == Init /\ [][Next]_vars /\ Fairness

-----------------------------------------------------------------------------
(* The variables have the values the code gives them, the channels their   *)
(* capacities.                                                             *)
TypeOK ==
    /\ proto \in {"TCP", "WS"} /\ {timely, online, stopped} \subseteq BOOLEAN
    /\ trouble \in 0 .. MAX_TROUBLE
    /\ asked \in Seq(Addrs) /\ Len(asked) <= DIALS
    /\ packet_map \in [Addrs -> Conns \cup {NoConn}]
    /\ \A c \in Conns :
          LET k == conn[c] IN
          /\ k.at \in {"free", "dial", "first", "insert", "open"}
          /\ k.addr \in Addrs /\ k.tries \in 0 .. 2 /\ k.reply \in BOOLEAN
          /\ k.writer \in {"none", "running", "ended"}
          /\ k.reader \in {"none", "reading", "removing", "ended"}
          /\ k.chan \in Seq(Packets) /\ Len(k.chan) <= CHANNEL
          /\ k.wire \in Seq(Packets) /\ Len(k.wire) <= WINDOW
          /\ k.peer \in {"none", "open", "closed", "reset", "silent"}

(* A sender in packet_map belongs to an open connection of that address    *)
(* whose reader is still there to remove it: a connection that has ended   *)
(* is never left in the map, although readers remove by address and end in *)
(* any order with the connections that replaced theirs.  (While the        *)
(* service runs: a stopped runtime leaves its map behind.)                 *)
EntryHasReader ==
    \A a \in Addrs : (packet_map[a] # NoConn /\ ~ stopped) =>
        LET k == conn[packet_map[a]] IN
        k.at = "open" /\ k.addr = a /\ k.reader \in {"reading", "removing"}

(* The first packet the server reads on a connection is the handshake, so  *)
(* many threads as may be sending to the address at that time: the request *)
(* is written before the sender is in the map.                             *)
HandshakeFirst ==
    \A c \in Conns : conn[c].addr = Server => conn[c].first \in {"none", "handshake"}

(* A connection that lost its place in the map, to a newer one or to the   *)
(* reader of another, is not left behind: its writer and its reader end.   *)
DetachedEnds ==
    \A c \in Conns : Detached(c) ~> ~ Detached(c)

(* The client comes back: after any failures, with connections that        *)
(* replace each other and readers that remove the sender of a newer one,   *)
(* a connection to the server stays and the client is online (when the end *)
(* of a connection takes less than the 5 seconds between two attempts).    *)
Reconnects == timely => []<>(online \/ stopped)

(* packet_map holds senders of connections that still read, and whoever    *)
(* sends through it sends behind the handshake.                            *)
MapIsSound == TypeOK /\ EntryHasReader /\ HandshakeFirst
=============================================================================
