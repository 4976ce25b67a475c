------------------------------ MODULE Session ------------------------------
(***************************************************************************)
(* The session of a client with its server (handle/recv_data/server.rs,    *)
(* handle/handshaker.rs, handle/maintain/{idle,heartbeat}.rs, handle/      *)
(* mod.rs): handshake, key exchange, registration, heartbeats, the device  *)
(* list and its epoch, disconnects and time-outs of the gateway route.     *)
(*                                                                         *)
(* Two threads of the client run concurrently: the receiving thread, which *)
(* handles one packet at a time but a registration in several steps, and   *)
(* the scheduler thread, whose idle_route task also takes several steps.   *)
(* The server is not part of the repository: it is modelled by the answers *)
(* the client is written for, and may crash and restart without its        *)
(* sessions.  The delay of an exchange is on the way back: a request is    *)
(* answered when it is sent, its answer waits in net, where it is lost,    *)
(* overtaken or duplicated.                                                *)
(***************************************************************************)
EXTENDS Integers, Sequences, SequencesExt

CONSTANTS
    Secrets,       \* values of server_encrypt: the exchange is encrypted
    Ips,           \* addresses the server assigns
    Lists,         \* contents of the device list
    EPOCHS,        \* epochs are counted modulo this number, u16 in the code
    MAX_CRASHES,   \* bound: crashes of the server
    MAX_CHANGES,   \* bound: changes of the device list
    MAX_LOSSES,    \* bound: packets lost, overtaken or duplicated
    MAX_FLIGHT,    \* bound: replies on their way when a task or the server sends
    RESTARTS,      \* a crashed server comes back
    NoIp, NoList, NoMsg

ASSUME BoundsAssumption ==
    /\ {EPOCHS, MAX_CRASHES, MAX_CHANGES, MAX_LOSSES, MAX_FLIGHT} \subseteq Nat
    /\ EPOCHS > 1
    /\ Secrets \subseteq BOOLEAN /\ RESTARTS \in BOOLEAN
ASSUME NamesAssumption == NoIp \notin Ips /\ NoList \notin Lists /\ Lists # {}

VARIABLES
    secret,      \* server_encrypt of the configuration
    status,      \* current_device.status
    ip,          \* current_device.virtual_ip
    route,       \* route of the gateway: "none", "fresh" or "silent"
    epoch,       \* device_map.0
    list,        \* device_map.1
    rsa,         \* rsa_cipher is there
    recent,      \* a "handshake" less than 3, a "key" sent less than 1 second ago
    rx,          \* the receiving thread: place, packet, status it loaded
    idle,        \* the idle_route task: place
    net,         \* replies on their way
    srv,         \* the server: up, knows the key, has the client, epoch, list
    crashes, changes, losses     \* counted against the bounds

clientVars == <<status, ip, route, epoch, list, rsa, recent>>
bounds == <<crashes, changes, losses>>
vars == <<secret, clientVars, rx, idle, net, srv, bounds>>

Epochs == 0 .. EPOCHS - 1
Plain(t) == [type |-> t]
Replies ==
    {Plain(t) : t \in {"HandshakeResponse", "SecretHandshakeResponse",
                       "Disconnect", "NoKey", "Error"}}
    \cup [type : {"Pong"}, epoch : Epochs]
    \cup [type : {"PushDeviceList"}, epoch : Epochs, list : Lists]
    \cup [type : {"RegistrationResponse"}, epoch : Epochs, list : Lists, ip : Ips]

FirstList == CHOOSE l \in Lists : TRUE     \* the lists are interchangeable
Limiters == {"handshake", "key"}

Free == [at |-> "free", msg |-> NoMsg, seen |-> "none"]

-----------------------------------------------------------------------------
(* The server (external): its state after a request, and its answers.      *)

NextEpoch(e) == (e + 1) % EPOCHS
KeyMissing == secret /\ ~ srv.key
After(request) ==
    CASE request = "SecretHandshakeRequest" -> [srv EXCEPT !.key = TRUE]
      [] request = "RegistrationRequest" /\ ~ KeyMissing /\ ~ srv.reg ->
            [srv EXCEPT !.reg = TRUE, !.epoch = NextEpoch(@)]
      [] OTHER -> srv
Answers(request) ==
    CASE request = "HandshakeRequest" -> {Plain("HandshakeResponse")}
      [] request = "SecretHandshakeRequest" -> {Plain("SecretHandshakeResponse")}
      [] KeyMissing -> {Plain("NoKey")}
      [] request = "RegistrationRequest" ->
            [type : {"RegistrationResponse"}, epoch : {After(request).epoch},
             list : {srv.list}, ip : Ips]
      [] ~ srv.reg -> {Plain("Disconnect")}
      [] request = "Ping" -> [type : {"Pong"}, epoch : {srv.epoch}]
      [] request = "PullDeviceList" ->
            [type : {"PushDeviceList"}, epoch : {srv.epoch}, list : {srv.list}]

-----------------------------------------------------------------------------
(* Sending, with n the replies that are on their way.                      *)

Room == Len(net) < MAX_FLIGHT
SendNothing(n) == net' = n /\ UNCHANGED <<srv, losses>>
Trouble == losses < MAX_LOSSES /\ losses' = losses + 1
(* A request reaches the server or is lost, as it is at a dead server; a   *)
(* registration may be refused.                                            *)
Send(n, request) ==
    \/ /\ srv.up /\ srv' = After(request) /\ UNCHANGED losses
       /\ \E a \in Answers(request) : net' = Append(n, a)
    \/ ~ srv.up /\ SendNothing(n)
    \/ Trouble /\ net' = n /\ UNCHANGED srv
    \/ /\ srv.up /\ request = "RegistrationRequest"
       /\ Trouble /\ net' = Append(n, Plain("Error")) /\ UNCHANGED srv

(* Handshake::send: nothing within 3 seconds of the last one. *)
HandshakeSend(n) ==
    /\ IF "handshake" \in recent THEN SendNothing(n) ELSE Send(n, "HandshakeRequest")
    /\ recent' = recent \cup {"handshake"}

(* register: not when the status it was given is Connected. *)
Register(seen) ==
    IF seen = "Connected" THEN SendNothing(net) ELSE Send(net, "RegistrationRequest")

-----------------------------------------------------------------------------
(* The receiving thread takes a packet: it loads current_device, and       *)
(* update_read_time refreshes the route the packet came by.                *)
Receive ==
    /\ rx = Free /\ net # <<>>
    /\ rx' = [at |-> "handle", msg |-> Head(net), seen |-> status] /\ net' = Tail(net)
    /\ route' = IF route = "silent" THEN "fresh" ELSE route
    /\ UNCHANGED <<secret, status, ip, epoch, list, rsa, recent, idle, srv, bounds>>

Handling(type) == rx.at = "handle" /\ rx.msg.type = type

(* Without encryption the handshake is followed by the registration, with  *)
(* it by the upload of the key.  A callback that refuses a handshake or a  *)
(* registration has the effect of a lost packet.                           *)
HandleHandshakeResponse ==
    /\ Handling("HandshakeResponse")
    /\ IF secret THEN Send(net, "SecretHandshakeRequest") ELSE Register(rx.seen)
    /\ rsa' = TRUE /\ rx' = Free
    /\ UNCHANGED <<secret, status, ip, route, epoch, list, recent, idle, crashes, changes>>

HandleSecretHandshakeResponse ==
    /\ Handling("SecretHandshakeResponse")
    /\ Register(rx.seen)
    /\ rx' = Free
    /\ UNCHANGED <<secret, clientVars, idle, crashes, changes>>

(* A NoKey that is not acted on. *)
KeepsKey == FALSE
UploadsKey == secret /\ rsa /\ "key" \notin recent
(* The server has lost the key: it is uploaded again, at most once a       *)
(* second.                                                                 *)
HandleNoKey ==
    /\ Handling("NoKey")
    /\ IF UploadsKey
       THEN Send(net, "SecretHandshakeRequest") /\ recent' = recent \cup {"key"}
       ELSE SendNothing(net) /\ UNCHANGED recent
    /\ rx' = Free
    /\ UNCHANGED <<secret, status, ip, route, epoch, list, rsa, idle, crashes, changes>>

(* RegistrationResponse, first: add_route_if_absent for the gateway. *)
RegistrationAddRoute ==
    /\ Handling("RegistrationResponse")
    /\ route' = IF route = "none" THEN "fresh" ELSE route
    /\ rx' = [rx EXCEPT !.at = "update"]
    /\ UNCHANGED <<secret, status, ip, epoch, list, rsa, recent, idle, net, srv, bounds>>

(* An update of the status alone. *)
NotAssigned == ip
Assigned == rx.msg.ip
(* Then the compare_exchange loop on current_device. *)
RegistrationUpdate ==
    /\ rx.at = "update"
    /\ ip' = Assigned /\ status' = "Connected"
    /\ rx' = [rx EXCEPT !.at = "list"]
    /\ UNCHANGED <<secret, route, epoch, list, rsa, recent, idle, net, srv, bounds>>

(* An epoch that is never set back. *)
NewestEpoch == IF rx.msg.epoch > epoch THEN rx.msg.epoch ELSE epoch
EpochOfList == rx.msg.epoch
(* And, after the tun device is set up, set_device_info_list; the same for *)
(* PushDeviceList.                                                         *)
SetDeviceInfoList ==
    /\ rx.at = "list" \/ Handling("PushDeviceList")
    /\ epoch' = EpochOfList /\ list' = rx.msg.list
    /\ rx' = Free
    /\ UNCHANGED <<secret, status, ip, route, rsa, recent, idle, net, srv, bounds>>

(* Disconnect: the status, the epoch, a handshake. *)
HandleDisconnect ==
    /\ Handling("Disconnect")
    /\ status' = "Connecting" /\ epoch' = 0
    /\ HandshakeSend(net)
    /\ rx' = Free
    /\ UNCHANGED <<secret, ip, route, list, rsa, idle, crashes, changes>>

(* The other errors are only reported. *)
HandleError ==
    /\ Handling("Error")
    /\ rx' = Free
    /\ UNCHANGED <<secret, clientVars, idle, net, srv, bounds>>

(* A Pong that is not compared. *)
EpochIgnored(e) == FALSE
EpochDiffers(e) == e # epoch
(* Pong: add_route for its source, and a pull when the epochs differ;      *)
(* nothing if the 16-bit clock wrapped since the Ping.                     *)
HandlePong ==
    /\ Handling("Pong")
    /\ \/ /\ route' = "fresh"
          /\ IF EpochDiffers(rx.msg.epoch) THEN Send(net, "PullDeviceList") ELSE SendNothing(net)
       \/ Trouble /\ UNCHANGED <<route, net, srv>>
    /\ rx' = Free
    /\ UNCHANGED <<secret, status, ip, epoch, list, rsa, recent, idle, crashes, changes>>

-----------------------------------------------------------------------------
(* The scheduler thread runs one task at a time.                           *)

(* An idle_gateway that tries once. *)
NeverRetry == status = "Connecting" /\ ip = NoIp
Offline == status = "Connecting"
(* idle_gateway, every 5 seconds. *)
IdleGateway ==
    /\ idle = "no" /\ Offline /\ Room
    /\ HandshakeSend(net)
    /\ UNCHANGED <<secret, status, ip, route, epoch, list, rsa, rx, idle, crashes, changes>>

(* heartbeat, every 3 seconds, whatever the status. *)
Heartbeat ==
    /\ idle = "no" /\ Room
    /\ Send(net, "Ping")
    /\ UNCHANGED <<secret, clientVars, rx, idle, crashes, changes>>

(* idle_route: next_idle reports the gateway's route, remove_route, then   *)
(* change_status.                                                          *)
NextIdle ==
    /\ idle = "no" /\ route = "silent"
    /\ idle' = "remove"
    /\ UNCHANGED <<secret, clientVars, rx, net, srv, bounds>>
RemoveRoute ==
    /\ idle = "remove"
    /\ route' = "none" /\ idle' = "status"
    /\ UNCHANGED <<secret, status, ip, epoch, list, rsa, recent, rx, net, srv, bounds>>
ChangeStatus ==
    /\ idle = "status"
    /\ status' = "Connecting" /\ idle' = "no"
    /\ UNCHANGED <<secret, ip, route, epoch, list, rsa, recent, rx, net, srv, bounds>>

(* Time: of the limiters; 10 seconds without a packet, which is longer     *)
(* than handling one takes.                                                *)
LimiterExpires(x) ==
    /\ x \in recent /\ recent' = recent \ {x}
    /\ UNCHANGED <<secret, status, ip, route, epoch, list, rsa, rx, idle, net, srv, bounds>>
Silence ==
    /\ rx.at = "free" /\ route = "fresh" /\ route' = "silent"
    /\ UNCHANGED <<secret, status, ip, epoch, list, rsa, recent, rx, idle, net, srv, bounds>>

-----------------------------------------------------------------------------
(* The network and the server (external).                                  *)

Lose(i) == net' = RemoveAt(net, i)
Overtake(i) == i > 1 /\ net' = <<net[i]>> \o RemoveAt(net, i)
Duplicate(i) == Len(net) <= MAX_FLIGHT /\ net' = Append(net, net[i])
Disturb ==
    /\ Trouble /\ \E i \in DOMAIN net : Lose(i) \/ Overtake(i) \/ Duplicate(i)
    /\ UNCHANGED <<secret, clientVars, rx, idle, srv, crashes, changes>>

(* Another client comes or goes; the server may push the new list. *)
ListChanges ==
    /\ srv.up /\ changes < MAX_CHANGES /\ changes' = changes + 1
    /\ \E l \in Lists : srv' = [srv EXCEPT !.epoch = NextEpoch(@), !.list = l]
    /\ \/ UNCHANGED net
       \/ /\ srv.reg /\ Room
          /\ net' = Append(net, [type |-> "PushDeviceList",
                                 epoch |-> srv'.epoch, list |-> srv'.list])
    /\ UNCHANGED <<secret, clientVars, rx, idle, crashes, losses>>

Crash ==
    /\ srv.up /\ crashes < MAX_CRASHES /\ crashes' = crashes + 1
    /\ srv' = [srv EXCEPT !.up = FALSE, !.key = FALSE, !.reg = FALSE]
    /\ UNCHANGED <<secret, clientVars, rx, idle, net, changes, losses>>
Restart ==
    /\ ~ srv.up /\ RESTARTS /\ srv' = [srv EXCEPT !.up = TRUE]
    /\ UNCHANGED <<secret, clientVars, rx, idle, net, bounds>>

-----------------------------------------------------------------------------
Init ==
    /\ secret \in Secrets
    /\ status = "Connecting" /\ ip = NoIp /\ route = "none"
    /\ epoch = 0 /\ list = NoList /\ rsa = FALSE /\ recent = {}
    /\ rx = Free /\ idle = "no" /\ net = <<>>
    /\ srv = [up |-> TRUE, key |-> FALSE, reg |-> FALSE, epoch |-> 0, list |-> FirstList]
    /\ crashes = 0 /\ changes = 0 /\ losses = 0

Handle ==
    \/ HandleHandshakeResponse \/ HandleSecretHandshakeResponse \/ HandleNoKey
    \/ RegistrationAddRoute \/ RegistrationUpdate \/ SetDeviceInfoList
    \/ HandleDisconnect \/ HandleError \/ HandlePong
IdleRoute == NextIdle \/ RemoveRoute \/ ChangeStatus

Next ==
    \/ Receive \/ Handle
    \/ IdleGateway \/ Heartbeat \/ IdleRoute \/ Silence
    \/ \E x \in Limiters : LimiterExpires(x)
    \/ Disturb \/ ListChanges \/ Crash \/ Restart

(* The receiving thread takes and handles packets, the scheduler runs its  *)
(* tasks over and over, the limiters' seconds pass, and a route nothing    *)
(* comes by falls silent; a crashed server comes back if it ever does.     *)
Fairness ==
    /\ WF_vars(Receive \/ Handle) /\ WF_vars(IdleRoute)
    /\ \A x \in Limiters : WF_vars(LimiterExpires(x))
    /\ WF_vars(~ srv.up /\ Silence) /\ WF_vars(Restart)
    /\ SF_vars(IdleGateway) /\ SF_vars(Heartbeat)

Spec == Init /\ [][Next]_vars
FairSpec == Spec /\ Fairness

-----------------------------------------------------------------------------
(* The types of the fields; whoever sees Connected in the atomic cell sees *)
(* an address with it.                                                     *)
TypeOK ==
    /\ status = "Connected" => ip # NoIp
    /\ secret \in BOOLEAN
    /\ status \in {"Connecting", "Connected"} /\ ip \in Ips \cup {NoIp}
    /\ route \in {"none", "fresh", "silent"} /\ rsa \in BOOLEAN /\ recent \subseteq Limiters
    /\ epoch \in Epochs /\ list \in Lists \cup {NoList}
    /\ rx.at \in {"free", "handle", "update", "list"}
    /\ idle \in {"no", "remove", "status"}
    /\ net \in Seq(Replies) /\ Len(net) <= MAX_FLIGHT + 2
    /\ srv \in [up : BOOLEAN, key : BOOLEAN, reg : BOOLEAN, epoch : Epochs, list : Lists]

(* The epoch tells the list: a client whose epoch is the one the server    *)
(* announces in its Pongs, and was not reset by a Disconnect, has the      *)
(* server's list, so not pulling it (HandlePong) is right, although lists  *)
(* arrive late, twice and out of order.  As long as the u16 of the epoch   *)
(* has not wrapped around.                                                 *)
EpochTells == epoch # 0 /\ epoch = srv.epoch => list = srv.list
SessionSound == TypeOK /\ EpochTells

(* The client gets its session, again and again: after lost packets,       *)
(* restarts of the server and time-outs both sides come back to a state in *)
(* which the client is Connected and the server has it registered.         *)
SessionReestablished == []<>(status = "Connected" /\ srv.reg)

(* "Old messages may be received here, but as time goes on new ones always *)
(* arrive" (set_device_info_list): once the list of the server no longer   *)
(* changes, the client ends up with it, through epochs, pulls and pushes   *)
(* that overtake each other.                                               *)
ListConverges == <>[](list = srv.list)

(* "When the gateway's route expires the status has to change" (idle_      *)
(* route0): a client does not stay Connected to a server that is dead.     *)
(* Not so: a late RegistrationResponse between remove_route and            *)
(* change_status leaves a client Connected with no route to expire.        *)
DeadServerNoticed == (~ srv.up) ~> (status = "Connecting" \/ srv.up)
=============================================================================
