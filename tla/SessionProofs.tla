--------------------------- MODULE SessionProofs ---------------------------
(***************************************************************************)
(* Theorems about what the packets of the server do to a client: about     *)
(* Session, for any number of addresses, lists, losses, crashes, changes   *)
(* and packets in flight; and about TunDevice, the device a registration   *)
(* starts, for any number of devices, addresses and responses, with and    *)
(* without faults, where one thread handles the responses of the server,   *)
(* one after another.                                                      *)
(***************************************************************************)
EXTENDS Session, TunDevice, SequenceTheorems, TLAPS

(* The epoch of the server does not wrap around in a behaviour: it counts  *)
(* the changes of the list, and the registrations, one more than crashes.  *)
NoWrap == MAX_CHANGES + MAX_CRASHES + 1 < EPOCHS

(* An epoch and a list that belong together: not from the future, and of   *)
(* the server's epoch only with the server's list.                         *)
Told(e, l) == NoWrap => e <= srv.epoch /\ (e = srv.epoch => l = srv.list)

(* What may be on its way: replies whose lists are told right. *)
ListTypes == {"PushDeviceList", "RegistrationResponse"}
Truths == {m \in Replies : m.type \in ListTypes => Told(m.epoch, m.list)}

ServerType == [up : BOOLEAN, key : BOOLEAN, reg : BOOLEAN, epoch : Epochs, list : Lists]
Statuses == {"Connecting", "Connected"}
Counted == IF srv.reg THEN 1 ELSE 0
ServerInv ==
    /\ srv \in ServerType
    /\ changes \in 0 .. MAX_CHANGES /\ crashes \in 0 .. MAX_CRASHES
    /\ NoWrap => srv.epoch <= changes + crashes + Counted

ClientInv ==
    /\ secret \in BOOLEAN /\ rsa \in BOOLEAN /\ recent \subseteq Limiters
    /\ status \in Statuses /\ ip \in Ips \cup {NoIp}
    /\ status = "Connected" => ip # NoIp
    /\ route \in {"none", "fresh", "silent"}
    /\ idle \in {"no", "remove", "status"}
    /\ epoch \in Epochs /\ list \in Lists \cup {NoList}
    /\ epoch # 0 => Told(epoch, list)

(* The packet in the hands of the receiving thread. *)
Busy == [at : {"handle", "update", "list"}, msg : Truths, seen : Statuses]
RxInv ==
    \/ rx = Free
    \/ rx \in Busy /\ (rx.at # "handle" => rx.msg.type = "RegistrationResponse")

(* A packet is handled with one reply, whose room the packet has left. *)
Reserve == IF rx = Free THEN 0 ELSE 1
NetInv == net \in Seq(Truths) /\ Len(net) + Reserve <= MAX_FLIGHT + 2

Inv == ServerInv /\ ClientInv /\ RxInv /\ NetInv

-----------------------------------------------------------------------------
LEMMA FirstListThere == FirstList \in Lists
BY NamesAssumption DEF FirstList

LEMMA InitInv == Init => Inv
<1> SUFFICES ASSUME Init PROVE Inv
  OBVIOUS
<1>1. 0 \in Epochs /\ 0 \in 0 .. MAX_CHANGES /\ 0 \in 0 .. MAX_CRASHES /\ MAX_FLIGHT \in Nat
  BY BoundsAssumption DEF Epochs
<1>2. ServerInv
  BY <1>1, FirstListThere DEF Init, ServerInv, ServerType, Counted
<1>3. ClientInv
  BY <1>1, BoundsAssumption DEF Init, ClientInv, Statuses
<1>4. RxInv /\ NetInv
  BY <1>1, EmptySeq DEF Init, RxInv, NetInv, Reserve
<1> QED
  BY <1>2, <1>3, <1>4 DEF Inv

(* The invariant is what the runs check. *)
LEMMA InvTypes == Inv => TypeOK
<1> SUFFICES ASSUME Inv PROVE TypeOK
  OBVIOUS
<1>1. rx.at \in {"free", "handle", "update", "list"}
  BY DEF Inv, RxInv, Free, Busy
<1>2. net \in Seq(Replies) /\ Len(net) <= MAX_FLIGHT + 2
  <2>1. Truths \subseteq Replies
    BY DEF Truths
  <2>2. net \in Seq(Truths) /\ Len(net) + Reserve <= MAX_FLIGHT + 2 /\ Reserve \in {0, 1}
    BY DEF Inv, NetInv, Reserve
  <2>3. Len(net) \in Nat /\ MAX_FLIGHT \in Nat
    BY <2>2, BoundsAssumption
  <2> QED
    BY <2>1, <2>2, <2>3
<1> QED
  BY <1>1, <1>2 DEF Inv, ServerInv, ServerType, ClientInv, Statuses, TypeOK

LEMMA InvSound == NoWrap /\ Inv => SessionSound
<1> SUFFICES ASSUME NoWrap, Inv PROVE SessionSound
  OBVIOUS
<1>1. EpochTells
  BY DEF Inv, ClientInv, Told, EpochTells
<1> QED
  BY <1>1, InvTypes DEF SessionSound

-----------------------------------------------------------------------------
(* What is told right stays so: the epoch only grows while it does not     *)
(* wrap around, and a list changes with it.                                *)
Grows ==
    NoWrap => \/ srv'.epoch = srv.epoch /\ srv'.list = srv.list
              \/ srv'.epoch = srv.epoch + 1

LEMMA ToldStays ==
    ASSUME ServerInv, ServerInv', Grows, NEW e \in Epochs, NEW l, Told(e, l)
    PROVE  Told(e, l)'
<1>1. e \in Int /\ srv.epoch \in Int /\ srv'.epoch \in Int
  BY BoundsAssumption DEF ServerInv, ServerType, Epochs
<1> QED
  BY <1>1 DEF Told, Grows

LEMMA TruthsStay ==
    ASSUME ServerInv, ServerInv', Grows
    PROVE  Truths \subseteq Truths'
<1> SUFFICES ASSUME NEW m \in Truths PROVE m \in Truths'
  OBVIOUS
<1>1. m \in Replies /\ (m.type \in ListTypes => Told(m.epoch, m.list))
  BY DEF Truths
<1>2. m.type \in ListTypes => m.epoch \in Epochs
  BY <1>1 DEF Replies, Plain, ListTypes
<1>3. m.type \in ListTypes => Told(m.epoch, m.list)'
  BY <1>1, <1>2, ToldStays
<1> QED
  BY <1>1, <1>3 DEF Truths

-----------------------------------------------------------------------------
(* The server and its answers.                                             *)

Requests == {"HandshakeRequest", "SecretHandshakeRequest", "RegistrationRequest",
             "Ping", "PullDeviceList"}

(* While it does not wrap around, the next epoch is a larger one. *)
LEMMA EpochGrows ==
    ASSUME ServerInv
    PROVE  /\ NextEpoch(srv.epoch) \in Epochs
           /\ NoWrap /\ (changes < MAX_CHANGES \/ ~ srv.reg) =>
                NextEpoch(srv.epoch) = srv.epoch + 1
<1>1. /\ EPOCHS \in Nat /\ EPOCHS > 1 /\ MAX_CHANGES \in Nat /\ MAX_CRASHES \in Nat
      /\ srv.epoch \in 0 .. EPOCHS - 1 /\ srv.reg \in BOOLEAN
      /\ changes \in 0 .. MAX_CHANGES /\ crashes \in 0 .. MAX_CRASHES
  BY BoundsAssumption DEF ServerInv, ServerType, Epochs
<1>2. (srv.epoch + 1) % EPOCHS \in 0 .. EPOCHS - 1
  BY <1>1
<1>3. ASSUME NoWrap, changes < MAX_CHANGES \/ ~ srv.reg
      PROVE  srv.epoch + 1 < EPOCHS
  BY <1>1, <1>3 DEF ServerInv, Counted, NoWrap
<1>4. srv.epoch + 1 < EPOCHS => (srv.epoch + 1) % EPOCHS = srv.epoch + 1
  BY <1>1
<1> QED
  BY <1>2, <1>3, <1>4 DEF NextEpoch, Epochs

LEMMA AfterRequest ==
    ASSUME ServerInv, NEW request \in Requests,
           srv' = After(request) \/ srv' = srv, UNCHANGED <<changes, crashes>>
    PROVE  ServerInv' /\ Grows
<1>1. CASE srv' = srv
  BY <1>1 DEF ServerInv, Counted, Grows
<1>2. CASE srv' = [srv EXCEPT !.key = TRUE]
  BY <1>2 DEF ServerInv, ServerType, Counted, Grows
<1>3. CASE ~ srv.reg /\ srv' = [srv EXCEPT !.reg = TRUE, !.epoch = NextEpoch(@)]
  <2>1. srv' \in ServerType /\ srv'.epoch = NextEpoch(srv.epoch) /\ srv'.list = srv.list
    BY <1>3, EpochGrows DEF ServerInv, ServerType
  <2>2. NoWrap => srv'.epoch = srv.epoch + 1
    BY <1>3, <2>1, EpochGrows
  <2>3. Counted = 0 /\ Counted' = 1
    BY <1>3 DEF ServerInv, ServerType, Counted
  <2>4. srv.epoch \in Int /\ changes \in Int /\ crashes \in Int
    BY BoundsAssumption DEF ServerInv, ServerType, Epochs
  <2> QED
    BY <2>1, <2>2, <2>3, <2>4 DEF ServerInv, Grows
<1> QED
  BY <1>1, <1>2, <1>3 DEF After

(* An answer has the epoch and the list the server has then. *)
LEMMA AnswersAreTrue ==
    ASSUME ServerInv, ServerInv', NEW request \in Requests, srv' = After(request)
    PROVE  Answers(request) \subseteq Truths'
<1> SUFFICES ASSUME NEW a \in Answers(request) PROVE a \in Truths'
  OBVIOUS
<1>1. /\ srv.epoch \in Epochs /\ srv.list \in Lists /\ srv'.epoch \in Epochs
      /\ srv'.epoch \in Int
  BY BoundsAssumption DEF ServerInv, ServerType, Epochs
<1>2. srv'.list = srv.list
  BY DEF After, ServerInv, ServerType
<1>3. ASSUME a \in Replies,
             a.type \in ListTypes => a.epoch = srv'.epoch /\ a.list = srv'.list
      PROVE  a \in Truths'
  BY <1>1, <1>3 DEF Truths, Told
<1>4. ASSUME NEW t \in {"HandshakeResponse", "SecretHandshakeResponse", "Disconnect", "NoKey", "Error"},
             a = Plain(t)
      PROVE  a \in Truths'
  <2>1. a \in Replies
    BY <1>4 DEF Replies
  <2>2. a.type \notin ListTypes
    BY <1>4 DEF Plain, ListTypes
  <2> QED
    BY <1>3, <2>1, <2>2
<1>5. CASE a \in [type : {"RegistrationResponse"}, epoch : {After(request).epoch},
                  list : {srv.list}, ip : Ips]
  <2>1. a \in [type : {"RegistrationResponse"}, epoch : Epochs, list : Lists, ip : Ips]
    BY <1>1, <1>5
  <2> QED
    BY <1>2, <1>3, <1>5, <2>1 DEF Replies
<1>6. CASE a \in [type : {"Pong"}, epoch : {srv.epoch}]
  <2>1. a \in [type : {"Pong"}, epoch : Epochs] /\ a.type = "Pong"
    BY <1>1, <1>6
  <2> QED
    BY <1>3, <2>1 DEF Replies, ListTypes
<1>7. CASE /\ request = "PullDeviceList"
           /\ a \in [type : {"PushDeviceList"}, epoch : {srv.epoch}, list : {srv.list}]
  <2>1. srv' = srv
    BY <1>7 DEF After
  <2>2. a \in [type : {"PushDeviceList"}, epoch : Epochs, list : Lists]
    BY <1>1, <1>7
  <2> QED
    BY <1>3, <1>7, <2>1, <2>2 DEF Replies
<1> QED
  BY <1>4, <1>5, <1>6, <1>7 DEF Answers, Requests

(* Sending adds at most one reply, and what is on its way stays true. *)
SentOk(n) ==
    ServerInv' /\ Grows /\ net' \in Seq(Truths') /\ Len(net') <= Len(n) + 1

LEMMA NothingSent ==
    ASSUME ServerInv, NEW n \in Seq(Truths), net' = n, UNCHANGED <<srv, changes, crashes>>
    PROVE  SentOk(n)
<1>1. ServerInv' /\ Grows
  BY DEF ServerInv, Counted, Grows
<1>2. Truths \subseteq Truths'
  BY <1>1, TruthsStay
<1> QED
  BY <1>1, <1>2 DEF SentOk

LEMMA SendStep ==
    ASSUME ServerInv, NEW n \in Seq(Truths), NEW request \in Requests,
           Send(n, request), UNCHANGED <<changes, crashes>>
    PROVE  SentOk(n)
<1>1. CASE /\ srv' = After(request)
           /\ \E a \in Answers(request) : net' = Append(n, a)
  <2>1. ServerInv' /\ Grows
    BY <1>1, AfterRequest
  <2>2. Truths \subseteq Truths' /\ Answers(request) \subseteq Truths'
    BY <1>1, <2>1, TruthsStay, AnswersAreTrue
  <2> QED
    BY <1>1, <2>1, <2>2 DEF SentOk
<1>2. CASE net' = n /\ UNCHANGED srv
  BY <1>2, NothingSent
<1>3. CASE net' = Append(n, Plain("Error")) /\ UNCHANGED srv
  <2>1. ServerInv' /\ Grows
    BY <1>3 DEF ServerInv, Counted, Grows
  <2>2. Truths \subseteq Truths' /\ Plain("Error") \in Truths'
    BY <2>1, TruthsStay DEF Truths, Replies, Plain, ListTypes
  <2> QED
    BY <1>3, <2>1, <2>2 DEF SentOk
<1> QED
  BY <1>1, <1>2, <1>3 DEF Send, SendNothing, Trouble

LEMMA HandshakeStep ==
    ASSUME ServerInv, NEW n \in Seq(Truths), HandshakeSend(n), UNCHANGED <<changes, crashes>>
    PROVE  SentOk(n) /\ recent' = recent \cup {"handshake"}
BY SendStep, NothingSent DEF HandshakeSend, SendNothing, Requests

LEMMA RegisterStep ==
    ASSUME ServerInv, net \in Seq(Truths), NEW seen, Register(seen), UNCHANGED <<changes, crashes>>
    PROVE  SentOk(net)
BY SendStep, NothingSent DEF Register, SendNothing, Requests

-----------------------------------------------------------------------------
(* What the steps leave alone.                                             *)

LEMMA SameServer ==
    ASSUME ServerInv, UNCHANGED <<srv, changes, crashes>>
    PROVE  ServerInv' /\ Grows
BY DEF ServerInv, Counted, Grows

LEMMA ListStays ==
    ASSUME Inv, ServerInv', Grows, UNCHANGED <<epoch, list>>
    PROVE  (epoch # 0 => Told(epoch, list))'
<1>1. epoch \in Epochs /\ (epoch # 0 => Told(epoch, list))
  BY DEF Inv, ClientInv
<1>2. epoch # 0 => Told(epoch, list)'
  BY <1>1, ToldStays DEF Inv
<1> QED
  BY <1>2

LEMMA RxStays ==
    ASSUME Inv, ServerInv', Grows, UNCHANGED rx
    PROVE  RxInv'
<1>1. Truths \subseteq Truths'
  BY TruthsStay DEF Inv
<1> QED
  BY <1>1 DEF Inv, RxInv, Busy, Free

LEMMA NetStays ==
    ASSUME Inv, ServerInv', Grows, UNCHANGED net, rx = Free => rx' = Free
    PROVE  NetInv'
<1>1. Truths \subseteq Truths'
  BY TruthsStay DEF Inv
<1>2. net \in Seq(Truths) /\ Len(net) + Reserve <= MAX_FLIGHT + 2
  BY DEF Inv, NetInv
<1>3. Len(net) \in Nat /\ MAX_FLIGHT \in Nat
  BY <1>2, BoundsAssumption
<1>4. Reserve \in {0, 1} /\ Reserve' \in {0, 1} /\ (Reserve = 0 => Reserve' = 0)
  BY DEF Reserve, Free
<1>5. net' \in Seq(Truths')
  BY <1>1, <1>2
<1> QED
  BY <1>2, <1>3, <1>4, <1>5 DEF NetInv

(* A packet that is handled to its end. *)
LEMMA Handled ==
    ASSUME Inv, rx # Free, rx' = Free, SentOk(net)
    PROVE  RxInv' /\ NetInv'
<1>1. net \in Seq(Truths) /\ Len(net) + 1 <= MAX_FLIGHT + 2
  BY DEF Inv, NetInv, Reserve
<1>2. net' \in Seq(Truths') /\ Len(net') <= Len(net) + 1
  BY DEF SentOk
<1>3. Len(net) \in Nat /\ Len(net') \in Nat /\ MAX_FLIGHT \in Nat
  BY <1>1, <1>2, BoundsAssumption
<1>4. Reserve' = 0
  BY DEF Reserve, Free
<1>5. Len(net') + Reserve' <= MAX_FLIGHT + 2
  BY <1>1, <1>2, <1>3, <1>4
<1> QED
  BY <1>2, <1>5 DEF NetInv, RxInv, Free

(* A packet of a task, while there is room. *)
LEMMA TaskSent ==
    ASSUME Inv, Room, UNCHANGED rx, SentOk(net)
    PROVE  RxInv' /\ NetInv'
<1>1. net \in Seq(Truths) /\ Len(net) < MAX_FLIGHT
  BY DEF Inv, NetInv, Room
<1>2. net' \in Seq(Truths') /\ Len(net') <= Len(net) + 1
  BY DEF SentOk
<1>3. Len(net) \in Nat /\ Len(net') \in Nat /\ MAX_FLIGHT \in Nat
  BY <1>1, <1>2, BoundsAssumption
<1>4. Reserve' \in {0, 1}
  BY DEF Reserve
<1>5. Len(net') + Reserve' <= MAX_FLIGHT + 2
  BY <1>1, <1>2, <1>3, <1>4
<1>6. RxInv'
  BY RxStays DEF SentOk
<1> QED
  BY <1>2, <1>5, <1>6 DEF NetInv

-----------------------------------------------------------------------------
(* The steps of the receiving thread.                                      *)

LEMMA ReceiveStep ==
    ASSUME Inv, Receive
    PROVE  Inv'
<1>1. ServerInv' /\ Grows
  BY SameServer DEF Inv, Receive, bounds
<1>2. Truths \subseteq Truths'
  BY <1>1, TruthsStay DEF Inv
<1>3. net \in Seq(Truths) /\ net # <<>> /\ Len(net) + 0 <= MAX_FLIGHT + 2
  BY DEF Inv, NetInv, Receive, Reserve
<1>4. /\ Head(net) \in Truths /\ Tail(net) \in Seq(Truths) /\ Len(net) \in Nat
      /\ Len(Tail(net)) = Len(net) - 1
  BY <1>3
<1>5. rx' = [at |-> "handle", msg |-> Head(net), seen |-> status] /\ net' = Tail(net)
  BY DEF Receive
<1>6. RxInv'
  BY <1>2, <1>4, <1>5 DEF RxInv, Busy, Inv, ClientInv, Receive
<1>7. NetInv'
  <2>1. Reserve' = 1
    BY <1>5 DEF Reserve, Free
  <2>2. net' \in Seq(Truths')
    BY <1>2, <1>4, <1>5
  <2> QED
    BY <1>3, <1>4, <1>5, <2>1, <2>2, BoundsAssumption DEF NetInv
<1>8. ClientInv'
  <2>1. (epoch # 0 => Told(epoch, list))'
    BY <1>1, ListStays DEF Receive
  <2> QED
    BY <2>1 DEF Inv, ClientInv, Receive
<1> QED
  BY <1>1, <1>6, <1>7, <1>8 DEF Inv

(* The handlers that send, or only end. *)
LEMMA SendingHandlers ==
    ASSUME Inv,
           \/ HandleHandshakeResponse \/ HandleSecretHandshakeResponse \/ HandleNoKey
           \/ HandleDisconnect \/ HandleError \/ HandlePong
    PROVE  Inv'
<1>1. ServerInv /\ net \in Seq(Truths)
  BY DEF Inv, NetInv
<1>2. rx # Free /\ rx' = Free
  BY DEF HandleHandshakeResponse, HandleSecretHandshakeResponse, HandleNoKey,
         HandleDisconnect, HandleError, HandlePong, Handling, Free
<1>3. SentOk(net)
  <2>1. CASE HandleHandshakeResponse
    BY <1>1, <2>1, SendStep, RegisterStep DEF HandleHandshakeResponse, Requests
  <2>2. CASE HandleSecretHandshakeResponse
    BY <1>1, <2>2, RegisterStep DEF HandleSecretHandshakeResponse
  <2>3. CASE HandleNoKey
    BY <1>1, <2>3, SendStep, NothingSent DEF HandleNoKey, SendNothing, Requests
  <2>4. CASE HandleDisconnect
    BY <1>1, <2>4, HandshakeStep DEF HandleDisconnect
  <2>5. CASE HandleError
    BY <1>1, <2>5, NothingSent DEF HandleError, bounds
  <2>6. CASE HandlePong
    BY <1>1, <2>6, SendStep, NothingSent DEF HandlePong, SendNothing, Requests
  <2> QED
    BY <2>1, <2>2, <2>3, <2>4, <2>5, <2>6
<1>4. ServerInv' /\ Grows
  BY <1>3 DEF SentOk
<1>5. RxInv' /\ NetInv'
  BY <1>2, <1>3, Handled
<1>6. ClientInv'
  <2>1. CASE HandleDisconnect
    <3>1. status' = "Connecting" /\ epoch' = 0 /\ recent' = recent \cup {"handshake"}
      BY <1>1, <2>1, HandshakeStep DEF HandleDisconnect
    <3>2. 0 \in Epochs /\ "handshake" \in Limiters
      BY BoundsAssumption DEF Epochs, Limiters
    <3> QED
      BY <2>1, <3>1, <3>2 DEF Inv, ClientInv, HandleDisconnect, Statuses
  <2>2. CASE ~ HandleDisconnect
    <3>1. UNCHANGED <<secret, status, ip, epoch, list, idle>>
      BY <2>2 DEF HandleHandshakeResponse, HandleSecretHandshakeResponse, HandleNoKey,
                  HandleError, HandlePong, clientVars
    <3>2. (epoch # 0 => Told(epoch, list))'
      BY <1>4, <3>1, ListStays
    <3>3. rsa' \in BOOLEAN /\ recent' \subseteq Limiters /\ route' \in {"none", "fresh", "silent"}
      BY <2>2 DEF Inv, ClientInv, HandleHandshakeResponse, HandleSecretHandshakeResponse,
                  HandleNoKey, HandleError, HandlePong, clientVars, Limiters
    <3> QED
      BY <3>1, <3>2, <3>3 DEF Inv, ClientInv
  <2> QED
    BY <2>1, <2>2
<1> QED
  BY <1>4, <1>5, <1>6 DEF Inv

(* A registration in its three steps, and a list that was pushed or pulled. *)
LEMMA RegistrationStep ==
    ASSUME Inv, RegistrationAddRoute \/ RegistrationUpdate \/ SetDeviceInfoList
    PROVE  Inv'
<1>1. UNCHANGED <<srv, net, changes, crashes, secret, rsa, recent, idle>>
  BY DEF RegistrationAddRoute, RegistrationUpdate, SetDeviceInfoList, bounds
<1>2. ServerInv' /\ Grows
  BY <1>1, SameServer DEF Inv
<1>3. rx # Free /\ rx \in Busy /\ rx.msg \in Truths
      /\ (rx.at # "handle" => rx.msg.type = "RegistrationResponse")
  BY DEF Inv, RxInv, RegistrationAddRoute, RegistrationUpdate, SetDeviceInfoList,
         Handling, Free, Busy
<1>4. NetInv'
  BY <1>1, <1>2, <1>3, NetStays
<1>5. Truths \subseteq Truths'
  BY <1>2, TruthsStay DEF Inv
<1>6. CASE RegistrationAddRoute
  <2>1. (epoch # 0 => Told(epoch, list))'
    BY <1>2, <1>6, ListStays DEF RegistrationAddRoute
  <2>2. ClientInv'
    BY <1>6, <2>1 DEF Inv, ClientInv, RegistrationAddRoute
  <2>3. RxInv'
    BY <1>3, <1>5, <1>6 DEF RegistrationAddRoute, Handling, RxInv, Busy
  <2> QED
    BY <1>2, <1>4, <2>2, <2>3 DEF Inv
<1>7. CASE RegistrationUpdate
  <2>1. (epoch # 0 => Told(epoch, list))'
    BY <1>2, <1>7, ListStays DEF RegistrationUpdate
  <2>2. rx.msg \in Replies /\ rx.msg.type = "RegistrationResponse"
    BY <1>3, <1>7 DEF RegistrationUpdate, Truths
  <2>3. rx.msg.ip \in Ips /\ rx.msg.ip # NoIp
    BY <2>2, NamesAssumption DEF Replies, Plain
  <2>4. ClientInv'
    BY <1>7, <2>1, <2>3 DEF Inv, ClientInv, RegistrationUpdate, Assigned, Statuses
  <2>5. RxInv'
    BY <1>3, <1>5, <1>7 DEF RegistrationUpdate, RxInv, Busy
  <2> QED
    BY <1>2, <1>4, <2>4, <2>5 DEF Inv
<1>8. CASE SetDeviceInfoList
  <2>1. rx.msg \in Replies /\ rx.msg.type \in ListTypes /\ Told(rx.msg.epoch, rx.msg.list)
    BY <1>3, <1>8 DEF SetDeviceInfoList, Handling, Truths, ListTypes
  <2>2. rx.msg.epoch \in Epochs /\ rx.msg.list \in Lists
    BY <2>1 DEF Replies, Plain, ListTypes
  <2>3. epoch' = rx.msg.epoch /\ list' = rx.msg.list
    BY <1>8 DEF SetDeviceInfoList, EpochOfList
  <2>4. Told(epoch, list)'
    BY <1>1, <2>1, <2>3 DEF Told
  <2>5. ClientInv'
    BY <1>8, <2>2, <2>3, <2>4 DEF Inv, ClientInv, SetDeviceInfoList
  <2>6. RxInv'
    BY <1>8 DEF SetDeviceInfoList, RxInv, Free
  <2> QED
    BY <1>2, <1>4, <2>5, <2>6 DEF Inv
<1> QED
  BY <1>6, <1>7, <1>8

-----------------------------------------------------------------------------
(* The scheduler thread, and time.                                         *)
LEMMA TaskStep ==
    ASSUME Inv, \/ IdleGateway \/ Heartbeat \/ IdleRoute \/ Silence
                \/ \E x \in Limiters : LimiterExpires(x)
    PROVE  Inv'
<1>1. ServerInv /\ net \in Seq(Truths)
  BY DEF Inv, NetInv
<1>2. CASE IdleGateway
  <2>1. SentOk(net) /\ recent' = recent \cup {"handshake"}
    BY <1>1, <1>2, HandshakeStep DEF IdleGateway
  <2>2. RxInv' /\ NetInv' /\ ServerInv' /\ Grows
    BY <1>2, <2>1, TaskSent DEF IdleGateway, SentOk
  <2>3. (epoch # 0 => Told(epoch, list))'
    BY <1>2, <2>2, ListStays DEF IdleGateway
  <2>4. ClientInv'
    BY <1>2, <2>1, <2>3 DEF Inv, ClientInv, IdleGateway, Limiters
  <2> QED
    BY <2>2, <2>4 DEF Inv
<1>3. CASE Heartbeat
  <2>1. SentOk(net)
    BY <1>1, <1>3, SendStep DEF Heartbeat, Requests
  <2>2. RxInv' /\ NetInv' /\ ServerInv' /\ Grows
    BY <1>3, <2>1, TaskSent DEF Heartbeat, SentOk
  <2>3. (epoch # 0 => Told(epoch, list))'
    BY <1>3, <2>2, ListStays DEF Heartbeat, clientVars
  <2>4. ClientInv'
    BY <1>3, <2>3 DEF Inv, ClientInv, Heartbeat, clientVars
  <2> QED
    BY <2>2, <2>4 DEF Inv
<1>4. CASE IdleRoute \/ Silence \/ \E x \in Limiters : LimiterExpires(x)
  <2>1. UNCHANGED <<srv, net, rx, changes, crashes, epoch, list>>
    BY <1>4 DEF IdleRoute, NextIdle, RemoveRoute, ChangeStatus, Silence, LimiterExpires,
                clientVars, bounds
  <2>2. ServerInv' /\ Grows
    BY <2>1, SameServer DEF Inv
  <2>3. RxInv' /\ NetInv'
    BY <2>1, <2>2, RxStays, NetStays
  <2>4. (epoch # 0 => Told(epoch, list))'
    BY <2>1, <2>2, ListStays
  <2>5. ClientInv'
    BY <1>4, <2>4 DEF Inv, ClientInv, Statuses, IdleRoute, NextIdle, RemoveRoute, ChangeStatus,
                      Silence, LimiterExpires, clientVars
  <2> QED
    BY <2>2, <2>3, <2>5 DEF Inv
<1> QED
  BY <1>2, <1>3, <1>4

-----------------------------------------------------------------------------
(* The network and the server.                                             *)
LEMMA RemoveAtKeeps ==
    ASSUME NEW S, NEW s \in Seq(S), NEW i \in DOMAIN s
    PROVE  RemoveAt(s, i) \in Seq(S) /\ Len(RemoveAt(s, i)) = Len(s) - 1 /\ s[i] \in S
<1> DEFINE before == SubSeq(s, 1, i - 1)
           after == SubSeq(s, i + 1, Len(s))
<1>1. i \in 1 .. Len(s) /\ Len(s) \in Nat /\ s[i] \in S
  OBVIOUS
<1>2. before \in Seq(S) /\ Len(before) = i - 1
  BY <1>1
<1>3. after \in Seq(S) /\ Len(after) = Len(s) - i
  BY <1>1
<1>4. RemoveAt(s, i) = before \o after
  BY DEF RemoveAt
<1> HIDE DEF before, after
<1>5. before \o after \in Seq(S) /\ Len(before \o after) = Len(before) + Len(after)
  BY <1>2, <1>3, SMTT(60)
<1> QED
  BY <1>1, <1>2, <1>3, <1>4, <1>5

LEMMA DisturbStep ==
    ASSUME Inv, Disturb
    PROVE  Inv'
<1>1. ServerInv' /\ Grows
  BY SameServer DEF Inv, Disturb
<1>2. Truths \subseteq Truths'
  BY <1>1, TruthsStay DEF Inv
<1>3. net \in Seq(Truths) /\ Len(net) + Reserve <= MAX_FLIGHT + 2 /\ Reserve \in {0, 1}
  BY DEF Inv, NetInv, Reserve
<1>4. PICK i \in DOMAIN net : Lose(i) \/ Overtake(i) \/ Duplicate(i)
  BY DEF Disturb
<1>5. /\ RemoveAt(net, i) \in Seq(Truths) /\ Len(RemoveAt(net, i)) = Len(net) - 1
      /\ net[i] \in Truths
  BY <1>3, <1>4, RemoveAtKeeps
<1>6. Len(net) \in Nat /\ MAX_FLIGHT \in Nat
  BY <1>3, BoundsAssumption
<1>7. net' \in Seq(Truths) /\ (Len(net') <= Len(net) \/ Len(net') <= MAX_FLIGHT + 1)
  <2> HIDE DEF RemoveAt
  <2>1. CASE Lose(i)
    BY <1>5, <1>6, <2>1 DEF Lose
  <2>2. CASE Overtake(i)
    <3> DEFINE r == RemoveAt(net, i)
    <3>1. net' = <<net[i]>> \o r
      BY <2>2 DEF Overtake
    <3>2. r \in Seq(Truths) /\ Len(r) = Len(net) - 1 /\ <<net[i]>> \in Seq(Truths)
      BY <1>5
    <3> HIDE DEF r
    <3>3. <<net[i]>> \o r \in Seq(Truths) /\ Len(<<net[i]>> \o r) = 1 + Len(r)
      BY <3>2
    <3> QED
      BY <1>6, <3>1, <3>2, <3>3
  <2>3. CASE Duplicate(i)
    BY <1>3, <1>5, <1>6, <2>3 DEF Duplicate
  <2> QED
    BY <1>4, <2>1, <2>2, <2>3
<1>8. NetInv'
  <2>1. Reserve' = Reserve
    BY DEF Disturb, Reserve
  <2>2. net' \in Seq(Truths') /\ Len(net') \in Nat
    BY <1>2, <1>7
  <2> QED
    BY <1>3, <1>6, <1>7, <2>1, <2>2 DEF NetInv
<1>9. RxInv' /\ ClientInv'
  <2>1. RxInv'
    BY <1>1, RxStays DEF Disturb
  <2>2. (epoch # 0 => Told(epoch, list))'
    BY <1>1, ListStays DEF Disturb, clientVars
  <2> QED
    BY <2>1, <2>2 DEF Inv, ClientInv, Disturb, clientVars
<1> QED
  BY <1>1, <1>8, <1>9 DEF Inv

LEMMA ServerStep ==
    ASSUME Inv, ListChanges \/ Crash \/ Restart
    PROVE  Inv'
<1>1. UNCHANGED <<secret, clientVars, rx, idle>>
  BY DEF ListChanges, Crash, Restart
<1>2. /\ srv \in ServerType /\ srv.epoch \in Int /\ srv.reg \in BOOLEAN
      /\ changes \in 0 .. MAX_CHANGES /\ crashes \in 0 .. MAX_CRASHES
      /\ MAX_CHANGES \in Nat /\ MAX_CRASHES \in Nat
  BY BoundsAssumption DEF Inv, ServerInv, ServerType, Epochs
<1>3. ServerInv' /\ Grows
  <2>1. CASE ListChanges
    <3>1. PICK l \in Lists : srv' = [srv EXCEPT !.epoch = NextEpoch(@), !.list = l]
      BY <2>1 DEF ListChanges
    <3>2. /\ srv' \in ServerType /\ srv'.epoch = NextEpoch(srv.epoch) /\ srv'.reg = srv.reg
      BY <1>2, <3>1, EpochGrows DEF Inv, ServerType
    <3>3. changes < MAX_CHANGES /\ changes' = changes + 1 /\ crashes' = crashes
      BY <2>1 DEF ListChanges
    <3>4. NoWrap => srv'.epoch = srv.epoch + 1
      BY <3>2, <3>3, EpochGrows DEF Inv
    <3>5. Counted' = Counted /\ Counted \in {0, 1}
      BY <3>2 DEF Counted
    <3> QED
      BY <1>2, <3>2, <3>3, <3>4, <3>5 DEF Inv, ServerInv, Grows
  <2>2. CASE Crash
    <3>1. /\ srv' \in ServerType /\ srv'.epoch = srv.epoch /\ srv'.list = srv.list /\ ~ srv'.reg
      BY <1>2, <2>2 DEF Crash, ServerType
    <3>2. Counted' = 0 /\ Counted \in {0, 1}
      BY <3>1 DEF Counted
    <3> QED
      BY <1>2, <2>2, <3>1, <3>2 DEF Crash, Inv, ServerInv, Grows
  <2>3. CASE Restart
    <3>1. /\ srv' \in ServerType /\ srv'.epoch = srv.epoch /\ srv'.list = srv.list
          /\ srv'.reg = srv.reg
      BY <1>2, <2>3 DEF Restart, ServerType
    <3>2. Counted' = Counted
      BY <3>1 DEF Counted
    <3> QED
      BY <1>2, <2>3, <3>1, <3>2 DEF Restart, Inv, ServerInv, Grows, bounds
  <2> QED
    BY <2>1, <2>2, <2>3
<1>4. RxInv'
  BY <1>1, <1>3, RxStays
<1>5. ClientInv'
  <2>1. (epoch # 0 => Told(epoch, list))'
    BY <1>1, <1>3, ListStays DEF clientVars
  <2> QED
    BY <1>1, <2>1 DEF Inv, ClientInv, clientVars
<1>6. NetInv'
  <2>1. CASE UNCHANGED net
    BY <1>1, <1>3, <2>1, NetStays
  <2>2. CASE ListChanges /\ ~ UNCHANGED net
    <3> DEFINE m == [type |-> "PushDeviceList", epoch |-> srv'.epoch, list |-> srv'.list]
    <3>1. Room /\ net' = Append(net, m)
      BY <2>2 DEF ListChanges
    <3>2. srv'.epoch \in Epochs /\ srv'.list \in Lists /\ srv'.epoch \in Int
      BY <1>3, BoundsAssumption DEF ServerInv, ServerType, Epochs
    <3>3. m \in Truths'
      <4>1. m \in [type : {"PushDeviceList"}, epoch : Epochs, list : Lists]
        BY <3>2
      <4> QED
        BY <3>2, <4>1 DEF Truths, Told, Replies
    <3> HIDE DEF m
    <3>4. Truths \subseteq Truths' /\ net \in Seq(Truths)
      BY <1>3, TruthsStay DEF Inv, NetInv
    <3>5. net' \in Seq(Truths') /\ Len(net') = Len(net) + 1
      BY <3>1, <3>3, <3>4
    <3>6. SentOk(net)
      BY <1>3, <3>4, <3>5 DEF SentOk
    <3> QED
      BY <1>1, <3>1, <3>6, TaskSent
  <2> QED
    BY <2>1, <2>2 DEF Crash, Restart
<1> QED
  BY <1>3, <1>4, <1>5, <1>6 DEF Inv

-----------------------------------------------------------------------------
LEMMA NextInv == Inv /\ [Next]_vars => Inv'
<1> SUFFICES ASSUME Inv, [Next]_vars PROVE Inv'
  OBVIOUS
<1>1. CASE UNCHANGED vars
  <2>1. UNCHANGED <<srv, changes, crashes, net, rx, secret, clientVars, idle>>
    BY <1>1 DEF vars, bounds
  <2>2. ServerInv' /\ Grows
    BY <2>1, SameServer DEF Inv
  <2>3. RxInv' /\ NetInv'
    BY <2>1, <2>2, RxStays, NetStays
  <2>4. (epoch # 0 => Told(epoch, list))'
    BY <2>1, <2>2, ListStays DEF clientVars
  <2> QED
    BY <2>1, <2>2, <2>3, <2>4 DEF Inv, ClientInv, clientVars
<1>2. CASE Receive
  BY <1>2, ReceiveStep
<1>3. CASE Handle
  BY <1>3, SendingHandlers, RegistrationStep DEF Handle
<1>4. CASE \/ IdleGateway \/ Heartbeat \/ IdleRoute \/ Silence
           \/ \E x \in Limiters : LimiterExpires(x)
  BY <1>4, TaskStep
<1>5. CASE Disturb
  BY <1>5, DisturbStep
<1>6. CASE ListChanges \/ Crash \/ Restart
  BY <1>6, ServerStep
<1> QED
  BY <1>1, <1>2, <1>3, <1>4, <1>5, <1>6 DEF Next

(* The strengthening: replies in flight, the packet being handled and the  *)
(* client's own epoch are never ahead of the server and carry its list     *)
(* when they carry its epoch.                                              *)
THEOREM Invariance == Spec => []Inv
<1>1. Init => Inv
  BY InitInv
<1>2. Inv /\ [Next]_vars => Inv'
  BY NextInv
<1> QED
  BY <1>1, <1>2, PTL DEF Spec

(* Every field keeps its type, the replies in flight their bound, and      *)
(* whoever sees Connected in current_device sees an address with it.       *)
THEOREM TypeCorrect == Spec => []TypeOK
BY Invariance, InvTypes, PTL

(* While the epoch does not wrap around, a client at the server's epoch    *)
(* has the server's list (set_device_info_list and the Pong's comparison), *)
(* whatever is lost, late, duplicated or overtaken.                        *)
THEOREM EpochsTell ==
    ASSUME NoWrap
    PROVE  Spec => []SessionSound
<1>1. Inv => SessionSound
  BY InvSound
<1> QED
  BY <1>1, Invariance, PTL

-----------------------------------------------------------------------------
(* The tun device.                                                         *)

Started(d) ==
    thread[d] \in {"spawned", "failed", "polling", "refused", "registered", "reading",
                   "left", "ending", "gone"}
(* The thread reads the device, will read it, or has yet to report. *)
Reader(d) == thread[d] \in {"spawned", "polling", "registered", "reading", "left"}

(* The adapter and the DeviceStop at each place of a receiver. *)
Holds(r) ==
    /\ pc[r] \in {"idle", "update", "stop"} =>
          adapter = device_stop /\ (device_stop # NoDev => Started(device_stop))
    /\ pc[r] \in {"stopping", "check", "create", "insert", "replace"} => device_stop = NoDev
    /\ pc[r] \in {"stopping", "check", "create", "insert"} => adapter = NoDev
    /\ pc[r] \in {"stopping", "check", "insert", "replace"} => dev[r] \in Devices
    /\ pc[r] \in {"stopping", "check"} => Started(dev[r])
    /\ pc[r] \in {"insert", "replace"} => thread[dev[r]] = "created"
    /\ pc[r] = "replace" => adapter = dev[r]
    /\ pc[r] # "panic"

(* Only the device that would be stopped, or is being stopped, is read. *)
ReadersHeld(r) ==
    \A d \in Devices :
        /\ Reader(d) => d = device_stop \/ (pc[r] \in {"stopping", "check"} /\ d = dev[r])
        /\ is_stopped[d] => thread[d] \in {"ending", "gone"}

(* The address of a device follows the one of current_device. *)
Addressed(r) ==
    /\ pc[r] = "update" => old[r] = virtual_ip
    /\ pc[r] \in {"idle", "update"} /\ adapter # NoDev => addr[adapter] = virtual_ip
    /\ pc[r] \in {"stop", "stopping", "check", "create", "insert", "replace"} =>
          virtual_ip = response[r]
    /\ pc[r] \in {"insert", "replace"} => addr[dev[r]] = response[r]

TunInv == TunTypeOK /\ \A r \in Receivers : Holds(r) /\ ReadersHeld(r) /\ Addressed(r)

-----------------------------------------------------------------------------
(* Types, for any number of receivers.                                     *)

LEMMA TunInitTypes == TunInit => TunTypeOK
<1> SUFFICES ASSUME TunInit PROVE TunTypeOK
  OBVIOUS
<1>1. messages \in 0 .. MAX_MESSAGES
  BY DevicesAssumption DEF TunInit
<1>2. \A r \in Receivers : lock = r <=> pc[r] \in {"stopping", "check"}
  BY TunNamesAssumption DEF TunInit
<1>3. {stop_fn, is_stopped, worker, woken} \subseteq [Devices -> BOOLEAN]
  BY DEF TunInit
<1> QED
  BY <1>1, <1>2, <1>3 DEF TunInit, ThreadPlaces, TunTypeOK

LEMMA ReceiverTypes ==
    ASSUME TunTypeOK, NEW r \in Receivers, TakeResponse(r) \/ HandleResponse(r)
    PROVE  TunTypeOK'
<1> USE TunNamesAssumption DEF helperVars, deviceVars, Goto
<1>1. CASE TakeResponse(r)
  <2>1. messages' \in 0 .. MAX_MESSAGES
    BY <1>1, DevicesAssumption DEF TakeResponse, TunTypeOK
  <2>2. {response', old'} \subseteq [Receivers -> TunIps \cup {NoTunIp}]
    BY <1>1 DEF TakeResponse, TunTypeOK
  <2> QED
    BY <1>1, <2>1, <2>2 DEF TakeResponse, TunTypeOK
<1>2. CASE UpdateDevice(r)
  BY <1>2 DEF UpdateDevice, TunTypeOK
<1>3. CASE HelperStopTake(r)
  BY <1>3 DEF HelperStopTake, Removed, TunTypeOK
<1>4. CASE DeviceStopCall(r)
  <2>1. {stop_fn', worker', woken'} \subseteq [Devices -> BOOLEAN]
    <3>1. CASE stop_fn[dev[r]]
      <4> DEFINE b == woken[dev[r]] \/ worker[dev[r]]
      <4>1. woken' = [woken EXCEPT ![dev[r]] = b] /\ woken \in [Devices -> BOOLEAN]
        BY <1>4, <3>1 DEF DeviceStopCall, TunTypeOK
      <4>2. woken' \in [Devices -> BOOLEAN]
        <5>1. b \in BOOLEAN
          OBVIOUS
        <5> HIDE DEF b
        <5> QED
          BY <4>1, <5>1
      <4>3. /\ stop_fn' = [stop_fn EXCEPT ![dev[r]] = FALSE] /\ stop_fn \in [Devices -> BOOLEAN]
            /\ worker' = [worker EXCEPT ![dev[r]] = FALSE] /\ worker \in [Devices -> BOOLEAN]
        BY <1>4, <3>1 DEF DeviceStopCall, TunTypeOK
      <4> QED
        BY <4>2, <4>3
    <3>2. CASE ~ stop_fn[dev[r]]
      BY <1>4, <3>2 DEF DeviceStopCall, TunTypeOK
    <3> QED
      BY <3>1, <3>2
  <2>2. tun_device' \in Devices \cup {NoDev}
    BY <1>4 DEF DeviceStopCall, TunTypeOK
  <2>3. /\ pc' = [pc EXCEPT ![r] = "check"]
        /\ UNCHANGED <<virtual_ip, adapter, device_stop, lock, stopped, is_stopped, thread,
                       addr, response, old, dev, messages>>
    BY <1>4 DEF DeviceStopCall
  <2>4. \A q \in Receivers : lock' = q <=> pc'[q] \in {"stopping", "check"}
    BY <1>4, <2>3 DEF DeviceStopCall, TunTypeOK
  <2> QED
    BY <2>1, <2>2, <2>3, <2>4 DEF TunTypeOK
<1>5. CASE DeviceStopCheck(r)
  BY <1>5 DEF DeviceStopCheck, Unlocked, TunTypeOK
<1>6. CASE CreateDevice(r)
  BY <1>6 DEF CreateDevice, ThreadPlaces, TunTypeOK
<1>7. CASE InsertDevice(r)
  BY <1>7 DEF InsertDevice, TunTypeOK
<1>8. CASE StartDevice(r)
  BY <1>8 DEF StartDevice, Outcome, ThreadPlaces, TunTypeOK
<1> QED
  BY <1>1, <1>2, <1>3, <1>4, <1>5, <1>6, <1>7, <1>8 DEF HandleResponse

LEMMA ThreadTypes ==
    ASSUME TunTypeOK, NEW d \in Devices, Thread(d) \/ Leave(d)
    PROVE  TunTypeOK'
<1> USE DEF helperVars
<1>0. CASE NewPoll(d)
  BY <1>0 DEF NewPoll, Outcome, ThreadPlaces, TunTypeOK
<1>1. CASE AddListener(d)
  <2>1. /\ thread' \in [Devices -> ThreadPlaces]
        /\ worker' \in [Devices -> BOOLEAN] /\ tun_device' \in Devices \cup {NoDev}
    BY <1>1 DEF AddListener, ThreadPlaces, TunTypeOK
  <2> QED
    BY <1>1, <2>1 DEF AddListener, TunTypeOK
<1>2. CASE SetStopFn(d)
  BY <1>2 DEF SetStopFn, ThreadPlaces, TunTypeOK
<1>3. CASE Leave(d)
  BY <1>3 DEF Leave, ThreadPlaces, TunTypeOK
<1>4. CASE DeviceStopped(d)
  BY <1>4 DEF DeviceStopped, Reported, ThreadPlaces, TunTypeOK
<1>5. CASE TakeWorker(d)
  BY <1>5, ZenonT(60) DEF TakeWorker, ThreadPlaces, TunTypeOK
<1> QED
  BY <1>0, <1>1, <1>2, <1>3, <1>4, <1>5 DEF Thread

LEMMA TunNextTypes == TunTypeOK /\ [TunNext]_tunVars => TunTypeOK'
<1> SUFFICES ASSUME TunTypeOK, [TunNext]_tunVars PROVE TunTypeOK'
  OBVIOUS
<1>1. CASE StopAll
  BY <1>1 DEF StopAll, helperVars, TunTypeOK
<1>2. CASE UNCHANGED tunVars
  BY <1>2 DEF tunVars, helperVars, deviceVars, TunTypeOK
<1> QED
  BY <1>1, <1>2, ReceiverTypes, ThreadTypes DEF TunNext

(* TypeOK, with the lock that who waits for a device holds, for any number *)
(* of receivers.                                                           *)
THEOREM TunTypes == TunSpec => []TunTypeOK
BY TunInitTypes, TunNextTypes, PTL DEF TunSpec, tunVars

-----------------------------------------------------------------------------
(* One receiver.                                                           *)

LEMMA TunInitInv == TunInit => TunInv
BY TunInitTypes DEF TunInit, TunInv, Holds, ReadersHeld, Addressed, Reader, Started

LEMMA HandlingStep ==
    ASSUME NEW r, Receivers = {r}, TunInv, TunTypeOK', TakeResponse(r) \/ HandleResponse(r)
    PROVE  TunInv'
<1> USE DEF helperVars, deviceVars, Goto
<1>0. /\ r \in Receivers /\ TunTypeOK /\ Holds(r) /\ ReadersHeld(r) /\ Addressed(r)
      /\ NoDev \notin Devices
  BY NoDevAssumption DEF TunInv
<1>1. /\ pc \in [Receivers -> {"idle", "update", "stop", "stopping", "check",
                               "create", "insert", "replace", "panic"}]
      /\ thread \in [Devices -> ThreadPlaces]
      /\ addr \in [Devices -> TunIps \cup {NoTunIp}] /\ dev \in [Receivers -> Devices \cup {NoDev}]
      /\ {response, old} \subseteq [Receivers -> TunIps \cup {NoTunIp}]
      /\ adapter \in Devices \cup {NoDev} /\ device_stop \in Devices \cup {NoDev}
  BY <1>0 DEF TunTypeOK
<1>2. SUFFICES Holds(r)' /\ ReadersHeld(r)' /\ Addressed(r)'
  BY DEF TunInv
<1>3. CASE TakeResponse(r)
  BY <1>0, <1>1, <1>3 DEF TakeResponse, Holds, ReadersHeld, Addressed, Started, Reader
<1>4. CASE UpdateDevice(r)
  BY <1>0, <1>1, <1>4 DEF UpdateDevice, Changed, Holds, ReadersHeld, Addressed, Started, Reader
<1>5. CASE HelperStopTake(r)
  <2>1. Holds(r)'
    BY <1>0, <1>1, <1>5 DEF HelperStopTake, Removed, Holds, Started
  <2>2. ReadersHeld(r)'
    BY <1>0, <1>1, <1>5 DEF HelperStopTake, ReadersHeld, Reader
  <2>3. Addressed(r)'
    BY <1>0, <1>1, <1>5 DEF HelperStopTake, Addressed
  <2> QED
    BY <2>1, <2>2, <2>3
<1>6. CASE DeviceStopCall(r)
  BY <1>0, <1>1, <1>6 DEF DeviceStopCall, Holds, ReadersHeld, Addressed, Started, Reader
<1>7. CASE DeviceStopCheck(r)
  <2>1. Holds(r)' /\ Addressed(r)'
    BY <1>0, <1>1, <1>7 DEF DeviceStopCheck, Holds, Addressed, Started
  <2>2. ReadersHeld(r)'
    BY <1>0, <1>1, <1>7 DEF DeviceStopCheck, MayLeaveLoop, Holds, ReadersHeld, Reader
  <2> QED
    BY <2>1, <2>2
<1>8. CASE CreateDevice(r)
  <2>1. Holds(r)'
    BY <1>0, <1>1, <1>8 DEF CreateDevice, Holds
  <2>2. ReadersHeld(r)'
    BY <1>0, <1>1, <1>8 DEF CreateDevice, Holds, ReadersHeld, Reader
  <2>3. Addressed(r)'
    BY <1>0, <1>1, <1>8 DEF CreateDevice, Holds, Addressed
  <2> QED
    BY <2>1, <2>2, <2>3
<1>9. CASE InsertDevice(r)
  BY <1>0, <1>1, <1>9 DEF InsertDevice, Holds, ReadersHeld, Addressed, Started, Reader
<1>10. CASE StartDevice(r)
  <2>1. Holds(r)'
    BY <1>0, <1>1, <1>10 DEF StartDevice, Outcome, Holds, Started
  <2>2. ReadersHeld(r)'
    BY <1>0, <1>1, <1>10 DEF StartDevice, Outcome, Holds, ReadersHeld, Reader
  <2>3. Addressed(r)'
    BY <1>0, <1>1, <1>10 DEF StartDevice, Outcome, Holds, Addressed
  <2> QED
    BY <2>1, <2>2, <2>3
<1> QED
  BY <1>3, <1>4, <1>5, <1>6, <1>7, <1>8, <1>9, <1>10 DEF HandleResponse

LEMMA ThreadStep ==
    ASSUME TunInv, TunTypeOK', NEW d \in Devices, Thread(d) \/ Leave(d)
    PROVE  TunInv'
<1>1. thread \in [Devices -> ThreadPlaces]
      /\ is_stopped \in [Devices -> BOOLEAN]
      /\ device_stop \in Devices \cup {NoDev}
  BY DEF TunInv, TunTypeOK
<1>2. UNCHANGED <<virtual_ip, adapter, device_stop, addr, pc, response, old, dev>>
  BY DEF Thread, NewPoll, Outcome, AddListener, SetStopFn, DeviceStopped, TakeWorker, Leave, helperVars
<1>3. \A e \in Devices : Reader(e)' => Reader(e)
  BY <1>1 DEF Thread, NewPoll, Outcome, AddListener, SetStopFn, DeviceStopped, TakeWorker, Leave, Reader
<1>4. /\ \A e \in Devices : Started(e) => Started(e)'
      /\ \A e \in Devices : thread[e] = "created" => thread'[e] = "created"
  BY <1>1 DEF Thread, NewPoll, Outcome, AddListener, SetStopFn, DeviceStopped, TakeWorker, Leave, Started
<1>5. ASSUME NEW e \in Devices,
             is_stopped[e] => thread[e] \in {"ending", "gone"}, is_stopped'[e]
      PROVE  thread'[e] \in {"ending", "gone"}
  BY <1>1, <1>5
  DEF Thread, NewPoll, Outcome, AddListener, SetStopFn, DeviceStopped, Reported, TakeWorker, Leave
<1>6. ASSUME NEW r \in Receivers
      PROVE  Holds(r)' /\ ReadersHeld(r)' /\ Addressed(r)'
  <2>1. Holds(r) /\ ReadersHeld(r) /\ Addressed(r)
    BY DEF TunInv
  <2>2. Holds(r)'
    BY <1>1, <1>2, <1>4, <2>1 DEF Holds
  <2>3. ReadersHeld(r)'
    BY <1>2, <1>3, <1>5, <2>1 DEF ReadersHeld
  <2>4. Addressed(r)'
    BY <1>2, <2>1 DEF Addressed
  <2> QED
    BY <2>2, <2>3, <2>4
<1> QED
  BY <1>6 DEF TunInv

LEMMA TunNextInv ==
    ASSUME NEW r, Receivers = {r}
    PROVE  TunInv /\ [TunNext]_tunVars => TunInv'
<1> SUFFICES ASSUME TunInv, [TunNext]_tunVars PROVE TunInv'
  OBVIOUS
<1>0. TunTypeOK'
  BY TunNextTypes DEF TunInv
<1>1. CASE StopAll \/ UNCHANGED tunVars
  BY <1>0, <1>1 DEF StopAll, tunVars, helperVars, deviceVars, TunInv, Holds, ReadersHeld,
                    Addressed, Started, Reader
<1>2. CASE TakeResponse(r) \/ HandleResponse(r)
  BY <1>0, <1>2, HandlingStep
<1>3. ASSUME NEW d \in Devices, Thread(d) \/ Leave(d)
      PROVE  TunInv'
  BY <1>0, <1>3, ThreadStep
<1> QED
  BY <1>1, <1>2, <1>3 DEF TunNext

(* The inductive invariant holds in every state while one thread handles   *)
(* the responses.                                                          *)
THEOREM TunInvariance ==
    ASSUME NEW r, Receivers = {r}
    PROVE  TunSpec => []TunInv
<1>1. TunInv /\ [TunNext]_tunVars => TunInv'
  BY TunNextInv
<1> QED
  BY <1>1, TunInitInv, PTL DEF TunSpec, tunVars

(* OneAtATime for any number of devices, addresses and responses: with one *)
(* receiver "remove before insert" and "stop before start" never fail, and *)
(* two threads never read a device at the same time, wherever the old      *)
(* thread is when it is stopped and whether or not it fails by itself.     *)
THEOREM OneReader ==
    ASSUME NEW r, Receivers = {r}
    PROVE  TunSpec => []OneAtATime
<1>1. TunInv => OneAtATime
  <2> SUFFICES ASSUME TunInv PROVE OneAtATime
    OBVIOUS
  <2>1. \A d \in Devices : Live(d) => Reader(d)
    BY DEF Live, Reader
  <2>2. Holds(r) /\ ReadersHeld(r) /\ TunTypeOK
    BY DEF TunInv
  <2>3. OneDeviceLive
    BY <2>1, <2>2, NoDevAssumption DEF OneDeviceLive, Holds, ReadersHeld
  <2>4. NoAssertionFails
    BY <2>2 DEF NoAssertionFails, Holds
  <2> QED
    BY <2>2, <2>3, <2>4 DEF OneAtATime
<1>2. TunSpec => []TunInv
  BY TunInvariance
<1> QED
  BY <1>1, <1>2, PTL

(* DeviceHasCurrentIp for any number of devices and responses: when no     *)
(* response is being handled, packets are written to a device with the     *)
(* current address, and it is the device that the next change will stop.   *)
THEOREM CurrentIp ==
    ASSUME NEW r, Receivers = {r}
    PROVE  TunSpec => []DeviceHasCurrentIp
<1>1. TunInv => DeviceHasCurrentIp
  BY DEF TunInv, Holds, Addressed, DeviceHasCurrentIp
<1>2. TunSpec => []TunInv
  BY TunInvariance
<1> QED
  BY <1>1, <1>2, PTL
=============================================================================
