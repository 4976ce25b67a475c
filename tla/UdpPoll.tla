------------------------------ MODULE UdpPoll ------------------------------
(***************************************************************************)
(* The two poll loops that read the UDP sockets (channel/udp_channel.rs):  *)
(* main_udp_listen0 over the fixed main sockets and sub_udp_listen0 over   *)
(* the sockets of a symmetric NAT, which ContextInner::switch replaces     *)
(* while the loop runs (channel/context.rs), through a bounded channel and *)
(* the flag word of AcceptNotify (channel/notify.rs).                      *)
(*                                                                         *)
(* A set of sockets is a number, 0 the empty one; a socket is <<set, i>>.  *)
(* Readiness is edge-triggered: a datagram, or the registration of a       *)
(* socket with datagrams waiting, makes it ready once.                     *)
(***************************************************************************)
EXTENDS Integers, Sequences, FiniteSets

CONSTANTS
    SOCKETS,         \* sockets in a set
    CAPACITY,        \* sync_channel(64)
    Switchers,       \* natTest threads that call switch
    MAX_SETS,        \* bound: sets of sockets bound in one behaviour
    MAX_DATAGRAMS,   \* bound: datagrams that arrive in one behaviour
    NoThread

ASSUME PollAssumption ==
    /\ {SOCKETS, CAPACITY, MAX_SETS, MAX_DATAGRAMS} \subseteq Nat
    /\ SOCKETS > 0 /\ MAX_SETS > 0
ASSUME ThreadAssumption == NoThread \notin Switchers

Sets == 0 .. MAX_SETS
Indexes == 0 .. SOCKETS - 1
Sockets == (1 .. MAX_SETS) \X Indexes
NOTIFY == 0
Tokens == 0 .. SOCKETS

VARIABLES
    loop,        \* the loop in question: main_udp_listen0 or sub_udp_listen0
    list,        \* the sockets the loop has registered
    sub,         \* sub_udp_socket
    lock,        \* the switcher in its write-locked section
    made,        \* sets bound so far
    chan,        \* accept channel: sets that replace the list
    stop_bit, add_bit,   \* AcceptNotify.state, 0b001 and 0b100
    woke,        \* poll would report the waker
    ready,       \* poll would report these sockets
    batch,       \* tokens of the events still to be handled
    inbox,       \* inbox[s]: datagrams waiting in socket s
    arrived,     \* datagrams that have arrived so far
    pc,          \* where the loop is
    reading,     \* the index the loop reads
    switching,   \* switching[t]: where switcher t is
    wanted,      \* wanted[t]: the set it installs
    stopper      \* where the stop listener is

notifyVars == <<stop_bit, add_bit>>
switchVars == <<sub, lock, made, switching, wanted>>
loopVars == <<list, pc, reading, batch>>
netVars == <<inbox, arrived>>
pollVars == <<woke, ready>>
udpVars == <<loop, switchVars, loopVars, netVars, notifyVars, chan, pollVars, stopper>>

(* The token of socket 0. *)
FIRST_TOKEN == IF loop = "main" THEN 1 ELSE 0
Registered == {s \in Sockets : s[1] = list}
TokenOf(s) == FIRST_TOKEN + s[2]

-----------------------------------------------------------------------------
(* switch                                                                  *)

(* The write lock, the early returns, and the binding of a new set; an     *)
(* error of bind_udp returns as well.                                      *)
SwitchBegin(t) ==
    /\ loop = "sub" /\ switching[t] = "idle" /\ lock = NoThread
    /\ \/ /\ sub = 0 /\ made < MAX_SETS           \* NatType::Symmetric
          /\ made' = made + 1
          /\ wanted' = [wanted EXCEPT ![t] = made + 1]
       \/ /\ sub # 0                              \* NatType::Cone
          /\ wanted' = [wanted EXCEPT ![t] = 0]
          /\ UNCHANGED made
    /\ lock' = t
    /\ switching' = [switching EXCEPT ![t] = "send"]
    /\ UNCHANGED <<loop, sub, loopVars, netVars, notifyVars, chan, pollVars, stopper>>

(* A send that does not see a full channel. *)
FitsAlways == pc # "returned"
Fits == Len(chan) < CAPACITY /\ pc # "returned"
(* try_add_socket: try_send, whose error leaves sub_udp_socket as it was. *)
SwitchSend(t) ==
    /\ switching[t] = "send"
    /\ IF Fits
       THEN /\ chan' = Append(chan, wanted[t])
            /\ switching' = [switching EXCEPT ![t] = "notify"]
            /\ UNCHANGED lock
       ELSE /\ switching' = [switching EXCEPT ![t] = "idle"]
            /\ lock' = NoThread
            /\ UNCHANGED chan
    /\ UNCHANGED <<loop, sub, made, wanted, loopVars, netVars, notifyVars,
                   pollVars, stopper>>

(* add_socket without the wake-up of the poll. *)
AddWithoutWake == woke
Woken == TRUE
SwitchNotify(t) ==
    /\ switching[t] = "notify"
    /\ add_bit' = TRUE
    /\ switching' = [switching EXCEPT ![t] = "wake"]
    /\ UNCHANGED <<loop, sub, lock, made, wanted, loopVars, netVars, stop_bit,
                   chan, pollVars, stopper>>
(* mio's Waker is external: a write to its own event descriptor, which is  *)
(* taken to succeed.                                                       *)
SwitchWake(t) ==
    /\ switching[t] = "wake"
    /\ woke' = Woken
    /\ switching' = [switching EXCEPT ![t] = "commit"]
    /\ UNCHANGED <<loop, sub, lock, made, wanted, loopVars, netVars, notifyVars,
                   chan, ready, stopper>>

(* A switch that only asks the loop. *)
SubUnchanged(t) == sub
Committed(t) == wanted[t]
SwitchCommit(t) ==
    /\ switching[t] = "commit"
    /\ sub' = Committed(t)
    /\ lock' = NoThread
    /\ switching' = [switching EXCEPT ![t] = "idle"]
    /\ UNCHANGED <<loop, made, wanted, loopVars, netVars, notifyVars, chan,
                   pollVars, stopper>>

-----------------------------------------------------------------------------
(* The stop listener: AcceptNotify::stop, or waker.wake() for the main     *)
(* loop.                                                                   *)
StopStore ==
    /\ stopper = "idle"
    /\ stop_bit' = TRUE /\ add_bit' = FALSE
    /\ stopper' = "wake"
    /\ UNCHANGED <<loop, switchVars, loopVars, netVars, chan, pollVars>>
StopWake ==
    /\ stopper = "wake"
    /\ woke' = TRUE
    /\ stopper' = "done"
    /\ UNCHANGED <<loop, switchVars, loopVars, netVars, notifyVars, chan, ready>>

(* A datagram arrives at a socket that is open. *)
Arrive(s) ==
    /\ arrived < MAX_DATAGRAMS
    /\ s[1] \in {list, sub}
    /\ inbox' = [inbox EXCEPT ![s] = @ + 1]
    /\ arrived' = arrived + 1
    /\ ready' = IF s \in Registered /\ pc # "returned" THEN ready \cup {s} ELSE ready
    /\ UNCHANGED <<loop, switchVars, loopVars, notifyVars, chan, woke, stopper>>

-----------------------------------------------------------------------------
(* The loop.                                                               *)

PollReturns ==
    /\ pc = "poll" /\ (woke \/ ready # {})
    /\ batch' = {TokenOf(s) : s \in ready} \cup (IF woke THEN {NOTIFY} ELSE {})
    /\ ready' = {} /\ woke' = FALSE
    /\ pc' = "events"
    /\ UNCHANGED <<loop, switchVars, list, reading, netVars, notifyVars, chan, stopper>>

(* poll fails with an error other than Interrupted. *)
PollFails ==
    /\ pc = "poll" /\ pc' = "returned"
    /\ UNCHANGED <<loop, switchVars, list, reading, batch, netVars, notifyVars,
                   chan, pollVars, stopper>>

BatchDone ==
    /\ pc = "events" /\ batch = {}
    /\ pc' = "poll"
    /\ UNCHANGED <<loop, switchVars, list, reading, batch, netVars, notifyVars,
                   chan, pollVars, stopper>>

(* The event NOTIFY ends the main loop; the sub loop tests is_stop.        *)
(* A test of the flag word that clears it. *)
StopForgotten == "add"
AfterNotify == IF loop = "main" \/ stop_bit THEN "returned" ELSE "add"
NotifyEvent ==
    /\ pc = "events" /\ NOTIFY \in batch
    /\ batch' = batch \ {NOTIFY}
    /\ pc' = AfterNotify
    /\ UNCHANGED <<loop, switchVars, list, reading, netVars, notifyVars, chan,
                   pollVars, stopper>>

(* is_add_socket: fetch_and clears the bit. *)
TestAddSocket ==
    /\ pc = "add"
    /\ add_bit' = FALSE
    /\ pc' = IF add_bit THEN "apply" ELSE "events"
    /\ UNCHANGED <<loop, switchVars, list, reading, batch, netVars, stop_bit,
                   chan, pollVars, stopper>>

(* try_recv: the old sockets are deregistered, the new ones registered. *)
ApplySwitch ==
    /\ pc = "apply" /\ chan # << >>
    /\ list' = Head(chan) /\ chan' = Tail(chan)
    /\ ready' = {s \in Sockets : s[1] = Head(chan) /\ inbox[s] > 0}
    /\ UNCHANGED <<loop, switchVars, pc, reading, batch, netVars, notifyVars,
                   woke, stopper>>

ApplyDone ==
    /\ pc = "apply" /\ chan = << >>
    /\ pc' = "events"
    /\ UNCHANGED <<loop, switchVars, list, reading, batch, netVars, notifyVars,
                   chan, pollVars, stopper>>

(* Any other token: the socket with that index, if there is one. *)
SocketEvent ==
    /\ pc = "events"
    /\ \E k \in batch \ {NOTIFY} :
          /\ batch' = batch \ {k}
          /\ IF list # 0 /\ k - FIRST_TOKEN \in Indexes
             THEN reading' = k - FIRST_TOKEN /\ pc' = "read"
             ELSE UNCHANGED <<reading, pc>>
    /\ UNCHANGED <<loop, switchVars, list, netVars, notifyVars, chan, pollVars, stopper>>

(* recv_from and the handler, until WouldBlock. *)
ReadDatagram ==
    /\ pc = "read" /\ inbox[<<list, reading>>] > 0
    /\ inbox' = [inbox EXCEPT ![<<list, reading>>] = @ - 1]
    /\ UNCHANGED <<loop, switchVars, loopVars, arrived, notifyVars, chan,
                   pollVars, stopper>>
(* A loop that reads one datagram for each event. *)
OneEach == TRUE
WouldBlock == inbox[<<list, reading>>] = 0
ReadDone ==
    /\ pc = "read" /\ WouldBlock
    /\ pc' = "events"
    /\ UNCHANGED <<loop, switchVars, list, reading, batch, netVars, notifyVars,
                   chan, pollVars, stopper>>

-----------------------------------------------------------------------------
PollInit ==
    /\ loop \in {"main", "sub"} /\ sub = (IF loop = "main" THEN 1 ELSE 0)
    /\ list = sub /\ made = sub
    /\ lock = NoThread /\ chan = << >>
    /\ stop_bit = FALSE /\ add_bit = FALSE
    /\ woke = FALSE /\ ready = {} /\ batch = {}
    /\ inbox = [s \in Sockets |-> 0] /\ arrived = 0
    /\ pc = "poll" /\ reading = 0
    /\ switching = [t \in Switchers |-> "idle"] /\ wanted = [t \in Switchers |-> 0]
    /\ stopper = "idle"

Loop ==
    \/ PollReturns \/ BatchDone \/ NotifyEvent \/ TestAddSocket \/ ApplySwitch
    \/ ApplyDone \/ SocketEvent \/ ReadDatagram \/ ReadDone
Switch(t) == SwitchSend(t) \/ SwitchNotify(t) \/ SwitchWake(t) \/ SwitchCommit(t)

PollNext ==
    \/ Loop \/ PollFails
    \/ \E t \in Switchers : SwitchBegin(t) \/ Switch(t)
    \/ StopStore \/ StopWake
    \/ \E s \in Sockets : Arrive(s)

(* The threads go on when they can. *)
PollFairness ==
    WF_udpVars(Loop) /\ WF_udpVars(StopWake) /\ \A t \in Switchers : WF_udpVars(Switch(t))

PollSpec == PollInit /\ [][PollNext]_udpVars
PollFairSpec == PollSpec /\ PollFairness

-----------------------------------------------------------------------------
(* The types of the fields; only a switcher between its lock and its       *)
(* commit holds the write lock.                                            *)
PollTypeOK ==
    /\ loop \in {"main", "sub"} /\ {list, sub, made} \subseteq Sets
    /\ chan \in Seq(Sets) /\ Len(chan) <= CAPACITY
    /\ {stop_bit, add_bit, woke} \subseteq BOOLEAN
    /\ ready \subseteq Sockets /\ batch \subseteq Tokens
    /\ inbox \in [Sockets -> Nat] /\ arrived \in 0 .. MAX_DATAGRAMS
    /\ pc \in {"poll", "events", "add", "apply", "read", "returned"}
    /\ reading \in Indexes
    /\ lock \in Switchers \cup {NoThread}
    /\ switching \in [Switchers -> {"idle", "send", "notify", "wake", "commit"}]
    /\ \A t \in Switchers : lock = t <=> switching[t] # "idle"
    /\ wanted \in [Switchers -> Sets]
    /\ stopper \in {"idle", "wake", "done"}

(* The loop listens to, or is about to be told of, exactly the sockets     *)
(* that send_by_key sends from: whatever is queued, full or applied early, *)
(* the last set handed to the loop is sub_udp_socket.  An index in a       *)
(* RouteKey thus means the same socket to the reader and to the sender.    *)
ListFollowsContext ==
    lock = NoThread /\ pc # "returned" =>
        sub = IF chan = << >> THEN list ELSE chan[Len(chan)]

(* A set handed to the loop is applied: no notification is lost between    *)
(* the flag word, the waker and the channel, although stop() overwrites    *)
(* the flag and one wake-up may stand for two switches.                    *)
SwitchesApplied == (chan # << >>) ~> (chan = << >> \/ pc = "returned" \/ stop_bit)

(* The stop listener ends the loop, whatever it is doing. *)
StopEndsLoop == stop_bit ~> (pc = "returned")

ReadSocket(s) ==
    (inbox[s] > 0 /\ s[1] = list) ~> (inbox[s] = 0 \/ s[1] # list \/ pc = "returned")

(* A datagram that waits in a socket of the loop is read, or the socket is *)
(* replaced, or the loop ends.  Not so for sub socket 0, whose token is    *)
(* the waker's: see OwnTokenRead for what holds.                           *)
DatagramsRead == \A s \in Sockets : ReadSocket(s)

(* So it is for every socket whose token is not the waker's: one readiness *)
(* event may stand for several datagrams, and more may come while they are *)
(* read, while sockets are replaced or while the waker is handled.         *)
OwnTokenRead == \A s \in Sockets : (s[2] > 0 \/ loop = "main") => ReadSocket(s)

(* The loop reads the sockets that the context sends from: what switch has *)
(* committed is what the loop has or finds next in its channel.            *)
LoopAndContextAgree == PollTypeOK /\ ListFollowsContext
=============================================================================
