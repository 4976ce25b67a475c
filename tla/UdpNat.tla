-------------------------------- MODULE UdpNat --------------------------------
(* The udp sockets a client opens for others: the udp proxy for packets of  *)
(* peers (ip_proxy/udp_proxy.rs) and a mapped udp port (port_mapping/       *)
(* udp_mapping.rs).  One loop takes the datagrams of all sources; the first *)
(* of a source opens a socket, whose task carries the answers back until it *)
(* fails or nothing was sent for long.  The proxy learns where a datagram   *)
(* was going from nat_map, which recv_handle fills before the datagram      *)
(* comes and the ending task clears.                                        *)
(*                                                                          *)
(* A state m of the machine is a record:                                    *)
(*   fixed    the destination of a mapped port, or NO_DEST for the proxy    *)
(*   nat, inner   nat_map, and inner_map as the number of the socket        *)
(*   tasks    per socket, its source, destination and where its task is     *)
(*   queue    datagrams that wait in the loop's socket, <<source, to>>      *)
(*   opening  the source the loop opens a socket for, or NO_OPENING         *)
(*   wrote    the destinations each source has written to                   *)
(*   last     what reached a host or an application last                    *)
(* Each step is the set of the states it can lead to.                       *)
EXTENDS Integers, Sequences, FiniteSets, SequencesExt

CONSTANTS
    Sources,        \* who sends datagrams
    Hosts,          \* where to
    NO_DEST,        \* not a destination
    MAX_QUEUE,      \* bound on the datagrams that wait
    MAX_SOCKETS     \* bound on the sockets opened
ASSUME UdpNatAssumption == NO_DEST \notin Hosts /\ {MAX_QUEUE, MAX_SOCKETS} \subseteq Nat

NO_OPENING == [source |-> NO_DEST, to |-> NO_DEST]
NOTHING == [source |-> NO_DEST, host |-> NO_DEST, as |-> NO_DEST]
Machine(fixed) ==
    [fixed |-> fixed, nat |-> << >>, inner |-> << >>, tasks |-> << >>, queue |-> << >>,
     opening |-> NO_OPENING, wrote |-> [s \in Sources |-> {}], last |-> NOTHING]

With(f, x, v) == [y \in DOMAIN f \cup {x} |-> IF y = x THEN v ELSE f[y]]
Without(f, x) == [y \in DOMAIN f \ {x} |-> f[y]]

\* A datagram arrives; for the proxy recv_handle has noted where it goes.
Destinations(m) == IF m.fixed = NO_DEST THEN Hosts ELSE {m.fixed}
Arrived(m, s, d) ==
    [m EXCEPT !.queue = Append(@, <<s, d>>), !.wrote[s] = @ \cup {d},
              !.nat = IF m.fixed = NO_DEST THEN With(@, s, d) ELSE @]
Arrives(m) ==
    IF Len(m.queue) >= MAX_QUEUE THEN {}
    ELSE {Arrived(m, s, d) : s \in Sources, d \in Destinations(m)}

\* udp_proxy0 and udp_mapping0 up to the first await: the source's socket is
\* used, or a new one is opened; without a destination the datagram is gone.
To_AnySource(m, s) ==
    IF m.fixed # NO_DEST THEN m.fixed
    ELSE IF m.nat # << >> THEN m.nat[CHOOSE x \in DOMAIN m.nat : TRUE] ELSE NO_DEST
To(m, s) ==
    IF m.fixed # NO_DEST THEN m.fixed
    ELSE IF s \in DOMAIN m.nat THEN m.nat[s] ELSE NO_DEST
Reached(m, s, d) == [m EXCEPT !.last = [source |-> s, host |-> d, as |-> NO_DEST]]
Looks(m) ==
    IF m.queue = << >> \/ m.opening # NO_OPENING THEN {}
    ELSE LET s == Head(m.queue)[1]
             rest == [m EXCEPT !.queue = Tail(@)]
         IN  IF s \in DOMAIN m.inner THEN {Reached(rest, s, m.tasks[m.inner[s]].to)}
             ELSE IF To(m, s) = NO_DEST THEN {rest}
             ELSE {[rest EXCEPT !.opening = [source |-> s, to |-> To(m, s)]]}

\* bind, connect and send: an error ends the handling of this datagram only.
Opens_Unlisted(m) ==
    IF m.opening = NO_OPENING \/ Len(m.tasks) >= MAX_SOCKETS THEN {}
    ELSE LET o == m.opening
         IN  {[Reached(m, o.source, o.to) EXCEPT
                 !.opening = NO_OPENING,
                 !.tasks = Append(@, [source |-> o.source, to |-> o.to, at |-> "recv"])]}
Opens(m) ==
    IF m.opening = NO_OPENING \/ Len(m.tasks) >= MAX_SOCKETS THEN {}
    ELSE LET o == m.opening
         IN  {[Reached(m, o.source, o.to) EXCEPT
                 !.opening = NO_OPENING,
                 !.inner = With(@, o.source, Len(m.tasks) + 1),
                 !.tasks = Append(@, [source |-> o.source, to |-> o.to, at |-> "recv"])]}
OpenFails(m) == IF m.opening = NO_OPENING THEN {} ELSE {[m EXCEPT !.opening = NO_OPENING]}

\* The task of a socket: an answer goes to the source, under the name
\* send_handle finds in nat_map (its own, when it finds none); the task
\* leaves its loop and takes its source out of inner_map, then of nat_map.
TasksAt(m, at) == {i \in DOMAIN m.tasks : m.tasks[i].at = at}
Answers(m) ==
    {[m EXCEPT !.last = [source |-> m.tasks[i].source, host |-> m.tasks[i].to,
                         as |-> To(m, m.tasks[i].source)]] : i \in TasksAt(m, "recv")}
Breaks(m) == {[m EXCEPT !.tasks[i].at = "inner"] : i \in TasksAt(m, "recv")}
RemovesInner(m) ==
    {[m EXCEPT !.tasks[i].at = "nat", !.inner = Without(@, m.tasks[i].source)] : i \in TasksAt(m, "inner")}
RemovesNat(m) ==
    {[m EXCEPT !.tasks[i].at = "done",
               !.nat = IF m.fixed = NO_DEST THEN Without(@, m.tasks[i].source) ELSE @] :
         i \in TasksAt(m, "nat")}

Steps(m) ==
    Arrives(m) \cup Looks(m) \cup Opens(m) \cup OpenFails(m) \cup Answers(m)
      \cup Breaks(m) \cup RemovesInner(m) \cup RemovesNat(m)

-----------------------------------------------------------------------------
\* Every socket whose task has not begun to go is the one its source's
\* datagrams use, and every socket in use has such a task: an ending task
\* never takes out the socket that replaced its own.
SocketsOwned(m) ==
    /\ TasksAt(m, "recv") \cup TasksAt(m, "inner") = {m.inner[s] : s \in DOMAIN m.inner}
    /\ \A s \in DOMAIN m.inner : m.tasks[m.inner[s]].source = s

\* A datagram reaches only a host its source has written to, and what an
\* answer is called is a host the source has written to, or, once the entry
\* was cleared, the proxy itself.
KeptApart(m) ==
    LET l == m.last
    IN  l # NOTHING => /\ l.host \in m.wrote[l.source]
                       /\ l.as \in m.wrote[l.source] \cup {NO_DEST}
===============================================================================
