-------------------------------- MODULE Names --------------------------------
(* Which server the client talks to: the name in the configuration          *)
(* (core/mod.rs), the queries that resolve it (util/dns_query.rs), and the  *)
(* choice among several addresses, made again whenever the client is        *)
(* offline (domain_request0).  An address is <<"v4" or "v6", its name>>.    *)
EXTENDS Bytes

NO_SERVER == <<"none", 0>>
MAX_USES == 3
ATTEMPTS == 3

-----------------------------------------------------------------------------
(* address_choose: an address counts how often it was chosen; one used up   *)
(* is left out until all of the answer are.  connects: the addresses        *)
(* udp.connect accepts (an address of a family without a route is refused). *)

check_addr(addrs, connects) ==
    LET good == Kept(addrs, connects)
    IN  IF good = << >> THEN NO_SERVER ELSE Head(good)
address_choose0(addrs, connects) ==
    LET check(family) == check_addr(Kept(addrs, {a \in ToSet(addrs) : a[1] = family}), connects)
    IN  IF check("v6") # NO_SERVER THEN check("v6") ELSE check("v4")

Uses(history, a) == IF a \in DOMAIN history THEN history[a] ELSE 0
Chosen(a, history) ==
    [addr |-> a, history |-> IF a = NO_SERVER THEN history
                             ELSE [b \in DOMAIN history \cup {a} |->
                                      Uses(history, b) + IF b = a THEN 1 ELSE 0]]
address_choose_NoClear(history, addrs, connects) ==
    LET available == Kept(addrs, {a \in ToSet(addrs) : Uses(history, a) < MAX_USES})
    IN  IF available = << >> THEN Chosen(address_choose0(addrs, connects), history)
        ELSE Chosen(address_choose0(available, connects), history)
address_choose(history, addrs, connects) ==
    LET available == Kept(addrs, {a \in ToSet(addrs) : Uses(history, a) < MAX_USES})
    IN  IF available = << >> THEN Chosen(address_choose0(addrs, connects), << >>)
        ELSE Chosen(address_choose0(available, connects), history)

-----------------------------------------------------------------------------
(* A reply to one kind of query of one name server: what each receive call  *)
(* ends with, whether the response code is NoError, and the records,        *)
(* <<type, address>> (NO_SERVER: a text that is not an address).            *)

Failed == [ok |-> FALSE, addrs |-> << >>]
Found(addrs) == [ok |-> TRUE, addrs |-> addrs]

\* query: sent again after a timeout, ATTEMPTS times.
query(q) ==
    /\ \E i \in 1..ATTEMPTS : q.recv[i] = "data" /\ \A j \in 1..(i - 1) : q.recv[j] = "timeout"
    /\ q.no_error /\ q.records # << >>
Records(q, type) ==
    LET own == Kept(q.records, {r \in ToSet(q.records) : r[1] = type})
    IN  [i \in DOMAIN own |-> own[i][2]]
txt_dns(q) ==
    IF query(q) /\ NO_SERVER \notin ToSet(Records(q, "TXT")) THEN Found(Records(q, "TXT")) ELSE Failed
a_dns(q) == IF query(q) THEN Found(Records(q, "A")) ELSE Failed
aaaa_dns(q) == IF query(q) THEN Found(Records(q, "AAAA")) ELSE Failed

(* dns_query_all: domain is [kind, addr, port]; reply[s][type] what name    *)
(* server s answers (a server whose address does not parse is not there);   *)
(* system the outcomes of the resolver of the operating system, the calls   *)
(* before and the calls after the name servers.                             *)

Answer(domain, replies) ==
    IF domain.kind = "txt" THEN txt_dns(replies.TXT).addrs
    ELSE a_dns(replies.A).addrs \o aaaa_dns(replies.AAAA).addrs
FirstOf(lists) ==
    LET some == Kept(lists, ToSet(lists) \ {<< >>})
    IN  IF some = << >> THEN Failed ELSE Found(Head(some))
AskServers_FirstOnly(domain, servers, reply) ==
    LET Of(s) == IF s \in DOMAIN reply THEN Answer(domain, reply[s]) ELSE << >>
    IN  FirstOf(<<Of(Head(servers))>>)
AskServers(domain, servers, reply) ==
    LET Of(s) == IF s \in DOMAIN reply THEN Answer(domain, reply[s]) ELSE << >>
    IN  FirstOf([i \in DOMAIN servers |-> Of(servers[i])])

DefaultServers(txt) == IF txt THEN <<"223.5.5.5", "114.114.114.114">>
                       ELSE <<"223.5.5.5", "114.114.114.114", "8.8.8.8">>
dns_query_all(domain, servers, reply, system, ios) ==
    LET txt == domain.kind = "txt"
        before == FirstOf(SubSeq(system, 1, ATTEMPTS))
        after == FirstOf(SubSeq(system, ATTEMPTS + 1, 2 * ATTEMPTS))
        list == IF servers = << >> THEN DefaultServers(txt) ELSE servers
        asked == AskServers(domain, list, reply)
    IN  CASE domain.kind = "addr" -> Found(<<domain.addr>>)
          [] domain.kind = "name" /\ ios /\ before.ok -> before
          [] domain.kind = "name" /\ ~ ios /\ servers = << >> -> FirstOf(<<system[1]>>)
          [] domain.kind = "name" /\ (servers # << >> \/ ios) /\ ~ (ios /\ before.ok) ->
                IF ~ domain.port THEN Failed
                ELSE IF asked.ok \/ ~ ios THEN asked ELSE after
          [] OTHER -> asked

(* domain_request0: the device info is loaded before the queries and        *)
(* compared again when the address is put into it.                          *)
domain_request0_Stores(loaded, now, chosen) ==
    IF chosen \in {NO_SERVER, loaded.connect_server} THEN [current |-> now, returned |-> loaded]
    ELSE LET tmp == [loaded EXCEPT !.connect_server = chosen]
         IN  [current |-> tmp, returned |-> tmp]
domain_request0(loaded, now, chosen) ==
    IF chosen \in {NO_SERVER, loaded.connect_server} THEN [current |-> now, returned |-> loaded]
    ELSE LET tmp == [loaded EXCEPT !.connect_server = chosen]
         IN  IF now = loaded THEN [current |-> tmp, returned |-> tmp]
             ELSE [current |-> now, returned |-> loaded]

-----------------------------------------------------------------------------
\* The choices made from answers that list the same addresses in any order,
\* one list per call.
Turns(lists, connects) ==
    LET run[n \in 0..Len(lists)] ==
            IF n = 0 THEN Chosen(NO_SERVER, << >>)
            ELSE address_choose(run[n - 1].history, lists[n], connects)
    IN  [n \in DOMAIN lists |-> run[n].addr]

\* When every address can be tried none is ever more than MAX_USES turns
\* ahead of another; one that cannot be tried is never chosen, and each of
\* the others has its first MAX_USES turns.
TakeTurns(lists, connects) ==
    LET turns == Turns(lists, connects)
        all == ToSet(lists[1])
        times(a, n) == Cardinality({i \in 1..n : turns[i] = a})
    IN  \A n \in DOMAIN lists :
          /\ turns[n] \in connects \cup {NO_SERVER}
          /\ all \subseteq connects =>
               \A a, b \in all : times(a, n) <= times(b, n) + MAX_USES
          /\ n <= MAX_USES * Cardinality(all \cap connects) => turns[n] # NO_SERVER

\* One name server that answers is enough, whatever the others do, and so is
\* one of the six calls of the resolver of iOS; the addresses are those of
\* one answer.
FoundIfAnswered(domain, servers, reply, system, ios) ==
    LET r == dns_query_all(domain, servers, reply, system, ios)
        asked == IF servers = << >> THEN DefaultServers(domain.kind = "txt") ELSE servers
        answers == {Answer(domain, reply[s]) : s \in ToSet(asked) \cap DOMAIN reply} \ {<< >>}
        resolved == ToSet(system) \ {<< >>}
        usable == domain.kind = "txt" \/ (domain.kind = "name" /\ domain.port)
    IN  usable =>
          /\ answers # {} /\ servers # << >> => r.ok
          /\ ios /\ domain.kind = "name" /\ resolved # {} => r.ok
          /\ r.ok => r.addrs \in answers \cup resolved

\* A query that took long does not undo what happened meanwhile, and the
\* handshake goes to the server the device info names, unless that changed.
QueryHarmless(loaded, now, chosen) ==
    LET r == domain_request0(loaded, now, chosen)
    IN  /\ [r.current EXCEPT !.connect_server = now.connect_server] = now
        /\ now # loaded => r.current = now
        /\ now = loaded => r.current = r.returned
                           /\ (chosen # NO_SERVER => r.returned.connect_server = chosen)

===============================================================================
