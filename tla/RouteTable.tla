----------------------------- MODULE RouteTable -----------------------------
(***************************************************************************)
(* The route table of the channel layer: for every virtual ip the list of  *)
(* routes it was heard on (channel/context.rs, struct RouteTable), shared  *)
(* behind a RwLock by the receiving threads, which add and refresh routes, *)
(* and by the scheduler's idle_route task, which reaps silent ones         *)
(* (channel/idle.rs, handle/maintain/idle.rs).                             *)
(*                                                                         *)
(* One action is one critical section.  add_route_if_absent takes the lock *)
(* twice (read, then write) and idle_route0 takes it twice (next_idle,     *)
(* then remove_route): what was read may be stale when it is used.         *)
(***************************************************************************)
EXTENDS Integers, Sequences, FiniteSets

CONSTANTS
    Ids,            \* virtual ips of the peers and of the gateway
    Keys,           \* RouteKeys: protocol, socket index and remote address
    Metrics,        \* hop counts a packet can arrive with
    Rts,            \* measured round-trip times
    DEFAULT_RT,     \* rt of a route nobody has measured yet
    CHANNEL_NUM,    \* channel_num: number of main ipv4 sockets
    FIRST_LATENCY,  \* first_latency: prefer latency over hop count
    ONLY_P2P,       \* use_channel_type = P2p
    READ_IDLE,      \* ticks of silence after which a route is idle
    Receivers       \* threads that receive packets

ASSUME MetricsAssumption == Metrics \subseteq Nat \ {0}
ASSUME RtsAssumption == Rts \subseteq Int /\ DEFAULT_RT \in Int
ASSUME ChannelNumAssumption == CHANNEL_NUM \in Nat \ {0}
ASSUME ModeAssumption == FIRST_LATENCY \in BOOLEAN /\ ONLY_P2P \in BOOLEAN
ASSUME ReadIdleAssumption == READ_IDLE \in Nat \ {0}

VARIABLES
    table,          \* table[id]: the Vec of routes of id, for the ids present
    adding,         \* adding[r]: what receiver r is about to write, or none
    reaping         \* the route next_idle returned and remove_route awaits

vars == <<table, adding, reaping>>

Route == [key : Keys, metric : Metrics, rt : Rts \cup {DEFAULT_RT},
          age : 0 .. READ_IDLE]
NewRouteNoSentinel(k, m, t) ==
    [key |-> k, metric |-> m, rt |-> IF t = DEFAULT_RT THEN -1 ELSE t, age |-> 0]
NewRoute(k, m, t) == [key |-> k, metric |-> m, rt |-> t, age |-> 0]
NONE == [none |-> TRUE]

(* Route::is_p2p *)
IsP2p(x) == x.metric = 1

-----------------------------------------------------------------------------
(* Vec operations.                                                         *)

(* The number of positions of I that "le" puts no later than i. *)
Rank(I, le, i) == Cardinality({j \in I : <<j, i>> \in le})

(* The elements of s at the positions I, in the order of le. *)
Arrange(s, I, le) ==
    [n \in 1 .. Cardinality(I) |-> s[CHOOSE i \in I : Rank(I, le, i) = n]]

InPlace(s) == {p \in (DOMAIN s) \X (DOMAIN s) : p[1] <= p[2]}
ByRt(s) ==
    {p \in (DOMAIN s) \X (DOMAIN s) :
        \/ s[p[1]].rt < s[p[2]].rt
        \/ s[p[1]].rt = s[p[2]].rt /\ p[1] <= p[2]}

(* list.sort_by_key(|(k, _)| k.rt), a stable sort *)
SortByRt(s) == Arrange(s, DOMAIN s, ByRt(s))
(* list.retain(|(k, _)| k.is_p2p()) *)
RetainP2p(s) == Arrange(s, {i \in DOMAIN s : IsP2p(s[i])}, InPlace(s))
(* routes.retain(|(x, _)| x.route_key() != route_key) *)
RetainOther(s, k) == Arrange(s, {i \in DOMAIN s : s[i].key # k}, InPlace(s))

PositionsOf(s, k) == {i \in DOMAIN s : s[i].key = k}
P2pPositions(s) == {i \in DOMAIN s : IsP2p(s[i])}

(* A plain Vec::truncate, without the first direct route being saved. *)
PlainTruncate(s, n) == IF Len(s) <= n THEN s ELSE SubSeq(s, 1, n)

TruncateOffByOne(s, n) == PlainTruncate(s, n + 1)

(* truncate_: when latency comes first, the first direct route survives. *)
Truncate(s, n) ==
    IF Len(s) <= n THEN s
    ELSE IF FIRST_LATENCY /\ P2pPositions(s) # {}
                          /\ \A i \in P2pPositions(s) : i > n
         THEN LET first == CHOOSE i \in P2pPositions(s) :
                               \A j \in P2pPositions(s) : i <= j
              IN  Append(SubSeq(s, 1, n - 1), s[first])
         ELSE SubSeq(s, 1, n)

-----------------------------------------------------------------------------
(* The write-locked part of add_route_, on the list of one id.             *)

(* The scan of the list stops with "false" at a route that is shorter than *)
(* the new one, unless the route to update comes earlier.                  *)
ScanForgetsLength(s, r) == FALSE
ScanRejects(s, r) ==
    /\ ~ FIRST_LATENCY
    /\ \E i \in DOMAIN s :
          /\ s[i].metric < r.metric
          /\ \A j \in PositionsOf(s, r.key) : i <= j

(* The branch "exist": the route is updated, its time is set to now. *)
UpdateExisting(s, r) ==
    LET updated == [i \in DOMAIN s |-> IF s[i].key = r.key THEN r ELSE s[i]]
        sorted  == SortByRt(updated)
        limit   == IF FIRST_LATENCY THEN CHANNEL_NUM + 2 ELSE CHANNEL_NUM
    IN  IF \E i \in DOMAIN sorted : sorted[i].rt = DEFAULT_RT
        THEN sorted
        ELSE Truncate(sorted, limit)

(* The branch of a new key. *)
AddNewUnlimited(s, r) ==
    Append(Truncate(SortByRt(s), CHANNEL_NUM * 2), r)
AddNew(s, r) ==
    LET kept == IF ~ FIRST_LATENCY /\ IsP2p(r) THEN RetainP2p(s) ELSE s
    IN  IF ~ FIRST_LATENCY /\ CHANNEL_NUM <= Len(kept)
        THEN kept
        ELSE Append(Truncate(SortByRt(kept), CHANNEL_NUM * 2), r)

WriteTrustingCheck(s, r, only_if_absent) ==
    IF ScanRejects(s, r) THEN s
    ELSE IF PositionsOf(s, r.key) # {} /\ ~ only_if_absent
         THEN UpdateExisting(s, r)
         ELSE AddNew(s, r)
WriteAppending(s, r, only_if_absent) ==
    IF ScanRejects(s, r) THEN s ELSE AddNew(s, r)
WriteRoute(s, r, only_if_absent) ==
    IF ScanRejects(s, r) THEN s
    ELSE IF PositionsOf(s, r.key) # {}
         THEN IF only_if_absent THEN s ELSE UpdateExisting(s, r)
         ELSE AddNew(s, r)

ListOf(id) == IF id \in DOMAIN table THEN table[id] ELSE << >>

(* route_table.entry(id).or_insert_with(...), then the list is replaced. *)
PutList(id, list) ==
    table' = [i \in DOMAIN table \cup {id} |->
                 IF i = id THEN list ELSE table[i]]

-----------------------------------------------------------------------------
Init ==
    /\ table = [i \in {} |-> << >>]
    /\ adding = [r \in Receivers |-> NONE]
    /\ reaping = NONE

(* The early return of add_route_ for a relayed route in p2p mode. *)
ChannelAllowed(r) == ONLY_P2P => IsP2p(r)

(* add_route: a pong measured the round-trip time. *)
AddRoute(id, k, m, t) ==
    LET r == NewRoute(k, m, t) IN
    /\ ChannelAllowed(r)
    /\ PutList(id, WriteRoute(ListOf(id), r, FALSE))
    /\ UNCHANGED <<adding, reaping>>

(* add_route_if_absent, under the read lock: the call goes on to the write *)
(* lock unless the key is there or the direct routes are complete.         *)
AddIfAbsentCheck(w, id, k, m) ==
    LET r == NewRoute(k, m, DEFAULT_RT) IN
    /\ adding[w] = NONE
    /\ ChannelAllowed(r)
    /\ PositionsOf(ListOf(id), k) = {}
    /\ FIRST_LATENCY \/ Cardinality(P2pPositions(ListOf(id))) < CHANNEL_NUM
    /\ adding' = [adding EXCEPT ![w] = [id |-> id, route |-> r]]
    /\ UNCHANGED <<table, reaping>>

(* add_route_if_absent, under the write lock. *)
AddIfAbsentWrite(w) ==
    /\ adding[w] # NONE
    /\ PutList(adding[w].id, WriteRoute(ListOf(adding[w].id), adding[w].route, TRUE))
    /\ adding' = [adding EXCEPT ![w] = NONE]
    /\ UNCHANGED reaping

(* update_read_time: a packet of id arrived on k. *)
UpdateReadTime(id, k) ==
    /\ id \in DOMAIN table
    /\ table' = [table EXCEPT ![id] =
                    [i \in DOMAIN @ |->
                        IF @[i].key = k THEN [@[i] EXCEPT !.age = 0] ELSE @[i]]]
    /\ UNCHANGED <<adding, reaping>>

(* Idle::next_idle returns Timeout(ip, route), under the read lock. *)
NextIdle(id, i) ==
    /\ reaping = NONE
    /\ table[id][i].age >= READ_IDLE
    /\ reaping' = [id |-> id, key |-> table[id][i].key]
    /\ UNCHANGED <<table, adding>>

WithoutRouteKeepingEntry(tb, id, k) ==
    IF id \notin DOMAIN tb THEN tb ELSE [tb EXCEPT ![id] = RetainOther(@, k)]
(* idle_route0 calls remove_route, under the write lock. *)
WithoutRoute(tb, id, k) ==
    IF id \notin DOMAIN tb THEN tb
    ELSE IF RetainOther(tb[id], k) = << >>
         THEN [i \in DOMAIN tb \ {id} |-> tb[i]]
         ELSE [tb EXCEPT ![id] = RetainOther(@, k)]
RemoveRoute ==
    /\ reaping # NONE
    /\ table' = WithoutRoute(table, reaping.id, reaping.key)
    /\ reaping' = NONE
    /\ UNCHANGED adding

(* Time passes: every last-read time is one tick older. *)
Tick ==
    /\ table' = [id \in DOMAIN table |->
                    [i \in DOMAIN table[id] |->
                        [table[id][i] EXCEPT !.age = IF @ < READ_IDLE THEN @ + 1 ELSE @]]]
    /\ UNCHANGED <<adding, reaping>>

Next ==
    \/ \E id \in Ids, k \in Keys, m \in Metrics, t \in Rts : AddRoute(id, k, m, t)
    \/ \E w \in Receivers, id \in Ids, k \in Keys, m \in Metrics :
          AddIfAbsentCheck(w, id, k, m)
    \/ \E w \in Receivers : AddIfAbsentWrite(w)
    \/ \E id \in Ids, k \in Keys : UpdateReadTime(id, k)
    \/ \E id \in DOMAIN table : \E i \in DOMAIN table[id] : NextIdle(id, i)
    \/ RemoveRoute
    \/ Tick

Spec == Init /\ [][Next]_vars

-----------------------------------------------------------------------------
(* Type correctness of the shared table and of what threads carry between  *)
(* two critical sections.                                                  *)
TypeOK ==
    /\ DOMAIN table \subseteq Ids
    /\ table = [id \in DOMAIN table |-> table[id]]
    /\ \A id \in DOMAIN table : table[id] \in Seq(Route)
    /\ adding \in [Receivers -> [id : Ids, route : Route] \cup {NONE}]
    /\ reaping \in [id : Ids, key : Keys] \cup {NONE}

(* A list never holds two routes with one RouteKey, although two receivers *)
(* may both find the key absent under the read lock before either writes   *)
(* (add_route_ looks for the key again under the write lock).              *)
UniqueKeys ==
    \A id \in DOMAIN table : \A i, j \in DOMAIN table[id] :
        table[id][i].key = table[id][j].key => i = j

(* A list is bounded whatever the threads do: by channel_num, and by twice *)
(* channel_num plus the route just pushed when latency comes first.        *)
MaxLen == IF FIRST_LATENCY THEN CHANNEL_NUM * 2 + 1 ELSE CHANNEL_NUM
LengthBounded == \A id \in DOMAIN table : Len(table[id]) <= MaxLen

(* No id stays in the map with an empty list: add_route_ always leaves a   *)
(* route in the entry it inserts and remove_route drops the emptied entry, *)
(* so next_idle reports None exactly when there is no route.               *)
NoEmptyEntry == \A id \in DOMAIN table : table[id] # << >>

(* With use_channel_type = P2p no relayed route is ever in the table, also *)
(* after a route already there is measured again.                          *)
OnlyDirectInP2pMode ==
    ONLY_P2P => \A id \in DOMAIN table : \A i \in DOMAIN table[id] : IsP2p(table[id][i])

(* Unless latency comes first, no step makes a path longer: a route keeps  *)
(* or lowers its metric, and a new route is no longer than any route that  *)
(* was there ("must not be longer than the current path", add_route_).     *)
NeverLonger ==
    [][~ FIRST_LATENCY =>
         \A id \in DOMAIN table' : \A i \in DOMAIN table'[id] :
            \A j \in DOMAIN ListOf(id) :
               LET new == table'[id][i]
                   old == ListOf(id)[j]
               IN  (old.key = new.key \/ PositionsOf(ListOf(id), new.key) = {})
                      => new.metric <= old.metric]_vars

(* Recording a route on key k never costs a peer its last direct route on  *)
(* another key: sorting by latency and truncating keeps the first direct   *)
(* one (truncate_), and retain only drops relayed ones.                    *)
KeepsDirect(id, k) ==
    (\E i \in P2pPositions(ListOf(id)) : ListOf(id)[i].key # k)
        => P2pPositions(table'[id]) # {}
DirectRouteKept ==
    [][/\ \A id \in Ids, k \in Keys, m \in Metrics, t \in Rts :
             AddRoute(id, k, m, t) => KeepsDirect(id, k)
       /\ \A w \in Receivers :
             AddIfAbsentWrite(w) => KeepsDirect(adding[w].id, adding[w].route.key)]_vars

(* The map of route lists is sound after every locked section, whatever    *)
(* add_route, add_route_if_absent, next_idle and remove_route were decided *)
(* on: each id has routes, each key once, no more than its mode allows.    *)
ListsSound == TypeOK /\ UniqueKeys /\ LengthBounded /\ NoEmptyEntry
=============================================================================
