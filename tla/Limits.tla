-------------------------------- MODULE Limits --------------------------------
(* The traffic meter and the rate limiter (util/limit).  Time is counted in *)
(* TICKS parts of a second; a run of calls is a sequence of the ticks that  *)
(* pass before each call and what it is called with.                        *)
EXTENDS Integers, Sequences, FiniteSets, SequencesExt

CONSTANT TICKS
ASSUME TicksAssumption == TICKS \in Nat \ {0}

(* RateLimiter: whole seconds are turned into tokens, and the clock is set  *)
(* forward to now, whatever part of a second is left over.                  *)
RateLimiter(capacity, refill_rate) ==
    [capacity |-> capacity, tokens |-> capacity, refill_rate |-> refill_rate, last_refill |-> 0]
refill_KeepsClock(l, now) ==
    LET new_tokens == ((now - l.last_refill) \div TICKS) * l.refill_rate
        full == IF l.tokens + new_tokens > l.capacity THEN l.capacity ELSE l.tokens + new_tokens
    IN  [l EXCEPT !.tokens = full]
refill(l, now) ==
    LET new_tokens == ((now - l.last_refill) \div TICKS) * l.refill_rate
        full == IF l.tokens + new_tokens > l.capacity THEN l.capacity ELSE l.tokens + new_tokens
    IN  IF new_tokens > 0 THEN [l EXCEPT !.tokens = full, !.last_refill = now] ELSE l
try_acquire(l, now) ==
    LET r == refill(l, now)
    IN  IF r.tokens > 0 THEN [ok |-> TRUE, l |-> [r EXCEPT !.tokens = @ - 1]]
        ELSE [ok |-> FALSE, l |-> r]

(* TrafficMeter: what is counted goes to the history when a call finds that *)
(* a second has passed; the oldest entry makes room.                        *)
TrafficMeter(history_capacity) ==
    [start_time |-> 0, total |-> 0, count |-> 0, history_capacity |-> history_capacity, history |-> << >>]
check_time_NoReset(m, now) ==
    IF now - m.start_time < TICKS THEN m
    ELSE [m EXCEPT !.history = Append(IF Len(@) >= m.history_capacity THEN Tail(@) ELSE @, m.count),
                   !.start_time = now]
check_time(m, now) ==
    IF now - m.start_time < TICKS THEN m
    ELSE [m EXCEPT !.history = Append(IF Len(@) >= m.history_capacity THEN Tail(@) ELSE @, m.count),
                   !.count = 0, !.start_time = now]
add_traffic(m, amount, now) ==
    check_time([m EXCEPT !.total = @ + amount, !.count = @ + amount], now)

\* TrafficMeterMultiAddress: one meter per peer and one total.
Meters == [total |-> 0, of |-> << >>]
add_traffic_of(ms, ip, amount, now, history_capacity) ==
    LET m == IF ip \in DOMAIN ms.of THEN ms.of[ip]
             ELSE [TrafficMeter(history_capacity) EXCEPT !.start_time = now]
    IN  [total |-> ms.total + amount,
         of |-> [x \in DOMAIN ms.of \cup {ip} |-> IF x = ip THEN add_traffic(m, amount, now) ELSE ms.of[x]]]

-----------------------------------------------------------------------------
Total(s) ==
    LET sum[n \in 0..Len(s)] == IF n = 0 THEN 0 ELSE sum[n - 1] + s[n]
    IN  sum[Len(s)]

\* A limiter over a run of calls, with the clock and what each call returned.
Acquired(r, ticks) ==
    LET a == try_acquire(r.l, r.now + ticks)
    IN  [now |-> r.now + ticks, ok |-> a.ok, l |-> a.l]
Acquisitions(capacity, refill_rate, calls) ==
    LET run[n \in 0..Len(calls)] ==
            IF n = 0 THEN [now |-> 0, ok |-> FALSE, l |-> RateLimiter(capacity, refill_rate)]
            ELSE Acquired(run[n - 1], calls[n][1])
    IN  run

\* Between any two calls the limiter lets through no more than its capacity
\* and what a whole second each brings.
RateHeld(capacity, refill_rate, calls) ==
    LET run == Acquisitions(capacity, refill_rate, calls)
        passed(i, j) == Cardinality({n \in i..j : run[n].ok})
    IN  \A i \in 1..Len(calls) : \A j \in i..Len(calls) :
            passed(i, j) <= capacity + (((run[j].now - run[i].now) \div TICKS) + 1) * refill_rate

\* The meters over a run of calls, with the clock.
Added(r, call, history_capacity) ==
    [now |-> r.now + call[1],
     ms |-> add_traffic_of(r.ms, call[2], call[3], r.now + call[1], history_capacity)]
Additions(calls, history_capacity) ==
    LET run[n \in 0..Len(calls)] ==
            IF n = 0 THEN [now |-> 0, ms |-> Meters] ELSE Added(run[n - 1], calls[n], history_capacity)
    IN  run

\* Nothing is counted twice or lost: the total is what was added, there is a
\* meter for each peer something was added for, with the total of that, and
\* as long as the history has not dropped an entry it and the open count add
\* up to the peer's total.
AmountOf(calls, n) == Total([k \in 1..n |-> calls[k][3]])
AmountOfPeer(calls, n, ip) == Total([k \in 1..n |-> IF calls[k][2] = ip THEN calls[k][3] ELSE 0])
TrafficAddsUp(calls, history_capacity) ==
    LET end == Additions(calls, history_capacity)[Len(calls)].ms
    IN  /\ end.total = AmountOf(calls, Len(calls))
        /\ DOMAIN end.of = {calls[n][2] : n \in DOMAIN calls}
        /\ \A ip \in DOMAIN end.of :
             LET m == end.of[ip]
             IN  /\ m.total = AmountOfPeer(calls, Len(calls), ip)
                 /\ Len(m.history) <= history_capacity
                 /\ Len(m.history) < history_capacity => Total(m.history) + m.count = m.total

===============================================================================
