-------------------------------- MODULE Selector --------------------------------
(***************************************************************************)
(* The latency cache and the choice of a worker of WorkerSelector            *)
(* (connection/selector.rs).  MultiRegion composes these actions with the    *)
(* calls that need a worker.                                                *)
(*                                                                          *)
(* The ping of each worker is a task of its own; it measures first and waits *)
(* for the cache's lock then, so that two calls may store what they measured *)
(* in the other order.  A measurement that is missing, older than cache_ttl  *)
(* or of a worker that did not answer counts for nothing: it is 0 here, and  *)
(* that one grows old is a step that may come at any time.                   *)
(***************************************************************************)
EXTENDS Naturals

CONSTANTS
    Workers,      \* 1..n, in the order of the list
    Home,         \* the region of each
    Callers,      \* tasks that ask for a worker
    Rtts          \* round-trip times

VARIABLES
    cache,        \* latencies: the rtt of each worker, 0 if it counts for nothing
    asks,         \* where each caller is in select_best_in_region
    scope,        \* the workers it chooses from
    pings         \* its pings

selector == <<cache, asks, scope, pings>>

WorkersOf(r) == {w \in Workers : Home[w] = r}

\* new() has measured all workers.
SelectorInit ==
    /\ cache \in [Workers -> Rtts \cup {0}]
    /\ asks = [c \in Callers |-> "no"]
    /\ scope = [c \in Callers |-> {}]
    /\ pings = [c \in Callers |-> [w \in Workers |-> "none"]]

\* The check of the cache; without a good entry all workers are measured.
Ask(c, ws) ==
    /\ asks[c] = "no"
    /\ scope' = [scope EXCEPT ![c] = ws]
    /\ IF \E w \in ws : cache[w] # 0
       THEN asks' = [asks EXCEPT ![c] = "choosing"] /\ UNCHANGED pings
       ELSE /\ asks' = [asks EXCEPT ![c] = "measuring"]
            /\ pings' = [pings EXCEPT ![c] = [w \in Workers |-> IF w \in ws THEN "out" ELSE @[w]]]
    /\ UNCHANGED cache

\* HEAD /health: a success; or another status, an error, the ping's timeout.
PingEnds(c, w) ==
    /\ pings[c][w] = "out"
    /\ \E result \in {"up", "down"} : pings' = [pings EXCEPT ![c][w] = result]
    /\ UNCHANGED <<cache, asks, scope>>

PingStored(c, w) ==
    /\ pings[c][w] \in {"up", "down"}
    /\ \E rtt \in IF pings[c][w] = "up" THEN Rtts ELSE {0} : cache' = [cache EXCEPT ![w] = rtt]
    /\ pings' = [pings EXCEPT ![c][w] = "none"]
    /\ UNCHANGED <<asks, scope>>

\* The last of the pings has been stored.
Measured(c) ==
    /\ asks[c] = "measuring"
    /\ \A w \in Workers : pings[c][w] = "none"
    /\ asks' = [asks EXCEPT ![c] = "choosing"]
    /\ UNCHANGED <<cache, scope, pings>>

\* The lowest rtt; the first of the list where several have it, or none any.
Best(ws) ==
    LET good == {w \in ws : cache[w] # 0}
        Before(v, w) == cache[v] < cache[w] \/ (cache[v] = cache[w] /\ v <= w)
    IN  CHOOSE w \in ws : IF good = {} THEN \A v \in ws : w <= v
                          ELSE w \in good /\ \A v \in good : Before(w, v)

\* The caller goes on with Best(scope[c]).
Choose(c) ==
    /\ asks[c] = "choosing"
    /\ asks' = [asks EXCEPT ![c] = "no"]
    /\ scope' = [scope EXCEPT ![c] = {}]
    /\ UNCHANGED <<cache, pings>>

\* cache_ttl has passed since worker w was measured, or invalidate().
Forget(w) ==
    /\ cache[w] # 0
    /\ cache' = [cache EXCEPT ![w] = 0]
    /\ UNCHANGED <<asks, scope, pings>>
=============================================================================
