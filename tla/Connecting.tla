------------------------------- MODULE Connecting -------------------------------
(***************************************************************************)
(* How a client finds a worker that answers: SlipstreamClient::connect       *)
(* (client.rs) with the discovery response (discovery.rs), the ranking by    *)
(* latency, the FallbackChain's ladder of protocols with its legacy ports    *)
(* (connection/mod.rs, config.rs, types.rs), the second connect() that the   *)
(* chain's callers make, and the monitor's reconnect() with its backoff      *)
(* (connection/health.rs), which goes through the same chain.               *)
(*                                                                          *)
(* The network is what a port answers when it is dialed.  It is decided at   *)
(* the first dial and stays for as long as one connect() or reconnect().     *)
(* "down" is an error that is_connect_failure accepts: refused, unreachable, *)
(* no answer within the protocol's timeout.                                 *)
(***************************************************************************)
EXTENDS Integers, Sequences, FiniteSets, SequencesExt

CONSTANTS
    Workers,         \* 1..n: the workers in the order discovery lists them
    Home,            \* the region of each
    Adverts,         \* the endpoints a worker may have
    MaxReconnects,   \* bound: connections replaced by the monitor
    MaxFailures,     \* bound: consecutive_failures
    None

Ladder == <<"quic", "grpc", "websocket", "http">>      \* Protocol::fallback_order()
Protocols == ToSet(Ladder)
Regions == {Home[w] : w \in Workers}
Ports == Protocols \X {"primary", "legacy"}
Answers == {"ok", "down", "denied"}
Unreachable == 9                                       \* rtt_ms of u64::MAX

\* Endpoints are optional; HTTP has no legacy one.
ASSUME AdvertsOK ==
    \A a \in Adverts : a.offers \subseteq Protocols /\ a.legacy \subseteq Protocols \ {"http"}

\* There is a worker, and None is none of the things it stands in for.
ASSUME DirectoryOK ==
    /\ Cardinality(Workers) \in Nat \ {0} /\ Workers = 1..Cardinality(Workers)
    /\ None \notin Protocols /\ None \notin Regions
    /\ None \notin Ports /\ None \notin Answers
    /\ MaxReconnects \in Nat /\ MaxFailures \in Nat

VARIABLES
    advert,      \* endpoints of each worker: [offers, legacy]
    preferred,   \* config.preferred_protocol
    wanted,      \* config.region
    direct,      \* a worker was configured, or an endpoint for all protocols
    phase,       \* where connect() or reconnect() is
    region,      \* the region discovery led to
    healthy,     \* the workers it listed as healthy
    queue,       \* ranked workers not tried yet
    worker,      \* config.selected_worker
    rung,        \* index in the ladder
    answer,      \* what each port has answered, None before it is dialed
    via,         \* the port over which the chain connected
    failures,    \* consecutive_failures of the monitor
    waited,      \* its last backoff, in ms; 0 after a success
    reconnects

config  == <<advert, preferred, wanted>>
choice  == <<direct, region, healthy>>
monitor == <<failures, waited, reconnects>>
vars    == <<config, choice, monitor, answer, phase, queue, worker, rung, via>>

Untouched == [w \in Workers |-> [p \in Ports |-> None]]

Init ==
    /\ advert \in [Workers -> Adverts]
    /\ preferred \in Protocols \cup {None}
    /\ wanted \in Regions \cup {None}
    /\ direct \in BOOLEAN
    /\ phase = IF direct THEN "trying" ELSE "discovering"
    /\ region = None /\ healthy = {}
    /\ queue = IF direct THEN <<1>> ELSE <<>>
    /\ worker = 1 /\ rung = 0
    /\ answer = Untouched
    /\ via = None
    /\ failures = 0 /\ waited = 0 /\ reconnects = 0

-----------------------------------------------------------------------------
(* Discovery and ranking.                                                   *)

\* best_region: the preferred one if it has a healthy worker, else the one the
\* service recommends, which nobody verifies.
BestRegion(well, recommended) ==
    IF wanted # None /\ \E w \in well : Home[w] = wanted THEN wanted ELSE recommended

Regional(r, well) == {w \in well : Home[w] = r}

\* The request fails, or no region or no healthy worker comes out of it.
DiscoverNothing ==
    /\ phase = "discovering"
    /\ \/ UNCHANGED <<region, healthy>>
       \/ \E well \in SUBSET Workers : \E recommended \in Regions \cup {None} :
            /\ Regional(BestRegion(well, recommended), well) = {}
            /\ region' = BestRegion(well, recommended)
            /\ healthy' = well
    /\ phase' = "failed"
    /\ UNCHANGED <<config, direct, answer, monitor, queue, worker, rung, via>>

Discover ==
    /\ phase = "discovering"
    /\ \E well \in SUBSET Workers : \E recommended \in Regions \cup {None} :
        /\ Regional(BestRegion(well, recommended), well) # {}
        /\ region' = BestRegion(well, recommended)
        /\ healthy' = well
    /\ phase' = "measuring"
    /\ UNCHANGED <<config, direct, answer, monitor, queue, worker, rung, via>>

\* sort_by_key: by latency, unreachable ones last, in the order of the response
\* where that does not decide.
Ranked(ws, rtt) ==
    {q \in SetToSeqs(ws) : \A i, j \in DOMAIN q : i < j =>
        rtt[q[i]] < rtt[q[j]] \/ (rtt[q[i]] = rtt[q[j]] /\ q[i] < q[j])}

\* measure_all; each measurement is the worker's or u64::MAX.
Measure ==
    /\ phase = "measuring"
    /\ \E rtt \in [Regional(region, healthy) -> {1, Unreachable}] :
        queue' \in Ranked(Regional(region, healthy), rtt)
    /\ phase' = "trying"
    /\ UNCHANGED <<config, choice, answer, monitor, worker, rung, via>>

-----------------------------------------------------------------------------
(* FallbackChain::connect.                                                  *)

Offered(w, i) == Ladder[i] \in advert[w].offers

\* Mutant: the rung that failed is tried again.
RungAgain(w, i) ==
    LET js == {j \in DOMAIN Ladder : j >= i /\ j # 0 /\ Offered(w, j)}
    IN  IF preferred # None \/ js = {} THEN 0
        ELSE CHOOSE j \in js : \A k \in js : j <= k

\* Mutant: the ladder goes on with the rung after the next.
RungSkips(w, i) ==
    LET js == {j \in DOMAIN Ladder : j > i + 1 /\ Offered(w, j)}
    IN  IF preferred # None \/ js = {} THEN 0
        ELSE CHOOSE j \in js : \A k \in js : j <= k

\* The next rung that worker w has an endpoint for, after rung i; 0 if there is
\* none.  A preferred protocol is tried alone.
NextRung(w, i) ==
    LET js == {j \in DOMAIN Ladder : j > i /\ Offered(w, j)}
    IN  IF preferred # None \/ js = {} THEN 0
        ELSE CHOOSE j \in js : \A k \in js : j <= k

\* A preferred protocol is tried whether or not the worker offers it.
FirstRung(w) ==
    IF preferred # None THEN CHOOSE i \in DOMAIN Ladder : Ladder[i] = preferred
    ELSE NextRung(w, 0)

\* Mutant: the first worker's failure is the error of connect().
GiveUpAtOnce(more) ==
    phase' = IF reconnects > 0 THEN "backoff" ELSE "failed"

\* Where a failure of the whole worker leads: to the next one, to the error of
\* connect(), or, in reconnect(), to the backoff.
GiveUp(more) ==
    phase' = IF reconnects > 0 THEN "backoff" ELSE IF more THEN "trying" ELSE "failed"

NextWorker ==
    /\ phase = "trying"
    /\ queue # <<>>
    /\ worker' = Head(queue)
    /\ queue' = Tail(queue)
    /\ rung' = FirstRung(Head(queue))
    /\ IF rung' = 0 THEN GiveUp(Tail(queue) # <<>>) ELSE phase' = "primary"
    /\ UNCHANGED <<config, choice, answer, monitor, via>>

\* What port p of worker w answers, now that it is dialed: outcome is it.  A port
\* that the worker does not have is get_endpoint's default on the local host.
Dial(w, p, outcome) ==
    /\ outcome = IF answer[w][p] = None THEN outcome ELSE answer[w][p]
    /\ answer' = [answer EXCEPT ![w][p] = outcome]

\* Mutant: the end of the ladder is not noticed.
DescendBlindly ==
    /\ rung' = NextRung(worker, rung)
    /\ phase' = "primary"

\* The ladder goes on to the next protocol, or the chain fails.
Descend ==
    /\ rung' = NextRung(worker, rung)
    /\ IF rung' = 0 THEN GiveUp(queue # <<>>) ELSE phase' = "primary"

Connects(p) ==
    /\ via' = p
    /\ phase' = "again"
    /\ UNCHANGED rung

Primary == <<Ladder[rung], "primary">>
Legacy  == <<Ladder[rung], "legacy">>

\* is_connect_failure, and with_legacy_endpoint is Some.
LegacyHelps(outcome) == outcome = "down" /\ Ladder[rung] \in advert[worker].legacy

DialPrimary ==
    /\ phase = "primary"
    /\ \E outcome \in Answers :
        /\ Dial(worker, Primary, outcome)
        /\ \/ outcome = "ok" /\ Connects(Primary)
           \/ LegacyHelps(outcome) /\ phase' = "legacy" /\ UNCHANGED <<rung, via>>
           \/ outcome # "ok" /\ ~LegacyHelps(outcome) /\ Descend /\ UNCHANGED via
    /\ UNCHANGED <<config, choice, monitor, queue, worker>>

\* Once; its error is the protocol's.
DialLegacy ==
    /\ phase = "legacy"
    /\ \E outcome \in Answers :
        /\ Dial(worker, Legacy, outcome)
        /\ \/ outcome = "ok" /\ Connects(Legacy)
           \/ outcome # "ok" /\ Descend /\ UNCHANGED via
    /\ UNCHANGED <<config, choice, monitor, queue, worker>>

-----------------------------------------------------------------------------
(* The second connect(), of client.rs and of reconnect(), with the           *)
(* configuration the chain was given.                                       *)

Done ==
    /\ phase' = "connected"
    /\ failures' = 0 /\ waited' = 0

\* QUIC finds that it is connected.
AgainOverQuic ==
    /\ phase = "again"
    /\ via[1] = "quic"
    /\ Done
    /\ UNCHANGED <<config, choice, answer, reconnects, queue, worker, rung, via>>

\* The others dial the primary port once more.
AgainDials ==
    /\ phase = "again"
    /\ via[1] # "quic"
    /\ \E outcome \in Answers :
        /\ Dial(worker, <<via[1], "primary">>, outcome)
        /\ \/ outcome = "ok" /\ Done
           \/ outcome # "ok" /\ GiveUp(queue # <<>>) /\ UNCHANGED <<failures, waited>>
    /\ UNCHANGED <<config, choice, reconnects, queue, worker, rung, via>>

-----------------------------------------------------------------------------
(* reconnect() and calculate_backoff, in the monitor's loop.                *)

\* The configuration holds the selected worker: no discovery.  The network is
\* whatever it is by now.
StartReconnect ==
    /\ phase' = "trying"
    /\ queue' = <<worker>>
    /\ direct' = TRUE
    /\ answer' = Untouched
    /\ via' = None

Reconnect ==
    /\ phase = "connected"
    /\ reconnects < MaxReconnects
    /\ reconnects' = reconnects + 1
    /\ StartReconnect
    /\ UNCHANGED <<config, region, healthy, worker, rung, failures, waited>>

MinOf(a, b) == IF a < b THEN a ELSE b

\* Exponential from 2 s, capped at one minute.
Base(attempt) == MinOf(1000 * 2^MinOf(attempt, 6), 60000)

\* Mutant: a jitter of +-50%.
WideBackoffs(attempt) ==
    {Base(attempt) - Base(attempt) \div 2, Base(attempt), Base(attempt) + Base(attempt) \div 2 - 1}

\* The ends and the middle of the range that the jitter of +-25% leaves.
Backoffs(attempt) ==
    {Base(attempt) - Base(attempt) \div 4, Base(attempt), Base(attempt) + Base(attempt) \div 4 - 1}

\* sleep(backoff), and the interval's next tick.
Backoff ==
    /\ phase = "backoff"
    /\ failures < MaxFailures
    /\ failures' = failures + 1
    /\ waited' \in Backoffs(failures + 1)
    /\ StartReconnect
    /\ UNCHANGED <<config, region, healthy, worker, rung, reconnects>>

Next ==
    \/ DiscoverNothing \/ Discover \/ Measure
    \/ NextWorker \/ DialPrimary \/ DialLegacy \/ AgainOverQuic \/ AgainDials
    \/ Reconnect \/ Backoff

Spec == Init /\ [][Next]_vars

\* Every attempt is bounded by a timeout of the chain, of the transport or of the
\* operating system; connect() and the monitor go on without being asked.
FairSpec == Spec /\ WF_vars(Next)
-----------------------------------------------------------------------------
(* Properties.                                                              *)

Phases == {"discovering", "measuring", "trying", "primary", "legacy", "again", "connected",
           "backoff", "failed"}

\* Every variable has its type; a phase of the chain has its rung, and its worker
\* is the one that was configured or a healthy one of the region.
TypeOK ==
    /\ advert \in [Workers -> Adverts] /\ preferred \in Protocols \cup {None}
    /\ wanted \in Regions \cup {None} /\ region \in Regions \cup {None}
    /\ direct \in BOOLEAN /\ healthy \subseteq Workers
    /\ phase \in Phases
    /\ queue \in Seq(Workers) /\ worker \in Workers
    /\ rung \in 0..Len(Ladder) /\ (phase \in {"primary", "legacy", "again"} => rung # 0)
    /\ answer \in [Workers -> [Ports -> Answers \cup {None}]]
    /\ via \in Ports \cup {None} /\ (phase \in {"again", "connected"} => via # None)
    /\ failures \in 0..MaxFailures /\ reconnects \in 0..MaxReconnects
    /\ waited \in Nat /\ waited < 75000

\* The ports of worker w for protocol p do not lead to a connection.
Closed(w, p) ==
    /\ answer[w][<<p, "primary">>] \in {"down", "denied"}
    /\ answer[w][<<p, "primary">>] = "down" /\ p \in advert[w].legacy =>
            answer[w][<<p, "legacy">>] \in {"down", "denied"}

\* The session is over the first protocol of the ladder that answers: all those
\* before it were dialed and found closed, on the legacy port as well where the
\* worker has one, and a preferred protocol is never replaced by another.
FirstThatAnswers ==
    phase \in {"again", "connected"} =>
        LET p == via[1] IN
        IF preferred # None THEN p = preferred
        ELSE \A i \in DOMAIN Ladder :
                i < rung /\ Offered(worker, i) => Closed(worker, Ladder[i])

\* Worker w took the chain over the legacy port of rung i, having closed on all before
\* it, and was lost in the second connect(), which dials the closed primary port.
DroppedAt(w, i) ==
    /\ Ladder[i] # "quic"
    /\ answer[w][<<Ladder[i], "legacy">>] = "ok"
    /\ answer[w][<<Ladder[i], "primary">>] \in {"down", "denied"}
    /\ IF preferred # None THEN Ladder[i] = preferred
       ELSE \A j \in DOMAIN Ladder : j < i /\ Offered(w, j) => Closed(w, Ladder[j])

Dropped(w) == \E i \in DOMAIN Ladder : DroppedAt(w, i)

\* connect() fails only when no worker was found, or when each healthy worker of
\* the region was dialed in vain on every protocol it offers.  The exception: a worker
\* dropped in the second connect() was dialed up to that rung only, since the chain
\* of that worker is not taken up again (client.rs:237-252).
NoneLeftUntried ==
    phase = "failed" /\ ~direct /\ Regional(region, healthy) # {} =>
        \A w \in Regional(region, healthy) :
            \/ Dropped(w)
            \/ \A p \in IF preferred # None THEN {preferred} ELSE advert[w].offers :
                    Closed(w, p)

\* Each wait between two attempts is longer than the one before it, whatever the
\* jitter, until the delay is at its cap.
BackoffGrows ==
    [][waited' # 0 /\ waited' # waited => waited' > waited \/ waited' >= 45000]_vars

\* connect() and each attempt to reconnect come to an end.
ConnectEnds == phase \notin {"connected", "failed", "backoff"} ~>
                    phase \in {"connected", "failed", "backoff"}

\* A worker that has accepted a connection is not given up as one that failed.
AcceptedIsKept == [][phase = "again" => phase' = "connected"]_vars
=============================================================================
