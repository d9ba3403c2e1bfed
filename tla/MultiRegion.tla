------------------------------ MODULE MultiRegion ------------------------------
(***************************************************************************)
(* MultiRegionClient (multi_region.rs), which keeps a SlipstreamClient per   *)
(* region and sends each transaction to the region the leader hints name,    *)
(* composed with the worker selector it asks before it connects.             *)
(*                                                                          *)
(* region_clients, current_routing and last_switch each have their RwLock.   *)
(* submit_to_region holds region_clients for reading while the region's      *)
(* client submits, however long that takes; a writer waits for it, and every *)
(* later reader behind the writer.                                          *)
(*                                                                          *)
(* The clients are the environment: they connect or fail to, and answer a    *)
(* submission with Ok or Err.  MaxClients and MaxCalls bound the clients  *)
(* connected, and the submissions, hints and calls of disconnect_all together. *)
(***************************************************************************)
EXTENDS Selector, Sequences, FiniteSets

CONSTANTS
    Updaters,     \* the hint listener and callers of update_routing_from_hint
    Regions,      \* those a hint may name; some may have no worker
    Hinted,       \* what hints recommend: a region and its backups, in order
    MaxBroadcast, \* max_broadcast_regions
    MaxClients, MaxCalls,
    None

Users   == Callers                              \* tasks that submit
Clients == 1..MaxClients
Served  == {Home[w] : w \in Workers}

ASSUME RegionsOK ==
    /\ IsFiniteSet(Workers) /\ Workers # {} /\ Workers = 1..Cardinality(Workers)
    /\ Home \in [Workers -> Regions]
    /\ IsFiniteSet(Updaters) /\ IsFiniteSet(Regions)
    /\ Hinted \subseteq Seq(Regions) \ {<<>>} /\ None \notin Hinted
    /\ MaxBroadcast \in Nat /\ MaxClients \in Nat \ {0} /\ MaxCalls \in Nat

VARIABLES
    clients,      \* region_clients: the client of each region, 0 if it has none
    created,      \* how many clients have connected so far
    live,         \* those connected and not disconnected since
    readers,      \* the users that hold region_clients for reading over a submission
    closing,      \* disconnect_all
    routing,      \* current_routing: the region and its fallbacks, None before the first
    cooling,      \* has last_switch been set within switch_cooldown_ms
    hint,         \* the hint that an updater found to be off cooldown
    switches,     \* history: region switches since the cooldown last ended
    at,           \* program counter of each user
    plan,         \* the regions its submission has still to try
    mine,         \* the client it connected, or submits with
    fan,          \* a broadcast's submissions
    told,         \* history: regions that it tried and that failed
    aim,          \* history: the regions it set out for
    started       \* calls of the application, and hints, so far

registry == <<clients, created, live, readers, closing>>
route    == <<routing, cooling, hint, switches>>
flow     == <<at, plan, mine, fan, told, aim>>
users    == <<flow, started>>
vars     == <<selector, registry, route, users>>

\* new() measured all workers and connected to the region of the best.
Init ==
    /\ SelectorInit
    /\ clients = [r \in Regions |-> IF r = Home[Best(Workers)] THEN 1 ELSE 0]
    /\ created = 1 /\ live = {1}
    /\ readers = {} /\ closing = "no"
    /\ routing = None /\ cooling = FALSE
    /\ hint = [h \in Updaters |-> None] /\ switches = 0
    /\ at = [u \in Users |-> "idle"] /\ plan = [u \in Users |-> <<>>]
    /\ mine = [u \in Users |-> 0]
    /\ fan = [u \in Users |-> [r \in Regions |-> "none"]]
    /\ told = [u \in Users |-> {}] /\ aim = [u \in Users |-> {}]
    /\ started = 0

CountCall == started < MaxCalls /\ started' = started + 1

-----------------------------------------------------------------------------
(* The lock of region_clients.                                              *)

WriterWaits == closing # "no" \/ \E u \in Users : at[u] = "inserting"
CanRead     == ~WriterWaits
CanWrite    == readers = {} /\ closing # "closing"

-----------------------------------------------------------------------------
(* update_routing_from_hint, and the listener, which does the same.          *)

Cooled == ~cooling

\* A hint arrives.  (One below the confidence threshold or within the cooldown
\* changes nothing.)
HintPasses(h) ==
    /\ hint[h] = None
    /\ CountCall
    /\ Cooled
    /\ \E recommended \in Hinted : hint' = [hint EXCEPT ![h] = recommended]
    /\ UNCHANGED <<selector, registry, routing, cooling, switches, flow>>

\* The routing lock is taken, last_switch set if the region changes, and the
\* recommendation stored, whatever its slot.
HintApplied(h) ==
    /\ hint[h] # None
    /\ IF routing = None \/ Head(hint[h]) # Head(routing)
       THEN cooling' = TRUE /\ switches' = switches + 1
       ELSE UNCHANGED <<cooling, switches>>
    /\ routing' = hint[h]
    /\ hint' = [hint EXCEPT ![h] = None]
    /\ UNCHANGED <<selector, registry, users>>

CooldownEnds ==
    /\ cooling
    /\ cooling' = FALSE /\ switches' = 0
    /\ UNCHANGED <<selector, registry, routing, hint, users>>

-----------------------------------------------------------------------------
(* submit_transaction_with_options.                                         *)

DefaultRegion == Home[CHOOSE w \in Workers : \A v \in Workers : w <= v]
Recommended   == IF routing = None THEN <<DefaultRegion>> ELSE routing

Moves(u, from, to) == at[u] = from /\ at' = [at EXCEPT ![u] = to]

SubmitStart(u) ==
    /\ Moves(u, "idle", "checking")
    /\ CountCall
    /\ plan' = [plan EXCEPT ![u] = Recommended]
    /\ aim' = [aim EXCEPT ![u] = {Recommended[i] : i \in DOMAIN Recommended}]
    /\ told' = [told EXCEPT ![u] = {}]
    /\ UNCHANGED <<selector, registry, route, mine, fan>>

\* Mutant: an error of the first region is returned.
NoFallback(u) == <<>>
Fallbacks(u)  == Tail(plan[u])

\* The region failed: the next one's turn, or "All regions failed".
RegionFails(u, from) ==
    /\ Moves(u, from, IF Fallbacks(u) = <<>> THEN "failed" ELSE "checking")
    /\ plan' = [plan EXCEPT ![u] = Fallbacks(u)]
    /\ told' = [told EXCEPT ![u] = @ \cup {Head(plan[u])}]
    /\ mine' = [mine EXCEPT ![u] = 0]
    /\ UNCHANGED <<fan, aim, started>>

\* "failed", or "done": the result is returned.
Returns(u) ==
    /\ at[u] \in {"failed", "done"}
    /\ at' = [at EXCEPT ![u] = "idle"]
    /\ plan' = [plan EXCEPT ![u] = <<>>]
    /\ aim' = [aim EXCEPT ![u] = {}] /\ told' = [told EXCEPT ![u] = {}]
    /\ UNCHANGED <<selector, registry, route, mine, fan, started>>

-----------------------------------------------------------------------------
(* ensure_region_connected and submit_to_region.                            *)

\* The region's client is there.
EnsureFinds(u) ==
    /\ CanRead
    /\ Moves(u, "checking", "getting")
    /\ clients[Head(plan[u])] # 0
    /\ UNCHANGED <<selector, registry, route, plan, mine, fan, told, aim, started>>

\* Mutant: the guard of the check is kept while the client connects.
StillHeld(u) == readers \cup {u}
Released(u)  == readers

HasWorkersAnyway(r) == TRUE                      \* Mutant: no check
HasWorkers(r)       == r \in Served

\* It is not, and no lock is held from here on.
EnsureSelects(u) ==
    /\ CanRead
    /\ Moves(u, "checking", "selecting")
    /\ clients[Head(plan[u])] = 0 /\ HasWorkers(Head(plan[u]))
    /\ Ask(u, WorkersOf(Head(plan[u])))
    /\ readers' = Released(u)
    /\ UNCHANGED <<clients, created, live, closing, route, plan, mine, fan, told, aim, started>>

\* No worker in the region.
EnsureRefuses(u) ==
    /\ CanRead
    /\ RegionFails(u, "checking")
    /\ clients[Head(plan[u])] = 0 /\ ~HasWorkers(Head(plan[u]))
    /\ UNCHANGED <<selector, registry, route>>

EnsureChooses(u) ==
    /\ Moves(u, "selecting", "connecting")
    /\ Choose(u)
    /\ UNCHANGED <<registry, route, plan, mine, fan, told, aim, started>>

\* SlipstreamClient::connect to the worker chosen.
EnsureConnects(u) ==
    /\ Moves(u, "connecting", "inserting")
    /\ created < MaxClients
    /\ created' = created + 1
    /\ live' = live \cup {created'}
    /\ mine' = [mine EXCEPT ![u] = created']
    /\ UNCHANGED <<selector, clients, readers, closing, route, plan, fan, told, aim, started>>

EnsureFails(u) ==
    /\ RegionFails(u, "connecting")
    /\ UNCHANGED <<selector, registry, route>>

\* The client a concurrent call may have inserted is dropped; the tasks that
\* keep its connection are not (ClientHealth).
EnsureInserts(u) ==
    /\ CanWrite
    /\ Moves(u, "inserting", "getting")
    /\ clients' = [clients EXCEPT ![Head(plan[u])] = mine[u]]
    /\ mine' = [mine EXCEPT ![u] = 0]
    /\ UNCHANGED <<selector, created, live, readers, closing, route, plan, fan, told, aim, started>>

\* Mutant: the client is cloned and the lock released before the submission.
NotHeld(u) == readers
Held(u)    == readers \cup {u}

\* The lock is read again: the client, if it is still there, submits under it.
SubmitSends(u) ==
    /\ CanRead
    /\ Moves(u, "getting", "submitting")
    /\ clients[Head(plan[u])] # 0
    /\ readers' = Held(u)
    /\ mine' = [mine EXCEPT ![u] = clients[Head(plan[u])]]
    /\ UNCHANGED <<selector, clients, created, live, closing, route, plan, fan, told, aim, started>>

\* disconnect_all came in between.
SubmitFindsNone(u) ==
    /\ CanRead
    /\ RegionFails(u, "getting")
    /\ clients[Head(plan[u])] = 0
    /\ UNCHANGED <<selector, registry, route>>

SubmitOk(u) ==
    /\ Moves(u, "submitting", "done")
    /\ readers' = readers \ {u}
    /\ mine' = [mine EXCEPT ![u] = 0]
    /\ UNCHANGED <<selector, clients, created, live, closing, route, plan, fan, told, aim, started>>

SubmitErr(u) ==
    /\ RegionFails(u, "submitting")
    /\ readers' = readers \ {u}
    /\ UNCHANGED <<selector, clients, created, live, closing, route>>

-----------------------------------------------------------------------------
(* broadcast_transaction.                                                   *)

\* get_broadcast_regions: the nearest ones, by measurements of any age, whether
\* or not they have a client.
Nearest(rs) ==
    Cardinality(rs) = IF Cardinality(Served) < MaxBroadcast THEN Cardinality(Served)
                      ELSE MaxBroadcast

BroadcastStart(u) ==
    /\ Moves(u, "idle", "cloning")
    /\ CountCall
    /\ \E rs \in SUBSET Served : Nearest(rs) /\ aim' = [aim EXCEPT ![u] = rs]
    /\ told' = [told EXCEPT ![u] = {}]
    /\ UNCHANGED <<selector, registry, route, plan, mine, fan>>

\* The client of region r is cloned, under the lock, and a task submits with it
\* when the lock is free again; without one it fails.
BroadcastClones(u, r) ==
    /\ CanRead
    /\ at[u] = "cloning"
    /\ r \in aim[u] \ told[u] /\ fan[u][r] = "none"
    /\ IF clients[r] # 0
       THEN fan' = [fan EXCEPT ![u][r] = "out"] /\ UNCHANGED told
       ELSE told' = [told EXCEPT ![u] = @ \cup {r}] /\ UNCHANGED fan
    /\ UNCHANGED <<selector, registry, route, at, plan, mine, aim, started>>

\* The handles are awaited, one after the other.
BroadcastAwaits(u) ==
    /\ Moves(u, "cloning", "awaiting")
    /\ \A r \in aim[u] : fan[u][r] = "out" \/ r \in told[u]
    /\ UNCHANGED <<selector, registry, route, plan, mine, fan, told, aim, started>>

BroadcastOk(u, r) ==
    /\ Moves(u, "awaiting", "done")
    /\ fan[u][r] = "out"
    /\ fan' = [fan EXCEPT ![u] = [q \in Regions |-> "none"]]
    /\ UNCHANGED <<selector, registry, route, plan, mine, told, aim, started>>

BroadcastErr(u, r) ==
    /\ at[u] = "awaiting"
    /\ fan[u][r] = "out"
    /\ fan' = [fan EXCEPT ![u][r] = "none"]
    /\ told' = [told EXCEPT ![u] = @ \cup {r}]
    /\ UNCHANGED <<selector, registry, route, at, plan, mine, aim, started>>

BroadcastFails(u) ==
    /\ Moves(u, "awaiting", "failed")
    /\ \A r \in Regions : fan[u][r] = "none"
    /\ UNCHANGED <<selector, registry, route, plan, mine, fan, told, aim, started>>

-----------------------------------------------------------------------------
(* disconnect_all.                                                          *)

CloseStart ==
    /\ closing = "no" /\ closing' = "waiting"
    /\ CountCall
    /\ UNCHANGED <<selector, clients, created, live, readers, route, flow>>

CloseLocks ==
    /\ CanWrite /\ closing = "waiting"
    /\ closing' = "closing"
    /\ UNCHANGED <<selector, clients, created, live, readers, route, users>>

\* The next client of the map disconnects; an error is logged.  (It waits for the
\* submissions a broadcast has under way with that client.)
CloseOne(r) ==
    /\ closing = "closing" /\ clients[r] \in live
    /\ live' = live \ {clients[r]}
    /\ clients' = [clients EXCEPT ![r] = 0]
    /\ UNCHANGED <<selector, created, readers, closing, route, users>>

CloseReturns ==
    /\ closing = "closing"
    /\ \A r \in Regions : clients[r] \notin live
    /\ closing' = "no"
    /\ UNCHANGED <<selector, clients, created, live, readers, route, users>>

-----------------------------------------------------------------------------

Selecting(u) ==
    \/ \E w \in Workers : PingEnds(u, w) \/ PingStored(u, w)
    \/ Measured(u)

SelectorStep(u) == Selecting(u) /\ UNCHANGED <<registry, route, users>>

WorkerForgotten(w) == Forget(w) /\ UNCHANGED <<registry, route, users>>

\* What a submission does itself, in bounded time once it has its lock.
Advances(u) ==
    \/ EnsureFinds(u) \/ EnsureSelects(u) \/ EnsureRefuses(u) \/ EnsureChooses(u)
    \/ EnsureConnects(u) \/ EnsureFails(u) \/ EnsureInserts(u)
    \/ SubmitSends(u) \/ SubmitFindsNone(u)
    \/ (\E r \in Regions : BroadcastClones(u, r))
    \/ BroadcastAwaits(u) \/ BroadcastFails(u)
    \/ Returns(u) \/ SelectorStep(u)

\* What it waits for: a client answers.
Answered(u) ==
    \/ SubmitOk(u) \/ SubmitErr(u)
    \/ \E r \in Regions : BroadcastOk(u, r) \/ BroadcastErr(u, r)

Proceeds(u) == Advances(u) \/ Answered(u)

Closes == CloseLocks \/ (\E r \in Regions : CloseOne(r)) \/ CloseReturns

Next ==
    \/ \E u \in Users : SubmitStart(u) \/ BroadcastStart(u) \/ Proceeds(u)
    \/ \E h \in Updaters : HintPasses(h) \/ HintApplied(h)
    \/ \E w \in Workers : WorkerForgotten(w)
    \/ CooldownEnds \/ CloseStart \/ Closes

Spec == Init /\ [][Next]_vars

\* Locks are granted, pings time out and connect() ends (Connecting).  Nothing is
\* assumed of the clients' submissions and disconnects: over QUIC, gRPC and
\* WebSocket there are submissions that nothing limits.
FairSpec ==
    /\ Spec
    /\ \A u \in Users : WF_vars(Advances(u))
    /\ WF_vars(CloseLocks) /\ WF_vars(CloseReturns)
-----------------------------------------------------------------------------
(* Properties.                                                              *)

SelectorOK ==
    /\ cache \in [Workers -> Rtts \cup {0}]
    /\ asks \in [Users -> {"no", "measuring", "choosing"}]
    /\ scope \in [Users -> SUBSET Workers]
    /\ pings \in [Users -> [Workers -> {"none", "out", "up", "down"}]]

RegistryOK ==
    /\ clients \in [Regions -> 0..created] /\ created \in 1..MaxClients
    /\ live \subseteq 1..created
    /\ readers \subseteq Users
    /\ closing \in {"no", "waiting", "closing"}

RouteOK ==
    /\ routing \in Hinted \cup {None} /\ cooling \in BOOLEAN
    /\ hint \in [Updaters -> Hinted \cup {None}]
    /\ switches \in Nat

Step == {"idle", "checking", "selecting", "connecting", "inserting", "getting", "submitting",
         "cloning", "awaiting", "failed", "done"}

UsersOK ==
    /\ at \in [Users -> Step] /\ plan \in [Users -> Seq(Regions)]
    /\ mine \in [Users -> 0..created]
    /\ fan \in [Users -> [Regions -> {"none", "out"}]]
    /\ told \in [Users -> SUBSET Regions] /\ aim \in [Users -> SUBSET Regions]
    /\ started \in 0..MaxCalls
    /\ \A u \in Users : at[u] \in {"selecting", "connecting", "inserting"} =>
            plan[u] # <<>> /\ Head(plan[u]) \in Served
    /\ \A u \in Users : at[u] \in {"cloning", "awaiting"} => Cardinality(aim[u]) <= MaxBroadcast

\* Every variable has its type; a client is connected only for a region that has a
\* worker, and a broadcast goes to no more regions than it may.
TypeOK == SelectorOK /\ RegistryOK /\ RouteOK /\ UsersOK

\* disconnect_all never disconnects a client under a submission that was routed
\* to its region, also when another call has replaced the client meanwhile.
NotCutOff == \A u \in Users : at[u] = "submitting" => mine[u] \in live

\* A submission fails only after every region of the recommendation it read has
\* failed; a broadcast, after every region it set out for.
FailsAfterAll == \A u \in Users : at[u] = "failed" => told[u] = aim[u]

\* The cooldown lets the region be switched once (types.rs:736, "Cooldown between
\* region switches (ms)").
OneSwitchPerCooldown == switches <= 1

\* Within one cooldown each updater switches the region at most once: the
\* cooldown is read before the routing lock is taken, so that it bounds the
\* switches by the number of updaters only.
SwitchesBounded == switches <= Cardinality(Updaters)

\* Some submission holds region_clients over the call of its client, and a writer
\* waits behind it.
HeldUp(v) == at[v] = "submitting" /\ WriterWaits

\* A submission that never returns waits for the answer of a client: its own; or
\* that of another submission, which holds the map with a writer between the two;
\* or for a client that disconnect_all disconnects.  Where the clients answer,
\* every submission returns, whatever becomes of the pings, the connections and
\* the calls it runs beside.
SubmitReturns ==
    \A u \in Users : <>[](at[u] # "idle") =>
        \/ <>[](at[u] \in {"submitting", "awaiting"})
        \/ \E v \in Users : <>[]HeldUp(v)
        \/ <>[](closing = "closing")

\* When disconnect_all returns, no client is connected any more but one that a
\* call under way has yet to insert.
NothingLeft ==
    [][closing = "closing" /\ closing' = "no" =>
         live \subseteq {mine[u] : u \in {v \in Users : at[v] = "inserting"}}]_vars
=============================================================================
