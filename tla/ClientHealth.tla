------------------------------ MODULE ClientHealth ------------------------------
(***************************************************************************)
(* One SlipstreamClient after finish_connect (client.rs): the slot           *)
(* Arc<RwLock<Box<dyn Transport>>> that every call reads, the health         *)
(* monitor's loop (connection/health.rs) that puts a new transport into it,  *)
(* the keepalive task, and the application's calls of submit_transaction,    *)
(* subscribe_* and disconnect.                                              *)
(*                                                                          *)
(* A transport is what the slot's users see of it: the flag that             *)
(* is_connected() returns, the state of its link and the streams requested   *)
(* on it.  All four transports set the flag in connect() and clear it only   *)
(* in disconnect().  The delay between two reconnects (calculate_backoff)    *)
(* and the metrics do not change what happens and are left out.             *)
(***************************************************************************)
EXTENDS Naturals

CONSTANTS
    Callers,         \* tasks of the application that call the client
    Streams,         \* stream types, as the SubscriptionTracker tells them apart
    Keepalive,       \* config.keepalive
    MaxDisconnects   \* bound: calls of disconnect()

Monitor == "monitor"
Keeper  == "keeper"
Parties == Callers \cup {Monitor, Keeper}
Calls   == Streams \cup {"submit", "disconnect"}

\* A transport is replaced only after a disconnect(): see ReplacedOnlyAfterDisconnect.
Transports == 1..(MaxDisconnects + 1)

ASSUME ClientOK ==
    /\ {Monitor, Keeper} \cap Callers = {}
    /\ {"submit", "disconnect"} \cap Streams = {}
    /\ Keepalive \in BOOLEAN
    /\ MaxDisconnects \in Nat

VARIABLES
    slot,        \* the transport in the slot
    flag,        \* is_connected() of each transport
    link,        \* does its connection still exist
    requested,   \* the streams the worker was asked for on each transport
    mode,        \* the lock on the slot: who holds or awaits it, and how
    ahead,       \* those who had asked for the lock before
    monitor,     \* program counter of monitor_loop
    pending,     \* streams resubscribe() has still to request
    keepalive,   \* program counter of the keepalive task
    tracked,     \* the SubscriptionTracker
    call,        \* program counter of each caller
    wants,       \* what it calls
    on,          \* the transport it found in the slot
    asked        \* calls of disconnect() so far

transports == <<slot, flag, link, requested>>
lock == <<mode, ahead>>
app  == <<call, wants, on, asked>>
vars == <<transports, lock, monitor, pending, keepalive, tracked, app>>

Init ==
    /\ slot = 1
    /\ flag = [t \in Transports |-> t = 1]
    /\ link = [t \in Transports |-> IF t = 1 THEN "up" ELSE "none"]
    /\ requested = [t \in Transports |-> {}]
    /\ mode = [p \in Parties |-> "none"]
    /\ ahead = [p \in Parties |-> {}]
    /\ monitor = "ticking" /\ pending = {}
    /\ keepalive = IF Keepalive THEN "ticking" ELSE "off"
    /\ tracked = {}
    /\ call = [c \in Callers |-> "idle"]
    /\ wants = [c \in Callers |-> "submit"]
    /\ on = [c \in Callers |-> 1]
    /\ asked = 0

-----------------------------------------------------------------------------
(* tokio's RwLock: first come, first served; readers share it.              *)

Request(p, how) ==
    /\ mode' = [mode EXCEPT ![p] = how]
    /\ ahead' = [ahead EXCEPT ![p] = {q \in Parties : mode[q] # "none"}]

Release(p) ==
    /\ mode' = [mode EXCEPT ![p] = "none"]
    /\ ahead' = [q \in Parties |-> IF q = p THEN {} ELSE ahead[q] \ {p}]

Granted(p) ==
    \/ mode[p] = "read" /\ \A q \in ahead[p] : mode[q] = "read"
    \/ mode[p] = "write" /\ ahead[p] = {}

-----------------------------------------------------------------------------
(* The application.  A call holds the lock from the moment it gets it until  *)
(* it returns.                                                              *)

Submit(c) ==
    /\ call[c] = "idle"
    /\ call' = [call EXCEPT ![c] = "queued"]
    /\ wants' = [wants EXCEPT ![c] = "submit"]
    /\ Request(c, "read")
    /\ UNCHANGED <<transports, monitor, pending, keepalive, tracked, on, asked>>

\* subscribe_*: the stream is tracked before anything else.
Subscribe(c) ==
    /\ call[c] = "idle"
    /\ \E s \in Streams :
        /\ tracked' = tracked \cup {s}
        /\ wants' = [wants EXCEPT ![c] = s]
    /\ call' = [call EXCEPT ![c] = "queued"]
    /\ Request(c, "read")
    /\ UNCHANGED <<transports, monitor, pending, keepalive, on, asked>>

\* disconnect(): the first call takes the keepalive task's handle and aborts the
\* task (KeepaliveAborted), every call then asks for the lock as a writer.
Disconnect(c) ==
    /\ call[c] = "idle"
    /\ asked < MaxDisconnects
    /\ asked' = asked + 1
    /\ wants' = [wants EXCEPT ![c] = "disconnect"]
    /\ call' = [call EXCEPT ![c] = "queued"]
    /\ Request(c, "write")
    /\ UNCHANGED <<transports, monitor, pending, keepalive, tracked, on>>

Enter(c) ==
    /\ call[c] = "queued"
    /\ Granted(c)
    /\ call' = [call EXCEPT ![c] = "inside"]
    /\ on' = [on EXCEPT ![c] = slot]
    /\ UNCHANGED <<transports, lock, monitor, pending, keepalive, tracked, wants, asked>>

Ends(c) ==
    /\ call[c] = "inside"
    /\ call' = [call EXCEPT ![c] = "idle"]
    /\ Release(c)

SubmitReturns(c) ==
    /\ wants[c] = "submit"
    /\ Ends(c)
    /\ UNCHANGED <<transports, monitor, pending, keepalive, tracked, wants, on, asked>>

\* A transport takes a subscription when its flag is set; on a dead link the
\* request fails or is lost.
Takes(t) == flag[t] /\ link[t] = "up"

SubscribeReturns(c) ==
    /\ wants[c] \in Streams
    /\ Ends(c)
    /\ requested' = IF Takes(slot) THEN [requested EXCEPT ![slot] = @ \cup {wants[c]}]
                    ELSE requested
    /\ UNCHANGED <<slot, flag, link, monitor, pending, keepalive, tracked, wants, on, asked>>

DisconnectReturns(c) ==
    /\ wants[c] = "disconnect"
    /\ Ends(c)
    /\ flag' = [flag EXCEPT ![slot] = FALSE]
    /\ link' = [link EXCEPT ![slot] = "down"]
    /\ UNCHANGED <<slot, requested, monitor, pending, keepalive, tracked, wants, on, asked>>

-----------------------------------------------------------------------------
(* monitor_loop, reconnect and resubscribe.                                 *)

MonitorTick ==
    /\ monitor = "ticking"
    /\ monitor' = "checking"
    /\ Request(Monitor, "read")
    /\ UNCHANGED <<transports, pending, keepalive, tracked, app>>

\* Mutant: the monitor reconnects whatever it found.
AlwaysDials ==
    /\ monitor = "checking"
    /\ Granted(Monitor)
    /\ monitor' = "dialing"
    /\ Release(Monitor)
    /\ UNCHANGED <<transports, pending, keepalive, tracked, app>>

MonitorCheck ==
    /\ monitor = "checking"
    /\ Granted(Monitor)
    /\ monitor' = IF flag[slot] THEN "ticking" ELSE "dialing"
    /\ Release(Monitor)
    /\ UNCHANGED <<transports, pending, keepalive, tracked, app>>

\* Mutant: one failed attempt ends the loop.
GivesUp ==
    /\ monitor = "dialing"
    /\ monitor' = "stopped"
    /\ UNCHANGED <<transports, lock, pending, keepalive, tracked, app>>

\* The fallback chain, or the second connect() of its result, fails.  After the
\* backoff the loop ticks again.
DialFails ==
    /\ monitor = "dialing"
    /\ monitor' = "ticking"
    /\ UNCHANGED <<transports, lock, pending, keepalive, tracked, app>>

\* A new transport is connected; reconnect() asks for the lock as a writer.
DialSucceeds ==
    /\ monitor = "dialing"
    /\ slot + 1 \in Transports
    /\ flag' = [flag EXCEPT ![slot + 1] = TRUE]
    /\ link' = [link EXCEPT ![slot + 1] = "up"]
    /\ monitor' = "installing"
    /\ Request(Monitor, "write")
    /\ UNCHANGED <<slot, requested, pending, keepalive, tracked, app>>

\* Mutant: the replacement does not wait for the lock.
InstallAtOnce ==
    /\ monitor = "installing"
    /\ slot' = slot + 1
    /\ link' = [link EXCEPT ![slot] = "down"]
    /\ monitor' = "replaced"
    /\ Release(Monitor)
    /\ UNCHANGED <<flag, requested, pending, keepalive, tracked, app>>

\* The old transport is dropped in the assignment.
Install ==
    /\ monitor = "installing"
    /\ Granted(Monitor)
    /\ slot' = slot + 1
    /\ link' = [link EXCEPT ![slot] = "down"]
    /\ monitor' = "replaced"
    /\ Release(Monitor)
    /\ UNCHANGED <<flag, requested, pending, keepalive, tracked, app>>

\* Mutant: only what was requested on the old transport is requested again.
SnapshotOfOld ==
    /\ monitor = "replaced"
    /\ pending' = requested[slot - 1]
    /\ \/ pending' = {} /\ monitor' = "ticking" /\ UNCHANGED lock
       \/ pending' # {} /\ monitor' = "resubscribing" /\ Request(Monitor, "read")
    /\ UNCHANGED <<transports, keepalive, tracked, app>>

\* resubscribe(): active_streams() is read before the lock is asked for.
Snapshot ==
    /\ monitor = "replaced"
    /\ pending' = tracked
    /\ \/ tracked = {} /\ monitor' = "ticking" /\ UNCHANGED lock
       \/ tracked # {} /\ monitor' = "resubscribing" /\ Request(Monitor, "read")
    /\ UNCHANGED <<transports, keepalive, tracked, app>>

\* One subscription after the other, in no particular order; the receivers are
\* dropped, and a failure is only logged.
Resubscribe ==
    /\ monitor = "resubscribing"
    /\ Granted(Monitor)
    /\ \E s \in pending :
        /\ pending' = pending \ {s}
        /\ requested' = IF Takes(slot) THEN [requested EXCEPT ![slot] = @ \cup {s}]
                        ELSE requested
    /\ UNCHANGED <<slot, flag, link, lock, monitor, keepalive, tracked, app>>

ResubscribeDone ==
    /\ monitor = "resubscribing"
    /\ Granted(Monitor)
    /\ pending = {}
    /\ monitor' = "ticking"
    /\ Release(Monitor)
    /\ UNCHANGED <<transports, pending, keepalive, tracked, app>>

-----------------------------------------------------------------------------
(* The keepalive task.                                                      *)

KeepaliveTick ==
    /\ keepalive = "ticking"
    /\ keepalive' = "checking"
    /\ Request(Keeper, "read")
    /\ UNCHANGED <<transports, monitor, pending, tracked, app>>

KeepaliveCheck ==
    /\ keepalive = "checking"
    /\ Granted(Keeper)
    /\ \/ flag[slot] /\ keepalive' = "pinging" /\ UNCHANGED lock
       \/ ~flag[slot] /\ keepalive' = "ended" /\ Release(Keeper)
    /\ UNCHANGED <<transports, monitor, pending, tracked, app>>

\* Mutant: the guard of the lock outlives the loop.
PingKeepsLock ==
    /\ keepalive = "pinging"
    /\ \/ link[slot] = "up" /\ keepalive' = "ticking" /\ Release(Keeper)
       \/ keepalive' = "ended" /\ UNCHANGED lock
    /\ UNCHANGED <<transports, monitor, pending, tracked, app>>

\* The ping succeeds (on a live link, where the transport has one) or fails.
PingReturns ==
    /\ keepalive = "pinging"
    /\ \/ link[slot] = "up" /\ keepalive' = "ticking"
       \/ keepalive' = "ended"
    /\ Release(Keeper)
    /\ UNCHANGED <<transports, monitor, pending, tracked, app>>

\* An aborted task is dropped, with what it holds, once it is not being polled.
KeepaliveAborted ==
    /\ asked > 0
    /\ keepalive \in {"ticking", "checking", "pinging"}
    /\ keepalive' = "ended"
    /\ Release(Keeper)
    /\ UNCHANGED <<transports, monitor, pending, tracked, app>>

-----------------------------------------------------------------------------
\* The network, or the worker, ends a connection (external).
LinkDrops ==
    /\ \E t \in Transports : link[t] = "up" /\ link' = [link EXCEPT ![t] = "down"]
    /\ UNCHANGED <<slot, flag, requested, lock, monitor, pending, keepalive, tracked, app>>

MonitorStep ==
    \/ MonitorTick \/ MonitorCheck \/ DialFails \/ DialSucceeds \/ Install
    \/ Snapshot \/ Resubscribe \/ ResubscribeDone

KeepaliveStep == KeepaliveTick \/ KeepaliveCheck \/ PingReturns \/ KeepaliveAborted

CallStep(c) ==
    \/ Enter(c) \/ SubmitReturns(c)
    \/ SubscribeReturns(c) \/ DisconnectReturns(c)

Next ==
    \/ \E c \in Callers : Submit(c) \/ Subscribe(c) \/ Disconnect(c) \/ CallStep(c)
    \/ MonitorStep \/ KeepaliveStep \/ LinkDrops

Spec == Init /\ [][Next]_vars

\* Tokio runs every task that can run, and the calls of a transport return (see
\* WsTransport and QuicTransport for where they may not).  A worker that is dialed
\* again and again is reached at last: so much must be granted to LostLinkReplaced,
\* which fails all the same; no other property uses it.
Fairness ==
    /\ WF_vars(MonitorStep)
    /\ SF_vars(DialSucceeds)
    /\ WF_vars(KeepaliveStep)
    /\ \A c \in Callers : WF_vars(CallStep(c))

FairSpec == Spec /\ Fairness
-----------------------------------------------------------------------------
(* Properties.                                                              *)

MonitorState == {"ticking", "checking", "dialing", "installing", "replaced", "resubscribing"}
KeepaliveState == {"off", "ticking", "checking", "pinging", "ended"}
CallState == {"idle", "queued", "inside"}

TransportsOK ==
    /\ slot \in Transports
    /\ flag \in [Transports -> BOOLEAN]
    /\ link \in [Transports -> {"none", "up", "down"}]
    /\ requested \in [Transports -> SUBSET Streams]

LockOK ==
    /\ mode \in [Parties -> {"none", "read", "write"}]
    /\ ahead \in [Parties -> SUBSET Parties]

TasksOK ==
    /\ monitor \in MonitorState
    /\ pending \subseteq Streams
    /\ keepalive \in KeepaliveState
    /\ tracked \subseteq Streams

AppOK ==
    /\ call \in [Callers -> CallState]
    /\ wants \in [Callers -> Calls]
    /\ on \in [Callers -> Transports]
    /\ asked \in 0..MaxDisconnects

\* Every variable has its type.
TypeOK == TransportsOK /\ LockOK /\ TasksOK /\ AppOK

\* A call ends on the transport it began on: reconnect() never swaps the
\* transport under a submission or a subscription in progress.
CallsKeepTheirTransport ==
    \A c \in Callers : call[c] = "inside" => on[c] = slot

\* A transport that calls itself connected is never replaced, although the
\* monitor decides on a flag it read under a lock it has long released.
ReplacedOnlyAfterDisconnect ==
    [][slot' # slot => ~flag[slot] /\ asked > 0]_vars

\* Who uses the transport in the slot, and which one: calls, and pings.
Users == Callers \cup {Keeper}

Uses(u) ==
    IF u = Keeper THEN IF keepalive = "pinging" THEN slot ELSE 0
    ELSE IF call[u] = "inside" THEN on[u] ELSE 0

Using == [u \in Users |-> Uses(u)]

Closers == {c \in Callers : call[c] = "inside" /\ wants[c] = "disconnect"}

\* Of the transports that have been in the slot, those whose flag is set.
Usable == {t \in 1..slot : flag[t]}

Cell == INSTANCE TransportCell WITH
            cell <- slot, usable <- Usable, using <- Using, closing <- Closers

\* The lock, the monitor and its dial of some seconds ago together keep what the
\* slot promises: no call and no ping sees its transport replaced or closed under
\* it, and none but a closed one is replaced, by one that is connected.
SlotKeepsPromise == Cell!Spec

\* The call of c asks for s and has not come back.
OnItsWay(c, s) == wants[c] = s /\ call[c] \in {"queued", "inside"}

\* No stream the application asked for is forgotten across a reconnect: when the
\* monitor is done, a live transport in the slot has been asked for every
\* tracked stream, or a caller is about to ask, whatever the order of its
\* track(), the replacement and the monitor's snapshot.
StreamsFollow ==
    flag[slot] /\ link[slot] = "up" /\ monitor # "replaced" =>
        \A s \in tracked :
            \/ s \in requested[slot]
            \/ monitor = "resubscribing" /\ s \in pending
            \/ \E c \in Callers : OnItsWay(c, s)

\* disconnect() disconnects, for good: only connect() makes a new connection.
\* Refuted: the monitor takes a cleared flag for a lost connection and dials.
StaysDisconnected ==
    [][~flag[slot] => ~flag'[slot']]_vars

\* A lost connection is replaced by a new one, unless the user disconnects.
\* Refuted: nothing but disconnect() clears the flag that the monitor reads.
LostLinkReplaced ==
    link[slot] = "down" /\ asked = 0 ~> link[slot] = "up" \/ asked > 0

\* Every call gets its turn at the transport and returns, whatever the others,
\* the monitor and the keepalive task do.
EveryCallReturns == \A c \in Callers : call[c] # "idle" ~> call[c] = "idle"
=============================================================================
