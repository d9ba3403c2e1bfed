------------------------------- MODULE Submission -------------------------------
(***************************************************************************)
(* Submissions of one SlipstreamClient (client.rs): the client-side          *)
(* DedupCache and the counters of ClientMetrics, shared by tasks that call   *)
(* submit_transaction concurrently.                                         *)
(*                                                                          *)
(* The check of the cache, the transport's submit_transaction, each counter  *)
(* and the record are separate steps: between any two of them the other      *)
(* tasks run.  The wait for the slot's lock (ClientHealth) is part of the    *)
(* wait for the transport.                                                  *)
(***************************************************************************)
EXTENDS Naturals, FiniteSets

CONSTANTS
    Callers,      \* tasks that submit
    Txs,          \* transactions, told apart by their bytes
    Ttl,          \* DedupCache.ttl (60 s)
    Limit,        \* entries beyond which record() prunes (1000)
    MaxTime,      \* bound: the clock
    MaxCalls      \* bound: submissions that reach the transport

\* The statuses of a TransactionResult: "sent" stands for those that are not
\* final, "failed" for every refusal that the worker gives as an answer.  A call
\* returns one of them with Ok, or Err.
Statuses == {"confirmed", "sent", "failed"}
Answers  == Statuses \cup {"error"}

ASSUME ConstantsOK ==
    /\ IsFiniteSet(Txs)
    /\ Ttl \in Nat /\ Limit \in Nat /\ MaxTime \in Nat /\ MaxCalls \in Nat

VARIABLES
    now,          \* Instant::now()
    entries,      \* DedupCache.entries: from transactions to instants
    submitted,    \* ClientMetrics
    confirmed,
    latency,      \* total_latency_ms
    call,         \* program counter of each caller
    tx,           \* what it submits
    start,        \* when it went to the transport
    took,         \* elapsed_ms
    answer,       \* result: the status in Ok, or "error"
    \* what happened, for the properties
    recorded,     \* [t: transaction, at: instant, as: status] of each record()
    sent,         \* submissions given to the transport
    oks,          \* those answered Ok, whatever the status
    spent         \* the time they took, summed

cache    == <<entries, recorded>>
counters == <<submitted, confirmed, latency>>
history  == <<sent, oks, spent>>
calls    == <<call, tx, start, took, answer>>
vars     == <<now, cache, counters, history, calls>>

Init ==
    /\ now = 0
    /\ entries = [t \in {} |-> 0] /\ recorded = {}
    /\ submitted = 0 /\ confirmed = 0 /\ latency = 0
    /\ sent = 0 /\ oks = 0 /\ spent = 0
    /\ call = [c \in Callers |-> "idle"]
    /\ tx \in [Callers -> Txs]
    /\ start = [c \in Callers |-> 0] /\ took = [c \in Callers |-> 0]
    /\ answer = [c \in Callers |-> "error"]

\* result.is_ok(): also of a transaction the worker refused.
IsOk(c) == answer[c] \in Statuses

Move(c, from, to) == call[c] = from /\ call' = [call EXCEPT ![c] = to]

-----------------------------------------------------------------------------
(* DedupCache.                                                              *)

Fresh(since) == now - since < Ttl

\* Mutant: an entry is good for as long as it is there.
KnownAtAll(t) == t \in DOMAIN entries

IsDuplicate(t) == t \in DOMAIN entries /\ Fresh(entries[t])

\* Mutant: beyond the limit the cache starts anew.
PrunedToNothing(es) == IF Cardinality(DOMAIN es) > Limit THEN [t \in {} |-> 0] ELSE es

\* Mutant: nothing is ever removed.
PrunedNever(es) == es

\* entries.retain(): only beyond the limit, and only what has expired.
Pruned(es) ==
    IF Cardinality(DOMAIN es) > Limit
    THEN [t \in {u \in DOMAIN es : Fresh(es[u])} |-> es[t]]
    ELSE es

\* Mutant: the instant of expiry is stored.
InsertedExpiry(t) ==
    [u \in DOMAIN entries \cup {t} |-> IF u = t THEN now + Ttl ELSE entries[u]]

Inserted(t) == [u \in DOMAIN entries \cup {t} |-> IF u = t THEN now ELSE entries[u]]

-----------------------------------------------------------------------------
(* submit_transaction_with_options.                                         *)

\* The error is returned by RefusalReturns.
Refuse(c, t) ==
    /\ IsDuplicate(t)
    /\ Move(c, "idle", "refused")
    /\ tx' = [tx EXCEPT ![c] = t]
    /\ UNCHANGED <<now, cache, counters, history, start, took, answer>>

RefusalReturns(c) ==
    /\ Move(c, "refused", "idle")
    /\ UNCHANGED <<now, cache, counters, history, tx, start, took, answer>>

\* The check passed; the transport is called.
Submit(c, t) ==
    /\ ~IsDuplicate(t)
    /\ sent < MaxCalls
    /\ Move(c, "idle", "sending")
    /\ tx' = [tx EXCEPT ![c] = t]
    /\ start' = [start EXCEPT ![c] = now]
    /\ sent' = sent + 1
    /\ UNCHANGED <<now, cache, counters, oks, spent, took, answer>>

\* The transport returns (external): Ok with the status the worker gave, Failed
\* included, or Err when there was no answer to read a status from: a timeout, a
\* broken or missing connection, an error of HTTP or gRPC itself.
TransportReturns(c) ==
    /\ Move(c, "sending", "answered")
    /\ took' = [took EXCEPT ![c] = now - start[c]]
    /\ spent' = spent + (now - start[c])
    /\ \E a \in Answers :
        /\ answer' = [answer EXCEPT ![c] = a]
        /\ oks' = IF a \in Statuses THEN oks + 1 ELSE oks
    /\ UNCHANGED <<now, cache, counters, sent, tx, start>>

\* Mutant: a call that failed returns before it is counted.
CountSubmittedIfOk(c) ==
    /\ Move(c, "answered", IF IsOk(c) THEN "counted" ELSE "idle")
    /\ submitted' = IF IsOk(c) THEN submitted + 1 ELSE submitted
    /\ UNCHANGED <<now, cache, confirmed, latency, history, tx, start, took, answer>>

\* fetch_add: the counter is read and written in one step.
CountSubmitted(c) ==
    /\ Move(c, "answered", "counted")
    /\ submitted' = submitted + 1
    /\ UNCHANGED <<now, cache, confirmed, latency, history, tx, start, took, answer>>

CountLatency(c) ==
    /\ Move(c, "counted", IF IsOk(c) THEN "timed" ELSE "idle")
    /\ latency' = latency + took[c]
    /\ UNCHANGED <<now, cache, submitted, confirmed, history, tx, start, took, answer>>

CountConfirmed(c) ==
    /\ Move(c, "timed", "confirmed")
    /\ confirmed' = confirmed + 1
    /\ UNCHANGED <<now, cache, submitted, latency, history, tx, start, took, answer>>

Record(c) ==
    /\ Move(c, "confirmed", "idle")
    /\ entries' = Pruned(Inserted(tx[c]))
    /\ recorded' = recorded \cup {[t |-> tx[c], at |-> now, as |-> answer[c]]}
    /\ UNCHANGED <<now, counters, history, tx, start, took, answer>>

Tick ==
    /\ now < MaxTime
    /\ now' = now + 1
    /\ UNCHANGED <<cache, counters, history, calls>>

Next ==
    \/ \E c \in Callers :
        \/ \E t \in Txs : Refuse(c, t) \/ Submit(c, t)
        \/ RefusalReturns(c) \/ TransportReturns(c)
        \/ CountSubmitted(c) \/ CountLatency(c) \/ CountConfirmed(c) \/ Record(c)
    \/ Tick

Spec == Init /\ [][Next]_vars
-----------------------------------------------------------------------------
(* Properties.                                                              *)

CallState == {"idle", "refused", "sending", "answered", "counted", "timed", "confirmed"}

CacheOK ==
    /\ DOMAIN entries \subseteq Txs
    /\ \A t \in DOMAIN entries : entries[t] \in 0..now
    /\ recorded \subseteq [t : Txs, at : 0..now, as : Statuses]

CountsOK ==
    /\ {submitted, confirmed, latency, oks, spent} \subseteq Nat
    /\ sent \in 0..MaxCalls

CallsOK ==
    /\ call \in [Callers -> CallState]
    /\ tx \in [Callers -> Txs]
    /\ start \in [Callers -> 0..MaxTime] /\ took \in [Callers -> 0..MaxTime]
    /\ \A c \in Callers : start[c] <= now
    /\ answer \in [Callers -> Answers]

\* Every variable has its type.
TypeOK == now \in 0..MaxTime /\ CacheOK /\ CountsOK /\ CallsOK

\* Transaction t was recorded less than Ttl ago.
Recent(t) == \E r \in recorded : r.t = t /\ Fresh(r.at)

\* Once a submission of t has returned Ok, with whatever status, no later call of
\* submit_transaction gets past the check with t until Ttl has passed: neither
\* the pruning in a record() of another transaction nor a record() of t by a call
\* that was still under way lets it through.
OkStaysRefused ==
    [][\A c \in Callers : call[c] = "idle" /\ call'[c] = "sending" => ~Recent(tx'[c])]_vars

\* The cache refuses a transaction only after a call for it returned Ok, and not
\* long after: one whose calls all returned Err (no connection, no answer in
\* time) may be tried again at once.  Ok is not acceptance: a transaction the
\* worker answers with a refusal comes back as Ok(Failed) and is refused for Ttl.
RefusedOnlyAfterOk ==
    [][\A c \in Callers : call[c] = "idle" /\ call'[c] = "refused" => Recent(tx'[c])]_vars

\* A transaction that only the worker refused may be tried again.
RefusedMayRetry ==
    [][\A c \in Callers : call[c] = "idle" /\ call'[c] = "refused" =>
        \E r \in recorded : r.t = tx'[c] /\ Fresh(r.at) /\ r.as # "failed"]_vars

\* The cache holds no more than Limit transactions besides those answered Ok
\* within the last Ttl before its last insertion.
CacheBounded ==
    LET last == CHOOSE r \in recorded : \A q \in recorded : q.at <= r.at
        live == {r.t : r \in {q \in recorded : last.at - q.at < Ttl}}
    IN  recorded # {} => \/ Cardinality(DOMAIN entries) <= Limit
                         \/ DOMAIN entries \subseteq live

\* No update of a counter is lost, in whatever order the calls count: once all
\* have returned, submitted is the number of calls that reached the transport,
\* latency the time they took, and confirmed the number that returned Ok.  That
\* is all confirmed says: it counts Ok(Failed) and Ok(Sent) too, and is not the
\* number of confirmed transactions that types.rs:1046 calls it.
CountersAgree ==
    (\A c \in Callers : call[c] \in {"idle", "refused"}) =>
        /\ submitted = sent /\ confirmed = oks /\ latency = spent
        /\ confirmed <= submitted

\* A transaction is submitted once: no two calls have it at the transport at the
\* same time.
SubmittedOnce ==
    \A c, d \in Callers :
        call[c] = "sending" /\ call[d] = "sending" /\ tx[c] = tx[d] => c = d
=============================================================================
