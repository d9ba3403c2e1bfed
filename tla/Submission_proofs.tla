---------------------------- MODULE Submission_proofs ----------------------------
(* Proofs about Submission, for every value of its constants.               *)
EXTENDS Submission, FiniteSetTheorems, TLAPS

\* The bounds are numbers.
LEMMA Bounds == Ttl \in Nat /\ Limit \in Nat /\ MaxTime \in Nat /\ MaxCalls \in Nat
BY ConstantsOK DEF ConstantsOK

-----------------------------------------------------------------------------
(* What the operations of the cache return.                                 *)

\* insert() sets the transaction's instant and leaves the others alone.
LEMMA InsertedIs ==
    ASSUME NEW t
    PROVE  /\ DOMAIN Inserted(t) = DOMAIN entries \cup {t}
           /\ Inserted(t)[t] = now
           /\ \A u \in DOMAIN entries : u # t => Inserted(t)[u] = entries[u]
BY DEF Inserted

\* Pruning changes no instant, removes only what has expired, and beyond the
\* limit all of it.
LEMMA PrunedIs ==
    ASSUME NEW es
    PROVE  /\ DOMAIN Pruned(es) \subseteq DOMAIN es
           /\ \A t \in DOMAIN Pruned(es) : Pruned(es)[t] = es[t]
           /\ \A t \in DOMAIN es : Fresh(es[t]) => t \in DOMAIN Pruned(es)
           /\ Cardinality(DOMAIN es) > Limit => \A t \in DOMAIN Pruned(es) : Fresh(es[t])
<1>1. CASE Cardinality(DOMAIN es) > Limit
  <2>1. Pruned(es) = [t \in {u \in DOMAIN es : Fresh(es[u])} |-> es[t]]
    BY <1>1 DEF Pruned
  <2>2. DOMAIN Pruned(es) = {u \in DOMAIN es : Fresh(es[u])}
    BY <2>1
  <2>3. \A t \in DOMAIN Pruned(es) : Pruned(es)[t] = es[t]
    BY <2>1, <2>2
  <2>4. QED
    BY <2>2, <2>3
<1>2. CASE ~(Cardinality(DOMAIN es) > Limit)
  <2>1. Pruned(es) = es
    BY <1>2 DEF Pruned
  <2>2. QED
    BY <1>2, <2>1
<1>3. QED
  BY <1>1, <1>2

-----------------------------------------------------------------------------
(* Types, and what the cache has to do with what was recorded.              *)

\* Whoever counts a confirmation or records was answered Ok, with some status.
OkOnly == \A c \in Callers : call[c] \in {"timed", "confirmed"} => IsOk(c)

\* Every entry stands for an Ok that was recorded at its instant.
Backed == \A t \in DOMAIN entries : \E r \in recorded : r.t = t /\ r.at = entries[t]

\* Every Ok recorded within the last Ttl has its entry, or a later one.
Kept == \A r \in recorded :
            Fresh(r.at) => r.t \in DOMAIN entries /\ entries[r.t] >= r.at

CacheInv == TypeOK /\ OkOnly /\ Backed /\ Kept

\* The invariant holds of a new client.
LEMMA CacheInvInit == Init => CacheInv
<1> SUFFICES ASSUME Init PROVE CacheInv
  OBVIOUS
<1>1. now \in 0..MaxTime /\ CacheOK
  BY Bounds DEF Init, CacheOK
<1>2. CountsOK
  BY Bounds DEF Init, CountsOK
<1>3. CallsOK
  BY Bounds DEF Init, CallsOK, CallState, Answers
<1>4. OkOnly
  BY DEF Init, OkOnly, IsOk
<1>5. Backed /\ Kept
  BY DEF Init, Backed, Kept
<1>6. QED
  BY <1>1, <1>2, <1>3, <1>4, <1>5 DEF CacheInv, TypeOK

\* A step that moves one caller, and the clock not at all, keeps the types of the calls.
LEMMA MoveTyped ==
    ASSUME CallsOK, NEW c \in Callers, NEW from, NEW to \in CallState, Move(c, from, to),
           UNCHANGED now, tx' \in [Callers -> Txs],
           start' \in [Callers -> 0..MaxTime], \A d \in Callers : start'[d] <= now,
           took' \in [Callers -> 0..MaxTime], answer' \in [Callers -> Answers]
    PROVE  CallsOK'
<1>1. call' \in [Callers -> CallState]
  BY DEF CallsOK, Move
<1>2. QED
  BY <1>1 DEF CallsOK

\* The cache and its relation to the records stay as long as neither changes.
LEMMA CacheKept ==
    ASSUME CacheInv, UNCHANGED <<now, cache>>
    PROVE  CacheOK' /\ Backed' /\ Kept'
BY DEF CacheInv, TypeOK, CacheOK, Backed, Kept, Fresh, cache

-----------------------------------------------------------------------------
(* Each step keeps the invariant.                                           *)

\* A refusal changes the cache no more than a call that goes through does.
LEMMA RefuseKeeps ==
    ASSUME CacheInv, NEW c \in Callers, NEW t \in Txs, Refuse(c, t) PROVE CacheInv'
<1>1. CallsOK'
  <2>1. tx' \in [Callers -> Txs]
    BY DEF CacheInv, TypeOK, CallsOK, Refuse
  <2>2. QED
    BY <2>1, MoveTyped DEF CacheInv, TypeOK, CallsOK, CallState, Refuse
<1>2. CacheOK' /\ Backed' /\ Kept'
  BY CacheKept DEF Refuse
<1>3. OkOnly'
  BY DEF CacheInv, TypeOK, CallsOK, OkOnly, IsOk, Refuse, Move
<1>4. now' \in 0..MaxTime /\ CountsOK'
  BY DEF CacheInv, TypeOK, CountsOK, Refuse, counters, history
<1>5. QED
  BY <1>1, <1>2, <1>3, <1>4 DEF CacheInv, TypeOK

\* The refused caller has its error.
LEMMA RefusalReturnsKeeps ==
    ASSUME CacheInv, NEW c \in Callers, RefusalReturns(c) PROVE CacheInv'
<1>1. CallsOK'
  BY MoveTyped DEF CacheInv, TypeOK, CallsOK, CallState, RefusalReturns
<1>2. CacheOK' /\ Backed' /\ Kept'
  BY CacheKept DEF RefusalReturns
<1>3. OkOnly'
  BY DEF CacheInv, TypeOK, CallsOK, OkOnly, IsOk, RefusalReturns, Move
<1>4. now' \in 0..MaxTime /\ CountsOK'
  BY DEF CacheInv, TypeOK, CountsOK, RefusalReturns, counters, history
<1>5. QED
  BY <1>1, <1>2, <1>3, <1>4 DEF CacheInv, TypeOK

\* A call starts now.
LEMMA SubmitKeeps ==
    ASSUME CacheInv, NEW c \in Callers, NEW t \in Txs, Submit(c, t) PROVE CacheInv'
<1>1. CallsOK'
  <2>1. tx' \in [Callers -> Txs]
    BY DEF CacheInv, TypeOK, CallsOK, Submit
  <2>2. start' \in [Callers -> 0..MaxTime] /\ \A d \in Callers : start'[d] <= now
    BY Bounds DEF CacheInv, TypeOK, CallsOK, Submit
  <2>3. QED
    BY <2>1, <2>2, MoveTyped DEF CacheInv, TypeOK, CallsOK, CallState, Submit
<1>2. CacheOK' /\ Backed' /\ Kept'
  BY CacheKept DEF Submit
<1>3. OkOnly'
  BY DEF CacheInv, TypeOK, CallsOK, OkOnly, IsOk, Submit, Move
<1>4. now' \in 0..MaxTime /\ CountsOK'
  BY Bounds DEF CacheInv, TypeOK, CountsOK, Submit, counters
<1>5. QED
  BY <1>1, <1>2, <1>3, <1>4 DEF CacheInv, TypeOK

\* The time a call took is within the clock's, as it started before.
LEMMA TransportReturnsKeeps ==
    ASSUME CacheInv, NEW c \in Callers, TransportReturns(c) PROVE CacheInv'
<1>1. now - start[c] \in 0..MaxTime
  BY Bounds DEF CacheInv, TypeOK, CallsOK
<1>2. CallsOK'
  <2>1. took' \in [Callers -> 0..MaxTime]
    BY <1>1 DEF CacheInv, TypeOK, CallsOK, TransportReturns
  <2>2. answer' \in [Callers -> Answers]
    BY DEF CacheInv, TypeOK, CallsOK, TransportReturns
  <2>3. QED
    BY <2>1, <2>2, MoveTyped DEF CacheInv, TypeOK, CallsOK, CallState, TransportReturns
<1>3. CacheOK' /\ Backed' /\ Kept'
  BY CacheKept DEF TransportReturns
<1>4. OkOnly'
  BY DEF CacheInv, TypeOK, CallsOK, OkOnly, IsOk, TransportReturns, Move
<1>5. now' \in 0..MaxTime
  BY DEF CacheInv, TypeOK, TransportReturns
<1>6. CountsOK'
  BY <1>1 DEF CacheInv, TypeOK, CountsOK, TransportReturns, counters
<1>7. QED
  BY <1>2, <1>3, <1>4, <1>5, <1>6 DEF CacheInv, TypeOK

\* Every call is counted, Ok or not.
LEMMA CountSubmittedKeeps ==
    ASSUME CacheInv, NEW c \in Callers, CountSubmitted(c) PROVE CacheInv'
<1>1. CallsOK'
  BY MoveTyped DEF CacheInv, TypeOK, CallsOK, CallState, CountSubmitted
<1>2. CacheOK' /\ Backed' /\ Kept'
  BY CacheKept DEF CountSubmitted
<1>3. OkOnly'
  BY DEF CacheInv, TypeOK, CallsOK, OkOnly, IsOk, CountSubmitted, Move
<1>4. now' \in 0..MaxTime /\ CountsOK'
  BY DEF CacheInv, TypeOK, CountsOK, CountSubmitted, history
<1>5. QED
  BY <1>1, <1>2, <1>3, <1>4 DEF CacheInv, TypeOK

\* Only a call that was answered Ok goes on to count its confirmation.
LEMMA CountLatencyKeeps ==
    ASSUME CacheInv, NEW c \in Callers, CountLatency(c) PROVE CacheInv'
<1>1. CallsOK'
  <2>1. (IF IsOk(c) THEN "timed" ELSE "idle") \in CallState
    BY DEF CallState
  <2>2. QED
    BY <2>1, MoveTyped DEF CacheInv, TypeOK, CallsOK, CountLatency
<1>2. CacheOK' /\ Backed' /\ Kept'
  BY CacheKept DEF CountLatency
<1>3. OkOnly'
  <2>1. answer' = answer /\ call' = [call EXCEPT ![c] = IF IsOk(c) THEN "timed" ELSE "idle"]
    BY DEF CountLatency, Move, IsOk
  <2>2. call'[c] = (IF IsOk(c) THEN "timed" ELSE "idle")
    BY <2>1 DEF CacheInv, TypeOK, CallsOK
  <2>3. \A d \in Callers : d # c => call'[d] = call[d]
    BY <2>1 DEF CacheInv, TypeOK, CallsOK
  <2>4. QED
    BY <2>1, <2>2, <2>3 DEF CacheInv, OkOnly, IsOk
<1>4. now' \in 0..MaxTime
  BY DEF CacheInv, TypeOK, CountLatency
<1>5. CountsOK'
  <2>1. took[c] \in Nat /\ latency \in Nat
    BY Bounds DEF CacheInv, TypeOK, CallsOK, CountsOK
  <2>2. QED
    BY <2>1 DEF CacheInv, TypeOK, CountsOK, CountLatency, history
<1>6. QED
  BY <1>1, <1>2, <1>3, <1>4, <1>5 DEF CacheInv, TypeOK

\* The confirmation is counted.
LEMMA CountConfirmedKeeps ==
    ASSUME CacheInv, NEW c \in Callers, CountConfirmed(c) PROVE CacheInv'
<1>1. CallsOK'
  BY MoveTyped DEF CacheInv, TypeOK, CallsOK, CallState, CountConfirmed
<1>2. CacheOK' /\ Backed' /\ Kept'
  BY CacheKept DEF CountConfirmed
<1>3. OkOnly'
  BY DEF CacheInv, TypeOK, CallsOK, OkOnly, IsOk, CountConfirmed, Move
<1>4. now' \in 0..MaxTime /\ CountsOK'
  BY DEF CacheInv, TypeOK, CountsOK, CountConfirmed, history
<1>5. QED
  BY <1>1, <1>2, <1>3, <1>4 DEF CacheInv, TypeOK

\* What Record(c) makes of the cache: the entry of its transaction has the
\* present instant, the others keep theirs, and no fresh one is removed.
LEMMA RecordIs ==
    ASSUME CacheInv, NEW c \in Callers, Record(c)
    PROVE  /\ IsOk(c) /\ now' = now
           /\ recorded' = recorded \cup {[t |-> tx[c], at |-> now, as |-> answer[c]]}
           /\ DOMAIN entries' \subseteq DOMAIN entries \cup {tx[c]}
           /\ \A t \in DOMAIN entries' : entries'[t] = IF t = tx[c] THEN now ELSE entries[t]
           /\ Fresh(now) => tx[c] \in DOMAIN entries'
           /\ \A t \in DOMAIN entries : t # tx[c] /\ Fresh(entries[t]) => t \in DOMAIN entries'
<1> DEFINE es == Inserted(tx[c])
<1>1. IsOk(c) /\ now' = now /\ entries' = Pruned(es)
  BY DEF CacheInv, OkOnly, IsOk, Record, Move
<1>2. recorded' = recorded \cup {[t |-> tx[c], at |-> now, as |-> answer[c]]}
  BY <1>1 DEF Record
<1>3. /\ DOMAIN es = DOMAIN entries \cup {tx[c]}
      /\ es[tx[c]] = now
      /\ \A u \in DOMAIN entries : u # tx[c] => es[u] = entries[u]
  BY InsertedIs
<1>4. /\ DOMAIN Pruned(es) \subseteq DOMAIN es
      /\ \A t \in DOMAIN Pruned(es) : Pruned(es)[t] = es[t]
      /\ \A t \in DOMAIN es : Fresh(es[t]) => t \in DOMAIN Pruned(es)
  BY PrunedIs
<1> HIDE DEF es
<1>5. QED
  BY <1>1, <1>2, <1>3, <1>4

\* Record(c) keeps the cache in step with what was recorded.
LEMMA RecordKeeps ==
    ASSUME CacheInv, NEW c \in Callers, Record(c) PROVE CacheInv'
<1>1. CallsOK'
  BY MoveTyped DEF CacheInv, TypeOK, CallsOK, CallState, Record
<1>2. now' \in 0..MaxTime /\ CountsOK'
  BY DEF CacheInv, TypeOK, CountsOK, Record, counters, history
<1>3. now \in Nat /\ tx[c] \in Txs
  BY Bounds DEF CacheInv, TypeOK, CallsOK
<1>4. CacheOK'
  <2>1. DOMAIN entries' \subseteq Txs
    BY <1>3, RecordIs DEF CacheInv, TypeOK, CacheOK
  <2>2. \A t \in DOMAIN entries' : entries'[t] \in 0..now
    BY <1>3, RecordIs DEF CacheInv, TypeOK, CacheOK
  <2>3. recorded' \subseteq [t : Txs, at : 0..now, as : Statuses]
    BY <1>3, RecordIs DEF CacheInv, TypeOK, CacheOK, IsOk
  <2>4. QED
    BY <2>1, <2>2, <2>3, RecordIs DEF CacheOK
<1>5. OkOnly'
  BY DEF CacheInv, TypeOK, CallsOK, OkOnly, IsOk, Record, Move
<1>6. Backed'
  <2> SUFFICES ASSUME NEW t \in DOMAIN entries'
               PROVE  \E r \in recorded' : r.t = t /\ r.at = entries'[t]
    BY DEF Backed
  <2>1. CASE t = tx[c]
    <3>1. [t |-> tx[c], at |-> now, as |-> answer[c]] \in recorded' /\ entries'[t] = now
      BY <2>1, RecordIs
    <3>2. QED
      BY <2>1, <3>1
  <2>2. CASE t # tx[c]
    <3>1. t \in DOMAIN entries /\ entries'[t] = entries[t] /\ recorded \subseteq recorded'
      BY <2>2, RecordIs
    <3>2. PICK r \in recorded : r.t = t /\ r.at = entries[t]
      BY <3>1 DEF CacheInv, Backed
    <3>3. QED
      BY <3>1, <3>2
  <2>3. QED
    BY <2>1, <2>2
<1>7. Kept'
  <2> SUFFICES ASSUME NEW r \in recorded', Fresh(r.at)
               PROVE  r.t \in DOMAIN entries' /\ entries'[r.t] >= r.at
    BY RecordIs DEF Kept, Fresh
  <2>1. r.at \in 0..now
    BY <1>3, RecordIs DEF CacheInv, TypeOK, CacheOK
  <2>2. CASE r.t = tx[c]
    <3>1. Fresh(now)
      BY <1>3, <2>1, Bounds DEF Fresh
    <3>2. QED
      BY <1>3, <2>1, <2>2, <3>1, RecordIs
  <2>3. CASE r.t # tx[c]
    <3>1. r \in recorded
      BY <2>3, RecordIs
    <3>2. r.t \in DOMAIN entries /\ entries[r.t] >= r.at
      BY <3>1 DEF CacheInv, Kept
    <3>3. Fresh(entries[r.t])
      BY <1>3, <2>1, <3>2, Bounds DEF Fresh, CacheInv, TypeOK, CacheOK
    <3>4. QED
      BY <2>3, <3>2, <3>3, RecordIs
  <2>4. QED
    BY <2>2, <2>3
<1>8. QED
  BY <1>1, <1>2, <1>4, <1>5, <1>6, <1>7 DEF CacheInv, TypeOK

\* Time only makes entries expire.
LEMMA TickKeeps ==
    ASSUME CacheInv, Tick PROVE CacheInv'
<1>1. now \in Nat /\ now' = now + 1 /\ now' \in 0..MaxTime
  BY Bounds DEF CacheInv, TypeOK, Tick
<1>2. UNCHANGED <<entries, recorded>>
  BY DEF Tick, cache
<1>3. CacheOK'
  BY <1>1, <1>2 DEF CacheInv, TypeOK, CacheOK
<1>4. CountsOK' /\ CallsOK' /\ OkOnly'
  BY <1>1 DEF CacheInv, TypeOK, CountsOK, CallsOK, OkOnly, IsOk, Tick, counters, history, calls
<1>5. Backed'
  BY <1>2 DEF CacheInv, Backed
<1>6. Kept'
  <2> SUFFICES ASSUME NEW r \in recorded, now' - r.at < Ttl
               PROVE  r.t \in DOMAIN entries /\ entries[r.t] >= r.at
    BY <1>2 DEF Kept, Fresh
  <2>1. r.at \in Nat
    BY DEF CacheInv, TypeOK, CacheOK
  <2>2. Fresh(r.at)
    BY <1>1, <2>1, Bounds DEF Fresh
  <2>3. QED
    BY <2>2 DEF CacheInv, Kept
<1>7. QED
  BY <1>1, <1>3, <1>4, <1>5, <1>6 DEF CacheInv, TypeOK

\* A step that changes nothing.
LEMMA StutterKeeps ==
    ASSUME CacheInv, UNCHANGED vars PROVE CacheInv'
<1> USE DEF vars, cache, counters, history, calls
<1>1. CacheOK' /\ Backed' /\ Kept'
  BY CacheKept
<1>2. now' \in 0..MaxTime /\ CountsOK' /\ CallsOK' /\ OkOnly'
  BY DEF CacheInv, TypeOK, CountsOK, CallsOK, OkOnly, IsOk
<1>3. QED
  BY <1>1, <1>2 DEF CacheInv, TypeOK

\* Every step keeps the invariant.
LEMMA CacheInvStep == CacheInv /\ [Next]_vars => CacheInv'
<1> SUFFICES ASSUME CacheInv, [Next]_vars PROVE CacheInv'
  OBVIOUS
<1>1. ASSUME NEW c \in Callers, NEW t \in Txs, Refuse(c, t) PROVE CacheInv'
  BY <1>1, RefuseKeeps
<1>2. ASSUME NEW c \in Callers, NEW t \in Txs, Submit(c, t) PROVE CacheInv'
  BY <1>2, SubmitKeeps
<1>3. ASSUME NEW c \in Callers, RefusalReturns(c) PROVE CacheInv'
  BY <1>3, RefusalReturnsKeeps
<1>4. ASSUME NEW c \in Callers, TransportReturns(c) PROVE CacheInv'
  BY <1>4, TransportReturnsKeeps
<1>5. ASSUME NEW c \in Callers, CountSubmitted(c) PROVE CacheInv'
  BY <1>5, CountSubmittedKeeps
<1>6. ASSUME NEW c \in Callers, CountLatency(c) PROVE CacheInv'
  BY <1>6, CountLatencyKeeps
<1>7. ASSUME NEW c \in Callers, CountConfirmed(c) PROVE CacheInv'
  BY <1>7, CountConfirmedKeeps
<1>8. ASSUME NEW c \in Callers, Record(c) PROVE CacheInv'
  BY <1>8, RecordKeeps
<1>9. CASE Tick
  BY <1>9, TickKeeps
<1>10. CASE UNCHANGED vars
  BY <1>10, StutterKeeps
<1>11. QED
  BY <1>1, <1>2, <1>3, <1>4, <1>5, <1>6, <1>7, <1>8, <1>9, <1>10, Zenon DEF Next

\* The invariant holds in every reachable state.
LEMMA CacheInvHolds == Spec => []CacheInv
BY CacheInvInit, CacheInvStep, PTL DEF Spec

\* Every variable has its type: no time a call took is negative, and the cache
\* holds only transactions at instants that have passed.
THEOREM TypeCorrect == Spec => []TypeOK
<1>1. CacheInv => TypeOK
  BY DEF CacheInv
<1>2. QED
  BY <1>1, CacheInvHolds, PTL

-----------------------------------------------------------------------------
(* Who gets past the check.                                                 *)

\* Submit(c, t) is the only step that takes a caller from "idle" to the transport.
LEMMA GoesByItself ==
    ASSUME CacheInv, Next, NEW c \in Callers, call[c] = "idle"
    PROVE  /\ call'[c] = "sending" => \E t \in Txs : Submit(c, t)
           /\ call'[c] = "refused" => \E t \in Txs : Refuse(c, t)
<1> USE DEF CacheInv, TypeOK, CallsOK
<1>1. ASSUME NEW d \in Callers, NEW t \in Txs, Refuse(d, t)
      PROVE  (d = c /\ call'[c] = "refused") \/ call'[c] = "idle"
  BY <1>1 DEF Refuse, Move
<1>2. ASSUME NEW d \in Callers, NEW t \in Txs, Submit(d, t)
      PROVE  (d = c /\ call'[c] = "sending") \/ call'[c] = "idle"
  BY <1>2 DEF Submit, Move
<1>3. ASSUME NEW d \in Callers, RefusalReturns(d) \/ TransportReturns(d) \/ CountSubmitted(d)
      PROVE  call'[c] = "idle"
  BY <1>3 DEF RefusalReturns, TransportReturns, CountSubmitted, Move
<1>4. ASSUME NEW d \in Callers, CountLatency(d) \/ CountConfirmed(d) \/ Record(d)
      PROVE  call'[c] = "idle"
  BY <1>4 DEF CountLatency, CountConfirmed, Record, Move
<1>5. CASE Tick
  <2>1. call'[c] = "idle"
    BY <1>5 DEF Tick, calls
  <2>2. QED
    BY <2>1
<1>6. QED
  BY <1>1, <1>2, <1>3, <1>4, <1>5 DEF Next

\* A submission that returned Ok, with any status, is refused by every later
\* call until Ttl has passed, however the calls interleave and whatever is pruned.
THEOREM OkIsRefused == Spec => OkStaysRefused
<1>1. ASSUME CacheInv, [Next]_vars, NEW c \in Callers, call[c] = "idle", call'[c] = "sending"
      PROVE  ~Recent(tx'[c])
  <2>1. Next
    BY <1>1 DEF vars, calls
  <2>2. PICK t \in Txs : Submit(c, t)
    BY <1>1, <2>1, GoesByItself
  <2>3. tx'[c] = t /\ ~IsDuplicate(t)
    BY <1>1, <2>2 DEF Submit, CacheInv, TypeOK, CallsOK
  <2>4. ASSUME NEW r \in recorded, r.t = t, Fresh(r.at) PROVE FALSE
    <3>1. t \in DOMAIN entries /\ entries[t] >= r.at
      BY <1>1, <2>4 DEF CacheInv, Kept
    <3>2. Fresh(entries[t])
      BY <1>1, <2>4, <3>1, Bounds DEF Fresh, CacheInv, TypeOK, CacheOK
    <3>3. QED
      BY <2>3, <3>1, <3>2 DEF IsDuplicate
  <2>5. QED
    BY <2>3, <2>4 DEF Recent
<1>2. CacheInv /\ [Next]_vars =>
        [\A c \in Callers : call[c] = "idle" /\ call'[c] = "sending" => ~Recent(tx'[c])]_vars
  BY <1>1
<1>3. QED
  BY <1>2, CacheInvHolds, PTL DEF Spec, OkStaysRefused

\* A transaction is refused only when a call for it returned Ok less than Ttl
\* ago, with whatever status (also Failed): one whose calls returned Err leaves
\* nothing behind and may be tried again at once.
THEOREM RefusalFollowsOk == Spec => RefusedOnlyAfterOk
<1>1. ASSUME CacheInv, [Next]_vars, NEW c \in Callers, call[c] = "idle", call'[c] = "refused"
      PROVE  Recent(tx'[c])
  <2>1. Next
    BY <1>1 DEF vars, calls
  <2>2. PICK t \in Txs : Refuse(c, t)
    BY <1>1, <2>1, GoesByItself
  <2>3. tx'[c] = t /\ IsDuplicate(t)
    BY <1>1, <2>2 DEF Refuse, CacheInv, TypeOK, CallsOK
  <2>4. PICK r \in recorded : r.t = t /\ r.at = entries[t]
    BY <1>1, <2>3 DEF CacheInv, Backed, IsDuplicate
  <2>5. QED
    BY <2>3, <2>4 DEF Recent, IsDuplicate
<1>2. CacheInv /\ [Next]_vars =>
        [\A c \in Callers : call[c] = "idle" /\ call'[c] = "refused" => Recent(tx'[c])]_vars
  BY <1>1
<1>3. QED
  BY <1>2, CacheInvHolds, PTL DEF Spec, RefusedOnlyAfterOk

-----------------------------------------------------------------------------
(* The size of the cache.                                                   *)

\* Beyond the limit, there are entries of only the transactions answered Ok within
\* Ttl before the last insertion, at instant m.
OnlyRecent ==
    \E m \in 0..now :
        /\ \E r \in recorded : r.at = m
        /\ \A r \in recorded : r.at <= m
        /\ \A t \in DOMAIN entries : \E r \in recorded : r.t = t /\ m - r.at < Ttl

Bounded == recorded # {} => Cardinality(DOMAIN entries) <= Limit \/ OnlyRecent

\* Only Record(c) changes the cache.
LEMMA CacheStays ==
    ASSUME CacheInv, [Next]_vars, \A c \in Callers : ~Record(c)
    PROVE  UNCHANGED <<entries, recorded>> /\ now \in Nat /\ now' \in Nat /\ now' >= now
<1> USE DEF cache
<1>1. now \in Nat
  BY Bounds DEF CacheInv, TypeOK
<1>2. ASSUME NEW c \in Callers, NEW t \in Txs, Refuse(c, t) \/ Submit(c, t)
      PROVE  UNCHANGED <<entries, recorded, now>>
  BY <1>2 DEF Refuse, Submit
<1>3. ASSUME NEW c \in Callers, RefusalReturns(c) \/ TransportReturns(c)
      PROVE  UNCHANGED <<entries, recorded, now>>
  BY <1>3 DEF RefusalReturns, TransportReturns
<1>4. ASSUME NEW c \in Callers, CountSubmitted(c) \/ CountLatency(c) \/ CountConfirmed(c)
      PROVE  UNCHANGED <<entries, recorded, now>>
  BY <1>4 DEF CountSubmitted, CountLatency, CountConfirmed
<1>5. CASE Tick
  BY <1>1, <1>5 DEF Tick
<1>6. CASE UNCHANGED vars
  BY <1>1, <1>6 DEF vars
<1>7. QED
  BY <1>1, <1>2, <1>3, <1>4, <1>5, <1>6 DEF Next

\* Record(c) leaves the cache within its bound: it prunes when that is exceeded,
\* and then what is left is fresh at the instant of its own record.
LEMMA RecordBounds ==
    ASSUME CacheInv, NEW c \in Callers, Record(c) PROVE Bounded'
<1> DEFINE es == Inserted(tx[c])
<1>1. entries' = Pruned(es) /\ now \in Nat /\ CacheInv'
  BY Bounds, RecordKeeps DEF Record, CacheInv, TypeOK
<1>2. CASE Cardinality(DOMAIN es) > Limit
  <2>1. now' = now /\ [t |-> tx[c], at |-> now, as |-> answer[c]] \in recorded'
    BY RecordIs
  <2>2. \A t \in DOMAIN entries' : Fresh(entries'[t])
    <3>1. \A t \in DOMAIN Pruned(es) : Pruned(es)[t] = es[t] /\ Fresh(es[t])
      BY <1>2, PrunedIs
    <3>2. QED
      BY <1>1, <3>1
  <2>3. \A t \in DOMAIN entries' : \E r \in recorded' : r.t = t /\ now - r.at < Ttl
    BY <1>1, <2>2 DEF CacheInv, Backed, Fresh
  <2>4. \A r \in recorded' : r.at <= now
    BY <1>1, <2>1 DEF CacheInv, TypeOK, CacheOK
  <2>5. \E r \in recorded' : r.at = now
    BY <2>1
  <2>6. now \in 0..now'
    BY <1>1, <2>1
  <2>7. OnlyRecent'
    BY <2>3, <2>4, <2>5, <2>6 DEF OnlyRecent
  <2>8. QED
    BY <2>7 DEF Bounded
<1>3. CASE ~(Cardinality(DOMAIN es) > Limit)
  <2>1. entries' = es
    BY <1>1, <1>3 DEF Pruned
  <2>2. IsFiniteSet(DOMAIN entries')
    <3>1. DOMAIN entries' \subseteq Txs
      BY <1>1 DEF CacheInv, TypeOK, CacheOK
    <3>2. QED
      BY <3>1, ConstantsOK, FS_Subset DEF ConstantsOK
  <2>3. Cardinality(DOMAIN entries') \in Nat
    BY <2>2, FS_CardinalityType
  <2>4. Cardinality(DOMAIN entries') <= Limit
    BY <1>3, <2>1, <2>3, Bounds
  <2>5. QED
    BY <2>4 DEF Bounded
<1>4. QED
  BY <1>2, <1>3

\* The bound holds of a new client and is kept by every step.
LEMMA BoundedHolds == Spec => []Bounded
<1>1. Init => Bounded
  BY DEF Init, Bounded
<1>2. ASSUME CacheInv, Bounded, [Next]_vars PROVE Bounded'
  <2>1. CASE \E c \in Callers : Record(c)
    BY <1>2, <2>1, RecordBounds
  <2>2. CASE \A c \in Callers : ~Record(c)
    <3>1. UNCHANGED <<entries, recorded>> /\ now \in Nat /\ now' \in Nat /\ now' >= now
      BY <1>2, <2>2, CacheStays
    <3>2. OnlyRecent => OnlyRecent'
      <4>1. 0..now \subseteq 0..now'
        BY <3>1
      <4>2. QED
        BY <3>1, <4>1 DEF OnlyRecent
    <3>3. QED
      BY <1>2, <3>1, <3>2 DEF Bounded
  <2>3. QED
    BY <2>1, <2>2
<1>3. QED
  BY <1>1, <1>2, CacheInvHolds, PTL DEF Spec

\* The cache never holds more than Limit transactions besides those answered Ok
\* within Ttl before its last insertion.
THEOREM CacheStaysBounded == Spec => []CacheBounded
<1>1. ASSUME CacheInv, Bounded PROVE CacheBounded
  <2> DEFINE last == CHOOSE r \in recorded : \A q \in recorded : q.at <= r.at
             live == {r.t : r \in {q \in recorded : last.at - q.at < Ttl}}
  <2> SUFFICES ASSUME recorded # {}, OnlyRecent PROVE DOMAIN entries \subseteq live
    BY <1>1 DEF Bounded, CacheBounded
  <2>1. PICK m \in 0..now :
            /\ \E r \in recorded : r.at = m
            /\ \A r \in recorded : r.at <= m
            /\ \A t \in DOMAIN entries : \E r \in recorded : r.t = t /\ m - r.at < Ttl
    BY DEF OnlyRecent
  <2>2. last \in recorded /\ \A q \in recorded : q.at <= last.at
    BY <2>1
  <2>3. \A r \in recorded : r.at \in Int
    BY <1>1 DEF CacheInv, TypeOK, CacheOK
  <2>4. last.at = m
    <3> HIDE DEF last
    <3>1. PICK r \in recorded : r.at = m
      BY <2>1
    <3>2. m <= last.at /\ last.at <= m
      BY <2>1, <2>2, <3>1
    <3>3. last.at \in Int /\ m \in Int
      BY <2>2, <2>3, <3>1
    <3>4. QED
      BY <3>2, <3>3
  <2>5. ASSUME NEW t \in DOMAIN entries PROVE t \in live
    <3> HIDE DEF last
    <3>1. PICK r \in recorded : r.t = t /\ m - r.at < Ttl
      BY <2>1
    <3>2. QED
      BY <2>4, <3>1
  <2>6. QED
    BY <2>5
<1>2. QED
  BY <1>1, CacheInvHolds, BoundedHolds, PTL

-----------------------------------------------------------------------------
(* The counters.  A call that is under way owes each counter what it has not *)
(* added yet; what the counters lack is what all calls owe together.  The    *)
(* debt is the size of a set, so that no sum over the calls is needed.       *)

Waiting     == {c \in Callers : call[c] = "sending"}
Uncounted   == {c \in Callers : call[c] \in {"sending", "answered"}}
Unconfirmed == {c \in Callers : call[c] \in {"answered", "counted", "timed"} /\ IsOk(c)}

\* One pair for each unit of time that a call has taken and not yet added.
Untimed ==
    {p \in Callers \X (1..MaxTime) :
        call[p[1]] \in {"answered", "counted"} /\ p[2] <= took[p[1]]}

Finite == /\ IsFiniteSet(Waiting) /\ IsFiniteSet(Uncounted)
          /\ IsFiniteSet(Unconfirmed) /\ IsFiniteSet(Untimed)

\* Counters and debts together are what happened; a call that waits for its
\* answer is not among those answered.
CountInv ==
    /\ Finite
    /\ submitted + Cardinality(Uncounted) = sent
    /\ confirmed + Cardinality(Unconfirmed) = oks
    /\ latency + Cardinality(Untimed) = spent
    /\ oks + Cardinality(Waiting) <= sent

\* A set gains an element.
LEMMA Gains ==
    ASSUME NEW S, IsFiniteSet(S), NEW T, NEW x, x \notin S, T = S \cup {x}
    PROVE  IsFiniteSet(T) /\ Cardinality(S) \in Nat /\ Cardinality(T) = Cardinality(S) + 1
BY FS_AddElement, FS_CardinalityType

\* A set loses an element.
LEMMA Loses ==
    ASSUME NEW S, IsFiniteSet(S), NEW T, NEW x, x \in S, T = S \ {x}
    PROVE  IsFiniteSet(T) /\ Cardinality(T) \in Nat /\ Cardinality(S) = Cardinality(T) + 1
<1>1. IsFiniteSet(T) /\ Cardinality(T) = Cardinality(S) - 1
  BY FS_RemoveElement
<1>2. QED
  BY <1>1, FS_CardinalityType

\* As many pairs as a time has units.
LEMMA UnitsOf ==
    ASSUME NEW c, NEW n \in Nat
    PROVE  IsFiniteSet({c} \X (1..n)) /\ Cardinality({c} \X (1..n)) = n
<1>1. IsFiniteSet({c}) /\ Cardinality({c}) = 1
  BY FS_Singleton
<1>2. IsFiniteSet(1..n) /\ Cardinality(1..n) = n
  BY FS_Interval
<1>3. IsFiniteSet({c} \X (1..n)) /\ Cardinality({c} \X (1..n)) = Cardinality({c}) * Cardinality(1..n)
  BY <1>1, <1>2, FS_Product
<1>4. QED
  BY <1>1, <1>2, <1>3

\* Two sets apart have as many elements as both together.
LEMMA Together ==
    ASSUME NEW S, IsFiniteSet(S), NEW T, IsFiniteSet(T), S \cap T = {}
    PROVE  /\ IsFiniteSet(S \cup T)
           /\ Cardinality(S \cup T) = Cardinality(S) + Cardinality(T)
<1>1. IsFiniteSet(S \cup T)
      /\ Cardinality(S \cup T) = Cardinality(S) + Cardinality(T) - Cardinality(S \cap T)
  BY FS_Union
<1>2. Cardinality(S) \in Nat /\ Cardinality(T) \in Nat /\ Cardinality(S \cap T) = 0
  BY FS_CardinalityType, FS_EmptySet
<1>3. QED
  BY <1>1, <1>2

\* The program counter of one caller moves.
LEMMA MoveIs ==
    ASSUME CallsOK, NEW c \in Callers, NEW from, NEW to, Move(c, from, to)
    PROVE  /\ call[c] = from /\ call'[c] = to
           /\ \A d \in Callers : d # c => call'[d] = call[d]
BY DEF CallsOK, Move

\* Nothing is owed at first.
LEMMA CountInvInit == Init => CountInv
<1> SUFFICES ASSUME Init PROVE CountInv
  OBVIOUS
<1>1. Waiting = {} /\ Uncounted = {} /\ Unconfirmed = {}
  BY DEF Init, Waiting, Uncounted, Unconfirmed
<1>2. Untimed = {}
  BY DEF Init, Untimed
<1>3. QED
  BY <1>1, <1>2, FS_EmptySet DEF Init, CountInv, Finite

\* A call that goes to the transport owes the count of submissions.
LEMMA SubmitOwes ==
    ASSUME CacheInv, CountInv, NEW c \in Callers, NEW t \in Txs, Submit(c, t) PROVE CountInv'
<1>1. /\ call[c] = "idle" /\ call'[c] = "sending"
      /\ \A d \in Callers : d # c => call'[d] = call[d]
  BY MoveIs DEF CacheInv, TypeOK, Submit
<1>2. UNCHANGED <<answer, took, submitted, confirmed, latency, oks, spent>> /\ sent' = sent + 1
  BY DEF Submit, counters
<1>3. c \notin Waiting /\ Waiting' = Waiting \cup {c}
  BY <1>1 DEF Waiting
<1>4. c \notin Uncounted /\ Uncounted' = Uncounted \cup {c}
  BY <1>1 DEF Uncounted
<1>5. Unconfirmed' = Unconfirmed
  BY <1>1, <1>2 DEF Unconfirmed, IsOk
<1>6. Untimed' = Untimed
  BY <1>1, <1>2 DEF Untimed
<1>7. /\ IsFiniteSet(Waiting') /\ Cardinality(Waiting) \in Nat
      /\ Cardinality(Waiting') = Cardinality(Waiting) + 1
  BY <1>3, Gains DEF CountInv, Finite
<1>8. /\ IsFiniteSet(Uncounted') /\ Cardinality(Uncounted) \in Nat
      /\ Cardinality(Uncounted') = Cardinality(Uncounted) + 1
  BY <1>4, Gains DEF CountInv, Finite
<1>9. QED
  BY <1>2, <1>5, <1>6, <1>7, <1>8 DEF CountInv, Finite, CacheInv, TypeOK, CountsOK

\* The answer: a confirmation is owed if it is Ok, and the time it took.
LEMMA TransportReturnsOwes ==
    ASSUME CacheInv, CountInv, NEW c \in Callers, TransportReturns(c) PROVE CountInv'
<1> DEFINE n == now - start[c]
           units == {c} \X (1..n)
<1>1. n \in 0..MaxTime /\ n \in Nat
  BY Bounds DEF CacheInv, TypeOK, CallsOK
<1>2. /\ call[c] = "sending" /\ call'[c] = "answered"
      /\ \A d \in Callers : d # c => call'[d] = call[d]
  BY MoveIs DEF CacheInv, TypeOK, TransportReturns
<1>3. took'[c] = n /\ \A d \in Callers : d # c => took'[d] = took[d]
  BY DEF TransportReturns, CacheInv, TypeOK, CallsOK
<1>4. UNCHANGED <<submitted, confirmed, latency, sent>> /\ spent' = spent + n
  BY DEF TransportReturns, counters
<1>5. /\ IsOk(c)' \in BOOLEAN /\ \A d \in Callers : d # c => IsOk(d)' = IsOk(d)
      /\ oks' = IF IsOk(c)' THEN oks + 1 ELSE oks
  BY DEF TransportReturns, CacheInv, TypeOK, CallsOK, IsOk
<1> HIDE DEF n
<1>6. c \in Waiting /\ Waiting' = Waiting \ {c}
  BY <1>2 DEF Waiting
<1>7. Uncounted' = Uncounted
  BY <1>2 DEF Uncounted
<1>8. c \notin Unconfirmed /\ Unconfirmed' = IF IsOk(c)' THEN Unconfirmed \cup {c} ELSE Unconfirmed
  BY <1>2, <1>5 DEF Unconfirmed
<1>9. Untimed' = Untimed \cup units /\ Untimed \cap units = {}
  <2>1. \A p \in Untimed' : p \in Untimed \cup units
    BY <1>1, <1>2, <1>3 DEF Untimed
  <2>2. \A p \in Untimed : p \in Untimed' /\ p \notin units
    BY <1>1, <1>2, <1>3 DEF Untimed
  <2>3. \A p \in units : p \in Untimed'
    BY <1>1, <1>2, <1>3, Bounds DEF Untimed
  <2>4. QED
    BY <2>1, <2>2, <2>3
<1>10. /\ IsFiniteSet(Waiting') /\ Cardinality(Waiting') \in Nat
       /\ Cardinality(Waiting) = Cardinality(Waiting') + 1
  BY <1>6, Loses DEF CountInv, Finite
<1>11. /\ IsFiniteSet(Unconfirmed')
       /\ Cardinality(Unconfirmed) \in Nat
       /\ Cardinality(Unconfirmed') = Cardinality(Unconfirmed) + (IF IsOk(c)' THEN 1 ELSE 0)
  <2>1. CASE IsOk(c)'
    BY <1>8, <2>1, Gains DEF CountInv, Finite
  <2>2. CASE ~IsOk(c)'
    BY <1>8, <2>2, FS_CardinalityType DEF CountInv, Finite
  <2>3. QED
    BY <2>1, <2>2
<1>12. /\ IsFiniteSet(Untimed') /\ Cardinality(Untimed) \in Nat
       /\ Cardinality(Untimed') = Cardinality(Untimed) + n
  <2>1. IsFiniteSet(units) /\ Cardinality(units) = n
    BY <1>1, UnitsOf
  <2>2. QED
    BY <1>9, <2>1, Together, FS_CardinalityType DEF CountInv, Finite
<1>13. {submitted, confirmed, latency, oks, spent, sent} \subseteq Nat
  BY Bounds DEF CacheInv, TypeOK, CountsOK
<1>14. Finite'
  BY <1>7, <1>10, <1>11, <1>12 DEF CountInv, Finite
<1>15. /\ (submitted + Cardinality(Uncounted) = sent)'
       /\ (latency + Cardinality(Untimed) = spent)'
  BY <1>1, <1>4, <1>7, <1>12, <1>13 DEF CountInv
<1>16. /\ (confirmed + Cardinality(Unconfirmed) = oks)'
       /\ (oks + Cardinality(Waiting) <= sent)'
  BY <1>4, <1>5, <1>10, <1>11, <1>13 DEF CountInv
<1>17. QED
  BY <1>14, <1>15, <1>16 DEF CountInv

\* The submission is counted.
LEMMA CountSubmittedOwes ==
    ASSUME CacheInv, CountInv, NEW c \in Callers, CountSubmitted(c) PROVE CountInv'
<1>1. /\ call[c] = "answered" /\ call'[c] = "counted"
      /\ \A d \in Callers : d # c => call'[d] = call[d]
  BY MoveIs DEF CacheInv, TypeOK, CountSubmitted
<1>2. /\ UNCHANGED <<answer, took, confirmed, latency, oks, spent, sent>>
      /\ submitted' = submitted + 1
  BY DEF CountSubmitted, history
<1>3. Waiting' = Waiting /\ Unconfirmed' = Unconfirmed
  BY <1>1, <1>2 DEF Waiting, Unconfirmed, IsOk
<1>4. c \in Uncounted /\ Uncounted' = Uncounted \ {c}
  BY <1>1 DEF Uncounted
<1>5. Untimed' = Untimed
  BY <1>1, <1>2 DEF Untimed
<1>6. /\ IsFiniteSet(Uncounted') /\ Cardinality(Uncounted') \in Nat
      /\ Cardinality(Uncounted) = Cardinality(Uncounted') + 1
  BY <1>4, Loses DEF CountInv, Finite
<1>7. QED
  BY <1>2, <1>3, <1>5, <1>6 DEF CountInv, Finite, CacheInv, TypeOK, CountsOK

\* The time is added.
LEMMA CountLatencyOwes ==
    ASSUME CacheInv, CountInv, NEW c \in Callers, CountLatency(c) PROVE CountInv'
<1> DEFINE n == took[c]
           units == {c} \X (1..n)
<1>1. n \in 0..MaxTime /\ n \in Nat
  BY Bounds DEF CacheInv, TypeOK, CallsOK
<1>2. /\ call[c] = "counted" /\ call'[c] = (IF IsOk(c) THEN "timed" ELSE "idle")
      /\ \A d \in Callers : d # c => call'[d] = call[d]
  <2>1. Move(c, "counted", IF IsOk(c) THEN "timed" ELSE "idle")
    BY DEF CountLatency
  <2>2. QED
    BY <2>1, MoveIs DEF CacheInv, TypeOK
<1>3. /\ UNCHANGED <<answer, took, submitted, confirmed, oks, spent, sent>>
      /\ latency' = latency + n
  BY DEF CountLatency, history
<1> HIDE DEF n
<1>4. Waiting' = Waiting /\ Uncounted' = Uncounted
  BY <1>2 DEF Waiting, Uncounted
<1>5. Unconfirmed' = Unconfirmed
  BY <1>2, <1>3 DEF Unconfirmed, IsOk
<1>6. Untimed = Untimed' \cup units /\ Untimed' \cap units = {}
  <2>0. n = took[c] /\ took' = took
    BY <1>3 DEF n
  <2>1. \A p \in Untimed : p \in Untimed' \cup units
    BY <1>1, <1>2, <2>0 DEF Untimed
  <2>2. \A p \in Untimed' : p \in Untimed /\ p \notin units
    BY <1>1, <1>2, <2>0 DEF Untimed
  <2>3. \A p \in units : p \in Untimed
    BY <1>1, <1>2, <2>0, Bounds DEF Untimed
  <2>4. QED
    BY <2>1, <2>2, <2>3
<1>7. /\ IsFiniteSet(Untimed') /\ Cardinality(Untimed') \in Nat
      /\ Cardinality(Untimed) = Cardinality(Untimed') + n
  <2>1. IsFiniteSet(units) /\ Cardinality(units) = n
    BY <1>1, UnitsOf
  <2>2. IsFiniteSet(Untimed')
    BY <1>6, FS_Subset DEF CountInv, Finite
  <2>3. QED
    BY <1>6, <2>1, <2>2, Together, FS_CardinalityType
<1>8. QED
  BY <1>1, <1>3, <1>4, <1>5, <1>7 DEF CountInv, Finite, CacheInv, TypeOK, CountsOK

\* The confirmation is counted, and only an Ok gets this far.
LEMMA CountConfirmedOwes ==
    ASSUME CacheInv, CountInv, NEW c \in Callers, CountConfirmed(c) PROVE CountInv'
<1>1. /\ call[c] = "timed" /\ call'[c] = "confirmed"
      /\ \A d \in Callers : d # c => call'[d] = call[d]
  BY MoveIs DEF CacheInv, TypeOK, CountConfirmed
<1>2. /\ UNCHANGED <<answer, took, submitted, latency, oks, spent, sent>>
      /\ confirmed' = confirmed + 1
  BY DEF CountConfirmed, history
<1>3. IsOk(c)
  BY <1>1 DEF CacheInv, OkOnly, IsOk
<1>4. Waiting' = Waiting /\ Uncounted' = Uncounted
  BY <1>1 DEF Waiting, Uncounted
<1>5. Untimed' = Untimed
  BY <1>1, <1>2 DEF Untimed
<1>6. c \in Unconfirmed /\ Unconfirmed' = Unconfirmed \ {c}
  BY <1>1, <1>2, <1>3 DEF Unconfirmed, IsOk
<1>7. /\ IsFiniteSet(Unconfirmed') /\ Cardinality(Unconfirmed') \in Nat
      /\ Cardinality(Unconfirmed) = Cardinality(Unconfirmed') + 1
  BY <1>6, Loses DEF CountInv, Finite
<1>8. QED
  BY <1>2, <1>4, <1>5, <1>7 DEF CountInv, Finite, CacheInv, TypeOK, CountsOK

\* A caller moves between states in which it owes nothing.
LEMMA NothingOwed ==
    ASSUME CacheInv, CountInv, NEW c \in Callers,
           NEW from \in {"idle", "refused", "confirmed"}, NEW to \in {"idle", "refused"},
           Move(c, from, to), UNCHANGED <<answer, took, counters, history>>
    PROVE  CountInv'
<1>1. /\ call[c] = from /\ call'[c] = to
      /\ \A d \in Callers : d # c => call'[d] = call[d]
  BY MoveIs DEF CacheInv, TypeOK
<1>2. Waiting' = Waiting /\ Uncounted' = Uncounted /\ Unconfirmed' = Unconfirmed
  BY <1>1 DEF Waiting, Uncounted, Unconfirmed, IsOk
<1>3. Untimed' = Untimed
  BY <1>1 DEF Untimed
<1>4. QED
  BY <1>2, <1>3 DEF CountInv, Finite, counters, history

\* Every step keeps debts and counters in balance.
LEMMA CountInvStep == CacheInv /\ CountInv /\ [Next]_vars => CountInv'
<1> SUFFICES ASSUME CacheInv, CountInv, [Next]_vars PROVE CountInv'
  OBVIOUS
<1>1. ASSUME NEW c \in Callers, NEW t \in Txs, Refuse(c, t) PROVE CountInv'
  BY <1>1, NothingOwed DEF Refuse
<1>2. ASSUME NEW c \in Callers, NEW t \in Txs, Submit(c, t) PROVE CountInv'
  BY <1>2, SubmitOwes
<1>3. ASSUME NEW c \in Callers, RefusalReturns(c) PROVE CountInv'
  BY <1>3, NothingOwed DEF RefusalReturns
<1>4. ASSUME NEW c \in Callers, TransportReturns(c) PROVE CountInv'
  BY <1>4, TransportReturnsOwes
<1>5. ASSUME NEW c \in Callers, CountSubmitted(c) PROVE CountInv'
  BY <1>5, CountSubmittedOwes
<1>6. ASSUME NEW c \in Callers, CountLatency(c) PROVE CountInv'
  BY <1>6, CountLatencyOwes
<1>7. ASSUME NEW c \in Callers, CountConfirmed(c) PROVE CountInv'
  BY <1>7, CountConfirmedOwes
<1>8. ASSUME NEW c \in Callers, Record(c) PROVE CountInv'
  BY <1>8, NothingOwed DEF Record
<1>9. ASSUME Tick \/ UNCHANGED vars PROVE CountInv'
  <2>1. UNCHANGED <<call, answer, took, submitted, confirmed, latency, sent, oks, spent>>
    BY <1>9 DEF Tick, vars, calls, counters, history
  <2>2. QED
    BY <2>1 DEF CountInv, Finite, Waiting, Uncounted, Unconfirmed, Untimed, IsOk
<1>10. QED
  BY <1>1, <1>2, <1>3, <1>4, <1>5, <1>6, <1>7, <1>8, <1>9, Zenon DEF Next

\* When no call is under way the counters are exactly what happened, for any
\* number of callers and in whatever order they counted.
THEOREM CountersComplete == Spec => []CountersAgree
<1>1. ASSUME CacheInv, CountInv PROVE CountersAgree
  <2> SUFFICES ASSUME \A c \in Callers : call[c] \in {"idle", "refused"}
               PROVE  /\ submitted = sent /\ confirmed = oks /\ latency = spent
                      /\ confirmed <= submitted
    BY DEF CountersAgree
  <2>1. Waiting = {} /\ Uncounted = {} /\ Unconfirmed = {}
    BY DEF Waiting, Uncounted, Unconfirmed
  <2>2. Untimed = {}
    BY DEF Untimed
  <2>3. QED
    BY <1>1, <2>1, <2>2, Bounds, FS_EmptySet DEF CountInv, CacheInv, TypeOK, CountsOK
<1>2. Spec => []CountInv
  BY CountInvInit, CountInvStep, CacheInvHolds, PTL DEF Spec
<1>3. QED
  BY <1>1, <1>2, CacheInvHolds, PTL
=============================================================================
