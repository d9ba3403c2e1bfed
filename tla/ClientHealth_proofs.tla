-------------------------- MODULE ClientHealth_proofs --------------------------
(* Proofs about ClientHealth, for every value of its constants.             *)
EXTENDS ClientHealth, FiniteSetTheorems, TLAPS

\* The monitor, the keepalive task and every caller are different parties.
LEMMA Distinct ==
    /\ Monitor \in Parties /\ Keeper \in Parties /\ Monitor # Keeper
    /\ \A c \in Callers : c \in Parties /\ c # Monitor /\ c # Keeper
BY ClientOK DEF Parties, Monitor, Keeper

\* A disconnect is neither a submission nor a subscription, nor is one the other.
LEMMA Requests ==
    /\ "submit" \in Calls /\ "disconnect" \in Calls
    /\ "submit" \notin Streams /\ "disconnect" \notin Streams
    /\ \A s \in Streams : s \in Calls
BY ClientOK DEF Calls

\* Transport numbers are numbers, and the first is one of them.
LEMMA Numbers == /\ 1 \in Transports
                 /\ \A t \in Transports : t \in Nat /\ t # t + 1
BY ClientOK DEF Transports

\* Asking for the lock leaves it well typed.
LEMMA RequestTyped ==
    ASSUME LockOK, NEW p \in Parties, NEW how \in {"read", "write"}, Request(p, how)
    PROVE  LockOK'
BY DEF LockOK, Request

\* Letting it go leaves it well typed.
LEMMA ReleaseTyped ==
    ASSUME LockOK, NEW p \in Parties, Release(p)
    PROVE  LockOK'
BY DEF LockOK, Release

\* A transport about to be installed exists and is connected.
Dialed == monitor = "installing" => slot + 1 \in Transports /\ flag[slot + 1]

TypeInv == TypeOK /\ Dialed

\* The invariant holds right after finish_connect.
LEMMA TypeInvInit == Init => TypeInv
<1> SUFFICES ASSUME Init PROVE TypeInv
  OBVIOUS
<1>1. TransportsOK
  BY Numbers DEF Init, TransportsOK
<1>2. LockOK
  BY DEF Init, LockOK
<1>3. TasksOK
  BY DEF Init, TasksOK, MonitorState, KeepaliveState
<1>4. AppOK
  BY Numbers, Requests, ClientOK DEF Init, AppOK, CallState
<1>5. Dialed
  BY DEF Init, Dialed
<1>6. QED
  BY <1>1, <1>2, <1>3, <1>4, <1>5 DEF TypeInv, TypeOK

\* A part of the invariant holds as long as its variables do not change.
LEMMA Kept ==
    /\ TransportsOK /\ UNCHANGED transports => TransportsOK'
    /\ LockOK /\ UNCHANGED lock => LockOK'
    /\ TasksOK /\ UNCHANGED <<monitor, pending, keepalive, tracked>> => TasksOK'
    /\ AppOK /\ UNCHANGED app => AppOK'
    /\ Dialed /\ UNCHANGED <<slot, flag, monitor>> => Dialed'
BY DEF TransportsOK, transports, LockOK, lock, TasksOK, AppOK, app, Dialed

\* No step of a caller, the monitor, the keepalive task or the network breaks it.
LEMMA TypeInvStep == TypeInv /\ [Next]_vars => TypeInv'
<1> SUFFICES ASSUME TypeInv, [Next]_vars PROVE TypeInv'
  OBVIOUS
<1>0. TransportsOK /\ LockOK /\ TasksOK /\ AppOK /\ Dialed
  BY DEF TypeInv, TypeOK
<1> USE <1>0, ClientOK
<1>1. ASSUME NEW c \in Callers, Submit(c) PROVE TypeInv'
  <2>1. LockOK'
    BY <1>1, RequestTyped, Distinct DEF Submit
  <2>2. AppOK'
    BY <1>1, Requests DEF Submit, AppOK, CallState
  <2>3. QED
    BY <1>1, Kept, <2>1, <2>2 DEF Submit, TypeInv, TypeOK, transports
<1>2. ASSUME NEW c \in Callers, Subscribe(c) PROVE TypeInv'
  <2>1. LockOK'
    BY <1>2, RequestTyped, Distinct DEF Subscribe
  <2>2. TasksOK'
    BY <1>2 DEF Subscribe, TasksOK
  <2>3. AppOK'
    BY <1>2, Requests DEF Subscribe, AppOK, CallState
  <2>4. QED
    BY <1>2, Kept, <2>1, <2>2, <2>3 DEF Subscribe, TypeInv, TypeOK, transports
<1>3. ASSUME NEW c \in Callers, Disconnect(c) PROVE TypeInv'
  <2>1. LockOK'
    BY <1>3, RequestTyped, Distinct DEF Disconnect
  <2>2. AppOK'
    BY <1>3, Requests DEF Disconnect, AppOK, CallState
  <2>3. QED
    BY <1>3, Kept, <2>1, <2>2 DEF Disconnect, TypeInv, TypeOK, transports
<1>4. ASSUME NEW c \in Callers, Enter(c) PROVE TypeInv'
  <2>1. AppOK'
    BY <1>4 DEF Enter, AppOK, TransportsOK, CallState
  <2>2. QED
    BY <1>4, Kept, <2>1 DEF Enter, TypeInv, TypeOK, transports
<1>5. ASSUME NEW c \in Callers, SubmitReturns(c) PROVE TypeInv'
  <2>1. LockOK'
    BY <1>5, ReleaseTyped, Distinct DEF SubmitReturns, Ends
  <2>2. AppOK'
    BY <1>5 DEF SubmitReturns, Ends, AppOK, CallState
  <2>3. QED
    BY <1>5, Kept, <2>1, <2>2 DEF SubmitReturns, TypeInv, TypeOK, transports
<1>6. ASSUME NEW c \in Callers, SubscribeReturns(c) PROVE TypeInv'
  <2>1. TransportsOK'
    BY <1>6 DEF SubscribeReturns, TransportsOK
  <2>2. LockOK'
    BY <1>6, ReleaseTyped, Distinct DEF SubscribeReturns, Ends
  <2>3. AppOK'
    BY <1>6 DEF SubscribeReturns, Ends, AppOK, CallState
  <2>4. QED
    BY <1>6, Kept, <2>1, <2>2, <2>3 DEF SubscribeReturns, TypeInv, TypeOK
<1>7. ASSUME NEW c \in Callers, DisconnectReturns(c) PROVE TypeInv'
  <2>1. TransportsOK'
    BY <1>7 DEF DisconnectReturns, TransportsOK
  <2>2. LockOK'
    BY <1>7, ReleaseTyped, Distinct DEF DisconnectReturns, Ends
  <2>3. AppOK'
    BY <1>7 DEF DisconnectReturns, Ends, AppOK, CallState
  <2>4. Dialed'
    BY <1>7, Numbers DEF DisconnectReturns, Dialed
  <2>5. QED
    BY <1>7, Kept, <2>1, <2>2, <2>3, <2>4 DEF DisconnectReturns, TypeInv, TypeOK
<1>8. ASSUME MonitorTick PROVE TypeInv'
  <2>1. LockOK'
    BY <1>8, RequestTyped, Distinct DEF MonitorTick
  <2>2. TasksOK'
    BY <1>8 DEF MonitorTick, TasksOK, MonitorState
  <2>3. Dialed'
    BY <1>8 DEF MonitorTick, Dialed
  <2>4. QED
    BY <1>8, Kept, <2>1, <2>2, <2>3 DEF MonitorTick, TypeInv, TypeOK
<1>9. ASSUME MonitorCheck PROVE TypeInv'
  <2>1. LockOK'
    BY <1>9, ReleaseTyped, Distinct DEF MonitorCheck
  <2>2. TasksOK'
    BY <1>9 DEF MonitorCheck, TasksOK, MonitorState
  <2>3. Dialed'
    BY <1>9 DEF MonitorCheck, Dialed
  <2>4. QED
    BY <1>9, Kept, <2>1, <2>2, <2>3 DEF MonitorCheck, TypeInv, TypeOK
<1>10. ASSUME DialFails PROVE TypeInv'
  <2>1. TasksOK'
    BY <1>10 DEF DialFails, TasksOK, MonitorState
  <2>2. Dialed'
    BY <1>10 DEF DialFails, Dialed
  <2>3. QED
    BY <1>10, Kept, <2>1, <2>2 DEF DialFails, TypeInv, TypeOK
<1>11. ASSUME DialSucceeds PROVE TypeInv'
  <2>1. TransportsOK'
    BY <1>11 DEF DialSucceeds, TransportsOK
  <2>2. LockOK'
    BY <1>11, RequestTyped, Distinct DEF DialSucceeds
  <2>3. TasksOK'
    BY <1>11 DEF DialSucceeds, TasksOK, MonitorState
  <2>4. Dialed'
    BY <1>11 DEF DialSucceeds, Dialed, TransportsOK
  <2>5. QED
    BY <1>11, Kept, <2>1, <2>2, <2>3, <2>4 DEF DialSucceeds, TypeInv, TypeOK
<1>12. ASSUME Install PROVE TypeInv'
  <2>1. TransportsOK'
    BY <1>12 DEF Install, TransportsOK, Dialed
  <2>2. LockOK'
    BY <1>12, ReleaseTyped, Distinct DEF Install
  <2>3. TasksOK'
    BY <1>12 DEF Install, TasksOK, MonitorState
  <2>4. Dialed'
    BY <1>12 DEF Install, Dialed
  <2>5. QED
    BY <1>12, Kept, <2>1, <2>2, <2>3, <2>4 DEF Install, TypeInv, TypeOK
<1>13. ASSUME Snapshot PROVE TypeInv'
  <2>1. LockOK'
    BY <1>13, RequestTyped, Distinct DEF Snapshot, LockOK, lock
  <2>2. TasksOK'
    BY <1>13 DEF Snapshot, TasksOK, MonitorState
  <2>3. Dialed'
    BY <1>13 DEF Snapshot, Dialed
  <2>4. QED
    BY <1>13, Kept, <2>1, <2>2, <2>3 DEF Snapshot, TypeInv, TypeOK
<1>14. ASSUME Resubscribe PROVE TypeInv'
  <2>1. TransportsOK'
    BY <1>14 DEF Resubscribe, TransportsOK, TasksOK
  <2>2. TasksOK'
    BY <1>14 DEF Resubscribe, TasksOK
  <2>3. QED
    BY <1>14, Kept, <2>1, <2>2 DEF Resubscribe, TypeInv, TypeOK
<1>15. ASSUME ResubscribeDone PROVE TypeInv'
  <2>1. LockOK'
    BY <1>15, ReleaseTyped, Distinct DEF ResubscribeDone
  <2>2. TasksOK'
    BY <1>15 DEF ResubscribeDone, TasksOK, MonitorState
  <2>3. Dialed'
    BY <1>15 DEF ResubscribeDone, Dialed
  <2>4. QED
    BY <1>15, Kept, <2>1, <2>2, <2>3 DEF ResubscribeDone, TypeInv, TypeOK
<1>16. ASSUME KeepaliveTick PROVE TypeInv'
  <2>1. LockOK'
    BY <1>16, RequestTyped, Distinct DEF KeepaliveTick
  <2>2. TasksOK'
    BY <1>16 DEF KeepaliveTick, TasksOK, KeepaliveState
  <2>3. QED
    BY <1>16, Kept, <2>1, <2>2 DEF KeepaliveTick, TypeInv, TypeOK, transports
<1>17. ASSUME KeepaliveCheck PROVE TypeInv'
  <2>1. LockOK'
    BY <1>17, ReleaseTyped, Distinct DEF KeepaliveCheck, LockOK, lock
  <2>2. TasksOK'
    BY <1>17 DEF KeepaliveCheck, TasksOK, KeepaliveState
  <2>3. QED
    BY <1>17, Kept, <2>1, <2>2 DEF KeepaliveCheck, TypeInv, TypeOK, transports
<1>18. ASSUME PingReturns PROVE TypeInv'
  <2>1. LockOK'
    BY <1>18, ReleaseTyped, Distinct DEF PingReturns
  <2>2. TasksOK'
    BY <1>18 DEF PingReturns, TasksOK, KeepaliveState
  <2>3. QED
    BY <1>18, Kept, <2>1, <2>2 DEF PingReturns, TypeInv, TypeOK, transports
<1>19. ASSUME KeepaliveAborted PROVE TypeInv'
  <2>1. LockOK'
    BY <1>19, ReleaseTyped, Distinct DEF KeepaliveAborted
  <2>2. TasksOK'
    BY <1>19 DEF KeepaliveAborted, TasksOK, KeepaliveState
  <2>3. QED
    BY <1>19, Kept, <2>1, <2>2 DEF KeepaliveAborted, TypeInv, TypeOK, transports
<1>20. ASSUME LinkDrops PROVE TypeInv'
  <2>1. TransportsOK'
    BY <1>20 DEF LinkDrops, TransportsOK
  <2>2. QED
    BY <1>20, Kept, <2>1 DEF LinkDrops, TypeInv, TypeOK
<1>21. ASSUME UNCHANGED vars PROVE TypeInv'
  BY <1>21 DEF vars, transports, lock, app, TypeInv, TypeOK, TransportsOK, LockOK,
                TasksOK, AppOK, Dialed
<1>22. QED
  BY <1>1, <1>2, <1>3, <1>4, <1>5, <1>6, <1>7, <1>8, <1>9, <1>10,
     <1>11, <1>12, <1>13, <1>14, <1>15, <1>16, <1>17, <1>18, <1>19, <1>20, <1>21
     DEF Next, MonitorStep, KeepaliveStep, CallStep

\* Every variable keeps its type, for every number of callers, streams and calls.
THEOREM Typing == Spec => []TypeInv
<1>1. QED
  BY TypeInvInit, TypeInvStep, PTL DEF Spec

\* TypeOK of the runs, whatever the constants.
THEOREM TypeCorrect == Spec => []TypeOK
<1>1. TypeInv => TypeOK
  BY DEF TypeInv
<1>2. QED
  BY <1>1, Typing, PTL

-----------------------------------------------------------------------------
(* The lock, and the transport a call runs on.                              *)

\* Who asked first is remembered until it lets go, and of two that hold or await
\* the lock one asked before the other.
Ordered ==
    /\ \A p, q \in Parties : q \in ahead[p] => mode[q] # "none"
    /\ \A p, q \in Parties :
        p # q /\ mode[p] # "none" /\ mode[q] # "none" => q \in ahead[p] \/ p \in ahead[q]

\* Every task has the lock in the way its program counter says.
Placed ==
    /\ \A c \in Callers :
        /\ call[c] = "idle" => mode[c] = "none"
        /\ call[c] # "idle" => mode[c] = IF wants[c] = "disconnect" THEN "write" ELSE "read"
    /\ monitor \in {"ticking", "dialing", "replaced"} => mode[Monitor] = "none"
    /\ monitor \in {"checking", "resubscribing"} => mode[Monitor] = "read"
    /\ monitor = "installing" => mode[Monitor] = "write"
    /\ keepalive \in {"off", "ticking", "ended"} => mode[Keeper] = "none"
    /\ keepalive \in {"checking", "pinging"} => mode[Keeper] = "read"

\* A call in progress has the lock and the transport it found.
Inside == \A c \in Callers : call[c] = "inside" => Granted(c) /\ on[c] = slot

LockInv == Ordered /\ Placed /\ Inside

\* A party that has nothing of the lock and asks for it changes nothing for others.
LEMMA RequestBehind ==
    ASSUME LockOK, Ordered, NEW p \in Parties, mode[p] = "none",
           NEW how \in {"read", "write"}, Request(p, how)
    PROVE  /\ Ordered'
           /\ mode'[p] = how
           /\ \A q \in Parties : q # p => mode'[q] = mode[q]
           /\ \A q \in Parties : q # p /\ Granted(q) => Granted(q)'
<1>1. /\ mode' = [mode EXCEPT ![p] = how]
      /\ ahead' = [ahead EXCEPT ![p] = {q \in Parties : mode[q] # "none"}]
  BY DEF Request
<1>2. \A q \in Parties : q # p => mode'[q] = mode[q] /\ ahead'[q] = ahead[q]
  BY <1>1
<1>3. mode'[p] = how /\ ahead'[p] = {q \in Parties : mode[q] # "none"}
  BY <1>1 DEF LockOK
<1>6. ASSUME NEW q \in Parties, q # p, Granted(q) PROVE Granted(q)'
  <2>1. \A r \in ahead[q] : r \in Parties /\ r # p
    BY DEF LockOK, Ordered
  <2>2. QED
    BY <1>2, <1>6, <2>1 DEF Granted
<1>7. QED
  BY <1>2, <1>3, <1>6 DEF Ordered

\* Letting the lock go never takes it from another.
LEMMA ReleaseHelps ==
    ASSUME LockOK, Ordered, NEW p \in Parties, Release(p)
    PROVE  /\ Ordered'
           /\ mode'[p] = "none"
           /\ \A q \in Parties : q # p => mode'[q] = mode[q]
           /\ \A q \in Parties : q # p /\ Granted(q) => Granted(q)'
<1>1. /\ mode' = [mode EXCEPT ![p] = "none"]
      /\ ahead' = [q \in Parties |-> IF q = p THEN {} ELSE ahead[q] \ {p}]
  BY DEF Release
<1>2. \A q \in Parties : q # p => mode'[q] = mode[q] /\ ahead'[q] = ahead[q] \ {p}
  BY <1>1
<1>3. mode'[p] = "none" /\ ahead'[p] = {}
  BY <1>1 DEF LockOK
<1>6. ASSUME NEW q \in Parties, q # p, Granted(q) PROVE Granted(q)'
  <2>1. \A r \in ahead'[q] : r \in ahead[q] /\ r \in Parties /\ r # p
    BY <1>2, <1>6 DEF LockOK
  <2>2. QED
    BY <1>2, <1>6, <2>1 DEF Granted
<1>7. QED
  BY <1>2, <1>3, <1>6 DEF Ordered

\* Who has the lock as a writer has it alone.
LEMMA Alone ==
    ASSUME LockOK, Ordered, NEW p \in Parties, NEW q \in Parties, p # q,
           mode[p] = "write", Granted(p)
    PROVE  ~Granted(q)
BY DEF Ordered, Granted

\* The lock is free right after finish_connect.
LEMMA LockInvInit == Init => LockInv
<1> SUFFICES ASSUME Init PROVE LockInv
  OBVIOUS
<1>1. Ordered
  BY DEF Init, Ordered
<1>2. Placed
  BY Distinct DEF Init, Placed
<1>3. Inside
  BY DEF Init, Inside
<1>4. QED
  BY <1>1, <1>2, <1>3 DEF LockInv

\* No step breaks it: a step asks, lets go or leaves the lock, and only a writer
\* changes the transport in the slot.
LEMMA LockInvStep == TypeInv /\ LockInv /\ [Next]_vars => LockInv'
<1> SUFFICES ASSUME TypeInv, LockInv, [Next]_vars PROVE LockInv'
  OBVIOUS
<1>0. LockOK /\ TasksOK /\ AppOK /\ Ordered /\ Placed /\ Inside
  BY DEF TypeInv, TypeOK, LockInv
<1> USE <1>0
<1>1. ASSUME NEW c \in Callers, Submit(c) PROVE LockInv'
  <2>1. c \in Parties /\ mode[c] = "none"
    BY <1>1, Distinct DEF Submit, Placed
  <2>2. /\ Ordered'
        /\ mode'[c] = IF wants'[c] = "disconnect" THEN "write" ELSE "read"
        /\ \A q \in Parties : q # c => mode'[q] = mode[q]
        /\ \A q \in Parties : q # c /\ Granted(q) => Granted(q)'
    BY <1>1, <2>1, RequestBehind DEF Submit, AppOK
  <2>3. Placed'
    BY <1>1, <2>2, Distinct DEF Submit, Placed, AppOK
  <2>4. Inside'
    BY <1>1, <2>2, Distinct DEF Submit, Inside, transports
  <2>5. QED
    BY <2>2, <2>3, <2>4 DEF LockInv
<1>2. ASSUME NEW c \in Callers, Subscribe(c) PROVE LockInv'
  <2>1. c \in Parties /\ mode[c] = "none"
    BY <1>2, Distinct DEF Subscribe, Placed
  <2>2. /\ Ordered'
        /\ mode'[c] = IF wants'[c] = "disconnect" THEN "write" ELSE "read"
        /\ \A q \in Parties : q # c => mode'[q] = mode[q]
        /\ \A q \in Parties : q # c /\ Granted(q) => Granted(q)'
    BY <1>2, <2>1, RequestBehind, Requests DEF Subscribe, AppOK
  <2>3. Placed'
    BY <1>2, <2>2, Distinct DEF Subscribe, Placed, AppOK
  <2>4. Inside'
    BY <1>2, <2>2, Distinct DEF Subscribe, Inside, transports
  <2>5. QED
    BY <2>2, <2>3, <2>4 DEF LockInv
<1>3. ASSUME NEW c \in Callers, Disconnect(c) PROVE LockInv'
  <2>1. c \in Parties /\ mode[c] = "none"
    BY <1>3, Distinct DEF Disconnect, Placed
  <2>2. /\ Ordered'
        /\ mode'[c] = IF wants'[c] = "disconnect" THEN "write" ELSE "read"
        /\ \A q \in Parties : q # c => mode'[q] = mode[q]
        /\ \A q \in Parties : q # c /\ Granted(q) => Granted(q)'
    BY <1>3, <2>1, RequestBehind DEF Disconnect, AppOK
  <2>3. Placed'
    BY <1>3, <2>2, Distinct DEF Disconnect, Placed, AppOK
  <2>4. Inside'
    BY <1>3, <2>2, Distinct DEF Disconnect, Inside, transports
  <2>5. QED
    BY <2>2, <2>3, <2>4 DEF LockInv
<1>4. ASSUME NEW c \in Callers, Enter(c) PROVE LockInv'
  <2>1. Ordered'
    BY <1>4 DEF Enter, Ordered, lock
  <2>2. Placed'
    BY <1>4 DEF Enter, Placed, lock
  <2>3. Inside'
    BY <1>4 DEF Enter, Inside, Granted, AppOK, transports, lock
  <2>4. QED
    BY <2>1, <2>2, <2>3 DEF LockInv
<1>5. ASSUME NEW c \in Callers, SubmitReturns(c) PROVE LockInv'
  <2>1. c \in Parties
    BY Distinct
  <2>2. /\ Ordered'
        /\ mode'[c] = "none"
        /\ \A q \in Parties : q # c => mode'[q] = mode[q]
        /\ \A q \in Parties : q # c /\ Granted(q) => Granted(q)'
    BY <1>5, <2>1, ReleaseHelps DEF SubmitReturns, Ends
  <2>3. Placed'
    BY <1>5, <2>2, Distinct DEF SubmitReturns, Ends, Placed, AppOK
  <2>4. Inside'
    BY <1>5, <2>2, Distinct DEF SubmitReturns, Ends, Inside, AppOK, transports
  <2>5. QED
    BY <2>2, <2>3, <2>4 DEF LockInv
<1>6. ASSUME NEW c \in Callers, SubscribeReturns(c) PROVE LockInv'
  <2>1. c \in Parties
    BY Distinct
  <2>2. /\ Ordered'
        /\ mode'[c] = "none"
        /\ \A q \in Parties : q # c => mode'[q] = mode[q]
        /\ \A q \in Parties : q # c /\ Granted(q) => Granted(q)'
    BY <1>6, <2>1, ReleaseHelps DEF SubscribeReturns, Ends
  <2>3. Placed'
    BY <1>6, <2>2, Distinct DEF SubscribeReturns, Ends, Placed, AppOK
  <2>4. Inside'
    BY <1>6, <2>2, Distinct DEF SubscribeReturns, Ends, Inside, AppOK
  <2>5. QED
    BY <2>2, <2>3, <2>4 DEF LockInv
<1>7. ASSUME NEW c \in Callers, DisconnectReturns(c) PROVE LockInv'
  <2>1. c \in Parties
    BY Distinct
  <2>2. /\ Ordered'
        /\ mode'[c] = "none"
        /\ \A q \in Parties : q # c => mode'[q] = mode[q]
        /\ \A q \in Parties : q # c /\ Granted(q) => Granted(q)'
    BY <1>7, <2>1, ReleaseHelps DEF DisconnectReturns, Ends
  <2>3. Placed'
    BY <1>7, <2>2, Distinct DEF DisconnectReturns, Ends, Placed, AppOK
  <2>4. Inside'
    BY <1>7, <2>2, Distinct DEF DisconnectReturns, Ends, Inside, AppOK
  <2>5. QED
    BY <2>2, <2>3, <2>4 DEF LockInv
<1>8. ASSUME MonitorTick PROVE LockInv'
  <2>1. Monitor \in Parties /\ mode[Monitor] = "none"
    BY <1>8, Distinct DEF MonitorTick, Placed
  <2>2. /\ Ordered'
        /\ mode'[Monitor] = "read"
        /\ \A q \in Parties : q # Monitor => mode'[q] = mode[q]
        /\ \A q \in Parties : q # Monitor /\ Granted(q) => Granted(q)'
    BY <1>8, <2>1, RequestBehind DEF MonitorTick
  <2>3. Placed'
    BY <1>8, <2>2, Distinct DEF MonitorTick, Placed, app
  <2>4. Inside'
    BY <1>8, <2>2, Distinct DEF MonitorTick, Inside, transports, app
  <2>5. QED
    BY <2>2, <2>3, <2>4 DEF LockInv
<1>9. ASSUME MonitorCheck PROVE LockInv'
  <2>1. Monitor \in Parties
    BY Distinct
  <2>2. /\ Ordered'
        /\ mode'[Monitor] = "none"
        /\ \A q \in Parties : q # Monitor => mode'[q] = mode[q]
        /\ \A q \in Parties : q # Monitor /\ Granted(q) => Granted(q)'
    BY <1>9, <2>1, ReleaseHelps DEF MonitorCheck
  <2>3. Placed'
    BY <1>9, <2>2, Distinct DEF MonitorCheck, Placed, app
  <2>4. Inside'
    BY <1>9, <2>2, Distinct DEF MonitorCheck, Inside, transports, app
  <2>5. QED
    BY <2>2, <2>3, <2>4 DEF LockInv
<1>10. ASSUME DialFails PROVE LockInv'
  <2>1. Ordered'
    BY <1>10 DEF DialFails, Ordered, lock
  <2>2. Placed'
    BY <1>10 DEF DialFails, Placed, lock, app
  <2>3. Inside'
    BY <1>10 DEF DialFails, Inside, Granted, transports, lock, app
  <2>4. QED
    BY <2>1, <2>2, <2>3 DEF LockInv
<1>11. ASSUME DialSucceeds PROVE LockInv'
  <2>1. Monitor \in Parties /\ mode[Monitor] = "none"
    BY <1>11, Distinct DEF DialSucceeds, Placed
  <2>2. /\ Ordered'
        /\ mode'[Monitor] = "write"
        /\ \A q \in Parties : q # Monitor => mode'[q] = mode[q]
        /\ \A q \in Parties : q # Monitor /\ Granted(q) => Granted(q)'
    BY <1>11, <2>1, RequestBehind DEF DialSucceeds
  <2>3. Placed'
    BY <1>11, <2>2, Distinct DEF DialSucceeds, Placed, app
  <2>4. Inside'
    BY <1>11, <2>2, Distinct DEF DialSucceeds, Inside, app
  <2>5. QED
    BY <2>2, <2>3, <2>4 DEF LockInv
<1>12. ASSUME Install PROVE LockInv'
  <2>1. Monitor \in Parties
    BY Distinct
  <2>2. /\ Ordered'
        /\ mode'[Monitor] = "none"
        /\ \A q \in Parties : q # Monitor => mode'[q] = mode[q]
        /\ \A q \in Parties : q # Monitor /\ Granted(q) => Granted(q)'
    BY <1>12, <2>1, ReleaseHelps DEF Install
  <2>3. Placed'
    BY <1>12, <2>2, Distinct DEF Install, Placed, app
  <2>4. \A c \in Callers : call[c] # "inside"
    BY <1>12, Alone, Distinct DEF Install, Inside, Placed
  <2>5. Inside'
    BY <1>12, <2>4 DEF Install, Inside, app
  <2>6. QED
    BY <2>2, <2>3, <2>5 DEF LockInv
<1>13. ASSUME Snapshot PROVE LockInv'
  <2>1. CASE UNCHANGED lock /\ monitor' = "ticking"
    <3>1. Ordered' /\ \A q \in Parties : Granted(q) => Granted(q)'
      BY <2>1 DEF Ordered, Granted, lock
    <3>2. Placed'
      BY <1>13, <2>1 DEF Snapshot, Placed, lock, app
    <3>3. Inside'
      BY <1>13, <3>1, Distinct DEF Snapshot, Inside, transports, app
    <3>4. QED
      BY <3>1, <3>2, <3>3 DEF LockInv
  <2>2. CASE Request(Monitor, "read") /\ monitor' = "resubscribing"
    <3>1. mode[Monitor] = "none"
      BY <1>13 DEF Snapshot, Placed
    <3>2. /\ Ordered'
          /\ mode'[Monitor] = "read"
          /\ \A q \in Parties : q # Monitor => mode'[q] = mode[q]
          /\ \A q \in Parties : q # Monitor /\ Granted(q) => Granted(q)'
      BY <2>2, <3>1, RequestBehind, Distinct
    <3>3. Placed'
      BY <1>13, <2>2, <3>2, Distinct DEF Snapshot, Placed, app
    <3>4. Inside'
      BY <1>13, <3>2, Distinct DEF Snapshot, Inside, transports, app
    <3>5. QED
      BY <3>2, <3>3, <3>4 DEF LockInv
  <2>3. QED
    BY <1>13, <2>1, <2>2 DEF Snapshot
<1>14. ASSUME Resubscribe PROVE LockInv'
  <2>1. Ordered'
    BY <1>14 DEF Resubscribe, Ordered, lock
  <2>2. Placed'
    BY <1>14 DEF Resubscribe, Placed, lock, app
  <2>3. Inside'
    BY <1>14 DEF Resubscribe, Inside, Granted, lock, app
  <2>4. QED
    BY <2>1, <2>2, <2>3 DEF LockInv
<1>15. ASSUME ResubscribeDone PROVE LockInv'
  <2>1. Monitor \in Parties
    BY Distinct
  <2>2. /\ Ordered'
        /\ mode'[Monitor] = "none"
        /\ \A q \in Parties : q # Monitor => mode'[q] = mode[q]
        /\ \A q \in Parties : q # Monitor /\ Granted(q) => Granted(q)'
    BY <1>15, <2>1, ReleaseHelps DEF ResubscribeDone
  <2>3. Placed'
    BY <1>15, <2>2, Distinct DEF ResubscribeDone, Placed, app
  <2>4. Inside'
    BY <1>15, <2>2, Distinct DEF ResubscribeDone, Inside, transports, app
  <2>5. QED
    BY <2>2, <2>3, <2>4 DEF LockInv
<1>16. ASSUME KeepaliveTick PROVE LockInv'
  <2>1. Keeper \in Parties /\ mode[Keeper] = "none"
    BY <1>16, Distinct DEF KeepaliveTick, Placed
  <2>2. /\ Ordered'
        /\ mode'[Keeper] = "read"
        /\ \A q \in Parties : q # Keeper => mode'[q] = mode[q]
        /\ \A q \in Parties : q # Keeper /\ Granted(q) => Granted(q)'
    BY <1>16, <2>1, RequestBehind DEF KeepaliveTick
  <2>3. Placed'
    BY <1>16, <2>2, Distinct DEF KeepaliveTick, Placed, app
  <2>4. Inside'
    BY <1>16, <2>2, Distinct DEF KeepaliveTick, Inside, transports, app
  <2>5. QED
    BY <2>2, <2>3, <2>4 DEF LockInv
<1>17. ASSUME KeepaliveCheck PROVE LockInv'
  <2>1. CASE keepalive' = "pinging" /\ UNCHANGED lock
    <3>1. Ordered' /\ \A q \in Parties : Granted(q) => Granted(q)'
      BY <2>1 DEF Ordered, Granted, lock
    <3>2. Placed'
      BY <1>17, <2>1 DEF KeepaliveCheck, Placed, lock, app
    <3>3. Inside'
      BY <1>17, <3>1, Distinct DEF KeepaliveCheck, Inside, transports, app
    <3>4. QED
      BY <3>1, <3>2, <3>3 DEF LockInv
  <2>2. CASE keepalive' = "ended" /\ Release(Keeper)
    <3>1. /\ Ordered'
          /\ mode'[Keeper] = "none"
          /\ \A q \in Parties : q # Keeper => mode'[q] = mode[q]
          /\ \A q \in Parties : q # Keeper /\ Granted(q) => Granted(q)'
      BY <2>2, ReleaseHelps, Distinct
    <3>2. Placed'
      BY <1>17, <2>2, <3>1, Distinct DEF KeepaliveCheck, Placed, app
    <3>3. Inside'
      BY <1>17, <3>1, Distinct DEF KeepaliveCheck, Inside, transports, app
    <3>4. QED
      BY <3>1, <3>2, <3>3 DEF LockInv
  <2>3. QED
    BY <1>17, <2>1, <2>2 DEF KeepaliveCheck
<1>18. ASSUME PingReturns PROVE LockInv'
  <2>1. Keeper \in Parties
    BY Distinct
  <2>2. /\ Ordered'
        /\ mode'[Keeper] = "none"
        /\ \A q \in Parties : q # Keeper => mode'[q] = mode[q]
        /\ \A q \in Parties : q # Keeper /\ Granted(q) => Granted(q)'
    BY <1>18, <2>1, ReleaseHelps DEF PingReturns
  <2>3. Placed'
    BY <1>18, <2>2, Distinct DEF PingReturns, Placed, app
  <2>4. Inside'
    BY <1>18, <2>2, Distinct DEF PingReturns, Inside, transports, app
  <2>5. QED
    BY <2>2, <2>3, <2>4 DEF LockInv
<1>19. ASSUME KeepaliveAborted PROVE LockInv'
  <2>1. Keeper \in Parties
    BY Distinct
  <2>2. /\ Ordered'
        /\ mode'[Keeper] = "none"
        /\ \A q \in Parties : q # Keeper => mode'[q] = mode[q]
        /\ \A q \in Parties : q # Keeper /\ Granted(q) => Granted(q)'
    BY <1>19, <2>1, ReleaseHelps DEF KeepaliveAborted
  <2>3. Placed'
    BY <1>19, <2>2, Distinct DEF KeepaliveAborted, Placed, app
  <2>4. Inside'
    BY <1>19, <2>2, Distinct DEF KeepaliveAborted, Inside, transports, app
  <2>5. QED
    BY <2>2, <2>3, <2>4 DEF LockInv
<1>20. ASSUME LinkDrops PROVE LockInv'
  <2>1. Ordered'
    BY <1>20 DEF LinkDrops, Ordered, lock
  <2>2. Placed'
    BY <1>20 DEF LinkDrops, Placed, lock, app
  <2>3. Inside'
    BY <1>20 DEF LinkDrops, Inside, Granted, lock, app
  <2>4. QED
    BY <2>1, <2>2, <2>3 DEF LockInv
<1>21. ASSUME UNCHANGED vars PROVE LockInv'
  BY <1>21 DEF vars, transports, lock, app, LockInv, Ordered, Placed, Inside, Granted
<1>22. QED
  BY <1>1, <1>2, <1>3, <1>4, <1>5, <1>6, <1>7, <1>8, <1>9, <1>10,
     <1>11, <1>12, <1>13, <1>14, <1>15, <1>16, <1>17, <1>18, <1>19, <1>20, <1>21
     DEF Next, MonitorStep, KeepaliveStep, CallStep

\* No reconnect swaps the transport under a call: Inside holds as long as the
\* client lives.
THEOREM NoSwapUnderCall == Spec => []CallsKeepTheirTransport
<1>1. LockInv => CallsKeepTheirTransport
  BY DEF LockInv, Inside, CallsKeepTheirTransport
<1>2. Spec => []LockInv
  BY LockInvInit, LockInvStep, Typing, PTL DEF Spec
<1>3. QED
  BY <1>1, <1>2, PTL

-----------------------------------------------------------------------------
(* What the monitor replaces, and what follows.                             *)

\* The flag the monitor read is still clear when it dials and when it installs,
\* and only a disconnect() has cleared it.
DialInv ==
    /\ monitor \in {"dialing", "installing"} => ~flag[slot]
    /\ ~flag[slot] => asked > 0
    /\ \A c \in Callers : call[c] # "idle" /\ wants[c] = "disconnect" => asked > 0

\* It holds right after finish_connect.
LEMMA DialInvInit == Init => DialInv
BY Numbers DEF Init, DialInv

\* No step breaks it.
LEMMA DialInvStep == TypeInv /\ DialInv /\ [Next]_vars => DialInv'
<1> SUFFICES ASSUME TypeInv, DialInv, [Next]_vars PROVE DialInv'
  OBVIOUS
<1>0. TransportsOK /\ TasksOK /\ AppOK /\ Dialed
  BY DEF TypeInv, TypeOK
<1> USE <1>0, DialInv, ClientOK
<1>1. ASSUME NEW c \in Callers, Submit(c) PROVE DialInv'
  BY <1>1 DEF Submit, DialInv, AppOK, transports
<1>2. ASSUME NEW c \in Callers, Subscribe(c) PROVE DialInv'
  BY <1>2 DEF Subscribe, DialInv, AppOK, transports
<1>3. ASSUME NEW c \in Callers, Disconnect(c) PROVE DialInv'
  BY <1>3 DEF Disconnect, DialInv, AppOK, transports
<1>4. ASSUME NEW c \in Callers, Enter(c) PROVE DialInv'
  BY <1>4 DEF Enter, DialInv, transports
<1>5. ASSUME NEW c \in Callers, SubmitReturns(c) PROVE DialInv'
  BY <1>5 DEF SubmitReturns, Ends, DialInv, transports
<1>6. ASSUME NEW c \in Callers, SubscribeReturns(c) PROVE DialInv'
  BY <1>6 DEF SubscribeReturns, Ends, DialInv
<1>7. ASSUME NEW c \in Callers, DisconnectReturns(c) PROVE DialInv'
  BY <1>7 DEF DisconnectReturns, Ends, DialInv
<1>8. ASSUME MonitorTick PROVE DialInv'
  BY <1>8 DEF MonitorTick, DialInv, transports, app
<1>9. ASSUME MonitorCheck PROVE DialInv'
  BY <1>9 DEF MonitorCheck, DialInv, transports, app
<1>10. ASSUME DialFails PROVE DialInv'
  BY <1>10 DEF DialFails, DialInv, app
<1>11. ASSUME DialSucceeds PROVE DialInv'
  BY <1>11, Numbers DEF DialSucceeds, DialInv, app
<1>12. ASSUME Install PROVE DialInv'
  BY <1>12 DEF Install, DialInv, app
<1>13. ASSUME Snapshot PROVE DialInv'
  BY <1>13 DEF Snapshot, DialInv, transports, app
<1>14. ASSUME Resubscribe PROVE DialInv'
  BY <1>14 DEF Resubscribe, DialInv, app
<1>15. ASSUME ResubscribeDone PROVE DialInv'
  BY <1>15 DEF ResubscribeDone, DialInv, transports, app
<1>16. ASSUME KeepaliveTick PROVE DialInv'
  BY <1>16 DEF KeepaliveTick, DialInv, transports, app
<1>17. ASSUME KeepaliveCheck PROVE DialInv'
  BY <1>17 DEF KeepaliveCheck, DialInv, transports, app
<1>18. ASSUME PingReturns PROVE DialInv'
  BY <1>18 DEF PingReturns, DialInv, transports, app
<1>19. ASSUME KeepaliveAborted PROVE DialInv'
  BY <1>19 DEF KeepaliveAborted, DialInv, transports, app
<1>20. ASSUME LinkDrops PROVE DialInv'
  BY <1>20 DEF LinkDrops, DialInv, app
<1>21. ASSUME UNCHANGED vars PROVE DialInv'
  BY <1>21 DEF vars, transports, app, DialInv
<1>22. QED
  BY <1>1, <1>2, <1>3, <1>4, <1>5, <1>6, <1>7, <1>8, <1>9, <1>10,
     <1>11, <1>12, <1>13, <1>14, <1>15, <1>16, <1>17, <1>18, <1>19, <1>20, <1>21
     DEF Next, MonitorStep, KeepaliveStep, CallStep

\* The monitor replaces only a transport that a disconnect() has closed, however
\* long ago it read the flag.
THEOREM OnlyDisconnectedReplaced == Spec => ReplacedOnlyAfterDisconnect
<1>1. DialInv /\ [Next]_vars => [slot' # slot => ~flag[slot] /\ asked > 0]_vars
  <2> SUFFICES ASSUME DialInv, [Next]_vars, slot' # slot PROVE ~flag[slot] /\ asked > 0
    OBVIOUS
  <2>1. Install
    BY DEF Next, CallStep, MonitorStep, KeepaliveStep, Submit, Subscribe, Disconnect, Enter,
           SubmitReturns, SubscribeReturns, DisconnectReturns, MonitorTick, MonitorCheck,
           DialFails, DialSucceeds, Snapshot, Resubscribe, ResubscribeDone, KeepaliveTick,
           KeepaliveCheck, PingReturns, KeepaliveAborted, LinkDrops, transports, vars
  <2>2. QED
    BY <2>1 DEF Install, DialInv
<1>2. Spec => []DialInv
  BY DialInvInit, DialInvStep, Typing, PTL DEF Spec
<1>3. QED
  BY <1>1, <1>2, PTL DEF Spec, ReplacedOnlyAfterDisconnect

\* Nothing is tracked right after finish_connect.
LEMMA FollowInit == Init => StreamsFollow
BY DEF Init, StreamsFollow

\* No step forgets a stream.
LEMMA FollowStep == TypeInv /\ StreamsFollow /\ [Next]_vars => StreamsFollow'
<1> SUFFICES ASSUME TypeInv, StreamsFollow, [Next]_vars PROVE StreamsFollow'
  OBVIOUS
<1>0. TransportsOK /\ TasksOK /\ AppOK /\ Dialed
  BY DEF TypeInv, TypeOK
<1> USE <1>0
<1>1. ASSUME NEW c \in Callers, Submit(c) PROVE StreamsFollow'
  BY <1>1 DEF Submit, StreamsFollow, OnItsWay, transports
<1>2. ASSUME NEW c \in Callers, Subscribe(c) PROVE StreamsFollow'
  BY <1>2 DEF Subscribe, StreamsFollow, OnItsWay, AppOK, transports
<1>3. ASSUME NEW c \in Callers, Disconnect(c) PROVE StreamsFollow'
  BY <1>3 DEF Disconnect, StreamsFollow, OnItsWay, transports
<1>4. ASSUME NEW c \in Callers, Enter(c) PROVE StreamsFollow'
  BY <1>4 DEF Enter, StreamsFollow, OnItsWay, transports
<1>5. ASSUME NEW c \in Callers, SubmitReturns(c) PROVE StreamsFollow'
  BY <1>5, Requests DEF SubmitReturns, Ends, StreamsFollow, OnItsWay, TasksOK, transports
<1>6. ASSUME NEW c \in Callers, SubscribeReturns(c) PROVE StreamsFollow'
  BY <1>6 DEF SubscribeReturns, Ends, StreamsFollow, OnItsWay, Takes, TransportsOK
<1>7. ASSUME NEW c \in Callers, DisconnectReturns(c) PROVE StreamsFollow'
  BY <1>7 DEF DisconnectReturns, StreamsFollow, TransportsOK
<1>8. ASSUME MonitorTick PROVE StreamsFollow'
  BY <1>8 DEF MonitorTick, StreamsFollow, OnItsWay, transports, app
<1>9. ASSUME MonitorCheck PROVE StreamsFollow'
  BY <1>9 DEF MonitorCheck, StreamsFollow, OnItsWay, transports, app
<1>10. ASSUME DialFails PROVE StreamsFollow'
  BY <1>10 DEF DialFails, StreamsFollow, OnItsWay, transports, app
<1>11. ASSUME DialSucceeds PROVE StreamsFollow'
  BY <1>11, Numbers DEF DialSucceeds, StreamsFollow, OnItsWay, app
<1>12. ASSUME Install PROVE StreamsFollow'
  BY <1>12 DEF Install, StreamsFollow
<1>13. ASSUME Snapshot PROVE StreamsFollow'
  BY <1>13 DEF Snapshot, StreamsFollow
<1>14. ASSUME Resubscribe PROVE StreamsFollow'
  BY <1>14 DEF Resubscribe, StreamsFollow, OnItsWay, Takes, TransportsOK, app
<1>15. ASSUME ResubscribeDone PROVE StreamsFollow'
  BY <1>15 DEF ResubscribeDone, StreamsFollow, OnItsWay, transports, app
<1>16. ASSUME KeepaliveTick PROVE StreamsFollow'
  BY <1>16 DEF KeepaliveTick, StreamsFollow, OnItsWay, transports, app
<1>17. ASSUME KeepaliveCheck PROVE StreamsFollow'
  BY <1>17 DEF KeepaliveCheck, StreamsFollow, OnItsWay, transports, app
<1>18. ASSUME PingReturns PROVE StreamsFollow'
  BY <1>18 DEF PingReturns, StreamsFollow, OnItsWay, transports, app
<1>19. ASSUME KeepaliveAborted PROVE StreamsFollow'
  BY <1>19 DEF KeepaliveAborted, StreamsFollow, OnItsWay, transports, app
<1>20. ASSUME LinkDrops PROVE StreamsFollow'
  BY <1>20 DEF LinkDrops, StreamsFollow, OnItsWay, app
<1>21. ASSUME UNCHANGED vars PROVE StreamsFollow'
  BY <1>21 DEF vars, transports, app, StreamsFollow, OnItsWay
<1>22. QED
  BY <1>1, <1>2, <1>3, <1>4, <1>5, <1>6, <1>7, <1>8, <1>9, <1>10,
     <1>11, <1>12, <1>13, <1>14, <1>15, <1>16, <1>17, <1>18, <1>19, <1>20, <1>21
     DEF Next, MonitorStep, KeepaliveStep, CallStep

\* Across every reconnect the tracked streams are requested again.
THEOREM StreamsKept == Spec => []StreamsFollow
<1>1. QED
  BY FollowInit, FollowStep, Typing, PTL DEF Spec

-----------------------------------------------------------------------------
(* The slot implements TransportCell.                                       *)

\* A ping in progress has the lock.
Pinging == keepalive = "pinging" => Granted(Keeper)

\* What another party does to the lock does not take it from the keepalive task.
LEMMA OthersKeep ==
    ASSUME LockOK, Ordered, Granted(Keeper), NEW p \in Parties, p # Keeper,
           \/ UNCHANGED lock
           \/ mode[p] = "none" /\ (Request(p, "read") \/ Request(p, "write"))
           \/ Release(p)
    PROVE  Granted(Keeper)'
<1>1. CASE UNCHANGED lock
  BY <1>1 DEF Granted, lock
<1>2. CASE mode[p] = "none" /\ (Request(p, "read") \/ Request(p, "write"))
  BY <1>2, RequestBehind, Distinct
<1>3. CASE Release(p)
  BY <1>3, ReleaseHelps, Distinct
<1>4. QED
  BY <1>1, <1>2, <1>3

\* A ping begins with the lock, and keeps it until it is over.
LEMMA PingingStep == TypeInv /\ LockInv /\ Pinging /\ [Next]_vars => Pinging'
<1> SUFFICES ASSUME TypeInv, LockInv, Pinging, [Next]_vars, keepalive' = "pinging"
             PROVE  Granted(Keeper)'
  BY DEF Pinging
<1>0. LockOK /\ Ordered /\ Placed
  BY DEF TypeInv, TypeOK, LockInv
<1>1. CASE KeepaliveStep
  <2>1. KeepaliveCheck /\ UNCHANGED lock
    BY <1>1 DEF KeepaliveStep, KeepaliveTick, KeepaliveCheck, PingReturns, KeepaliveAborted
  <2>2. QED
    BY <2>1 DEF KeepaliveCheck, Granted, lock
<1>2. ASSUME NEW c \in Callers, Submit(c) \/ Subscribe(c) \/ Disconnect(c) \/ CallStep(c)
      PROVE  Granted(Keeper)'
  <2>1. c \in Parties /\ c # Keeper
    BY Distinct
  <2>2. keepalive = "pinging"
    BY <1>2 DEF Submit, Subscribe, Disconnect, CallStep, Enter, SubmitReturns,
                SubscribeReturns, DisconnectReturns
  <2>3. \/ UNCHANGED lock
        \/ mode[c] = "none" /\ (Request(c, "read") \/ Request(c, "write"))
        \/ Release(c)
    BY <1>0, <1>2 DEF Submit, Subscribe, Disconnect, CallStep, Enter, SubmitReturns,
                      SubscribeReturns, DisconnectReturns, Ends, Placed
  <2>4. QED
    BY <1>0, <2>1, <2>2, <2>3, OthersKeep DEF Pinging
<1>3. CASE MonitorStep
  <2>1. Monitor \in Parties /\ Monitor # Keeper
    BY Distinct
  <2>2. keepalive = "pinging"
    BY <1>3 DEF MonitorStep, MonitorTick, MonitorCheck, DialFails, DialSucceeds, Install,
                Snapshot, Resubscribe, ResubscribeDone
  <2>3. \/ UNCHANGED lock
        \/ mode[Monitor] = "none" /\ (Request(Monitor, "read") \/ Request(Monitor, "write"))
        \/ Release(Monitor)
    BY <1>0, <1>3 DEF MonitorStep, MonitorTick, MonitorCheck, DialFails, DialSucceeds, Install,
                      Snapshot, Resubscribe, ResubscribeDone, Placed
  <2>4. QED
    BY <1>0, <2>1, <2>2, <2>3, OthersKeep DEF Pinging
<1>4. CASE LinkDrops \/ UNCHANGED vars
  BY <1>4 DEF LinkDrops, vars, lock, Pinging, Granted
<1>5. QED
  BY <1>1, <1>2, <1>3, <1>4 DEF Next

CellInv == TypeInv /\ LockInv /\ DialInv /\ Pinging

\* What the refinement rests on holds as long as the client lives.
LEMMA CellInvHolds == Spec => []CellInv
<1>1. Init => CellInv
  BY TypeInvInit, LockInvInit, DialInvInit DEF CellInv, Pinging, Init
<1>2. CellInv /\ [Next]_vars => CellInv'
  BY TypeInvStep, LockInvStep, DialInvStep, PingingStep DEF CellInv
<1>3. QED
  BY <1>1, <1>2, PTL DEF Spec

\* A user uses nothing, or has the lock and uses the transport in the slot.
LEMMA UsesIs ==
    ASSUME CellInv, NEW u \in Users
    PROVE  /\ u \in Parties
           /\ Uses(u) = 0 \/ (Uses(u) = slot /\ Granted(u))
           /\ u = Keeper => (Uses(u) # 0 <=> keepalive = "pinging")
           /\ u # Keeper => u \in Callers /\ (Uses(u) # 0 <=> call[u] = "inside")
<1>1. u \in Parties
  BY DEF Users, Parties
<1>2. slot # 0 /\ \A c \in Callers : on[c] # 0
  BY ClientOK DEF CellInv, TypeInv, TypeOK, TransportsOK, AppOK, Transports
<1>3. CASE u = Keeper
  BY <1>1, <1>2, <1>3 DEF Uses, CellInv, Pinging
<1>4. CASE u # Keeper
  <2>1. u \in Callers
    BY <1>4 DEF Users
  <2>2. call[u] = "inside" => Granted(u) /\ on[u] = slot
    BY <2>1 DEF CellInv, LockInv, Inside
  <2>3. QED
    BY <1>1, <1>2, <1>4, <2>1, <2>2 DEF Uses
<1>5. QED
  BY <1>3, <1>4

\* Who has the lock as a writer shares the transport with no user.
LEMMA WriterAlone ==
    ASSUME CellInv, NEW p \in Parties, mode[p] = "write", Granted(p)
    PROVE  \A u \in Users : u # p => Uses(u) = 0
<1> SUFFICES ASSUME NEW u \in Users, u # p PROVE Uses(u) = 0
  OBVIOUS
<1>1. LockOK /\ Ordered
  BY DEF CellInv, TypeInv, TypeOK, LockInv
<1>2. u \in Parties /\ (Uses(u) = 0 \/ Granted(u))
  BY UsesIs
<1>3. ~Granted(u)
  BY <1>1, <1>2, Alone
<1>4. QED
  BY <1>2, <1>3

\* Whoever is about to close the transport has the lock as a writer.
LEMMA ClosersAre ==
    ASSUME CellInv, NEW c \in Closers
    PROVE  c \in Callers /\ c \in Users /\ c \in Parties /\ mode[c] = "write" /\ Granted(c)
BY Distinct DEF Closers, Users, CellInv, LockInv, Placed, Inside

\* A user who has the lock finds nobody closing beside it.
LEMMA NoCloserBeside ==
    ASSUME CellInv, NEW p \in Parties, Granted(p)
    PROVE  \A d \in Closers : d = p
<1> SUFFICES ASSUME NEW d \in Closers, d # p PROVE FALSE
  OBVIOUS
<1>1. d \in Parties /\ mode[d] = "write" /\ Granted(d)
  BY ClosersAre
<1>2. LockOK /\ Ordered
  BY DEF CellInv, TypeInv, TypeOK, LockInv
<1>3. QED
  BY <1>1, <1>2, Alone

\* Steps that neither begin nor end a use, nor touch the slot or a flag of a
\* transport that was in it, are none of the cell's.
LEMMA CellStutters ==
    ASSUME UNCHANGED slot, \A t \in 1..slot : flag'[t] = flag[t],
           \A u \in Users : Uses(u)' = Uses(u), Closers' = Closers
    PROVE  UNCHANGED Cell!vars
<1>1. Usable' = Usable
  BY DEF Usable
<1>2. Using' = Using
  BY DEF Using
<1>3. QED
  BY <1>1, <1>2 DEF Cell!vars

\* A call is made: its caller uses nothing yet.
LEMMA CallStutters ==
    ASSUME CellInv, NEW c \in Callers, Submit(c) \/ Subscribe(c) \/ Disconnect(c)
    PROVE  UNCHANGED Cell!vars
<1>1. AppOK
  BY DEF CellInv, TypeInv, TypeOK
<1>2. /\ call[c] = "idle" /\ call' = [call EXCEPT ![c] = "queued"]
      /\ UNCHANGED <<slot, flag, on, keepalive>>
      /\ \A d \in Callers : d # c => wants'[d] = wants[d]
  BY <1>1 DEF Submit, Subscribe, Disconnect, transports, AppOK
<1>3. \A d \in Callers : (call'[d] = "inside" <=> call[d] = "inside")
                         /\ (call[d] = "inside" => wants'[d] = wants[d])
  BY <1>1, <1>2 DEF AppOK
<1>4. \A u \in Users : Uses(u)' = Uses(u)
  BY <1>2, <1>3 DEF Uses, Users
<1>5. Closers' = Closers
  BY <1>3 DEF Closers
<1>6. QED
  BY <1>2, <1>4, <1>5, CellStutters

\* A call gets its turn: a disconnect() alone, the others beside each other.
LEMMA EnterBegins ==
    ASSUME CellInv, NEW c \in Callers, Enter(c)
    PROVE  Cell!Begin(c) \/ Cell!BeginClose(c)
<1>1. /\ AppOK /\ TransportsOK /\ c \in Parties /\ c # Keeper /\ c \in Users
      /\ call[c] = "queued" /\ Granted(c)
      /\ call' = [call EXCEPT ![c] = "inside"] /\ on' = [on EXCEPT ![c] = slot]
      /\ UNCHANGED <<slot, flag, keepalive, wants>>
  BY Distinct DEF CellInv, TypeInv, TypeOK, Enter, transports, Users
<1>2. Using[c] = 0
  BY <1>1, UsesIs DEF Using
<1>3. Using' = [Using EXCEPT ![c] = slot]
  <2>1. \A u \in Users : Uses(u)' = IF u = c THEN slot ELSE Uses(u)
    BY <1>1 DEF Uses, Users, AppOK
  <2>2. QED
    BY <2>1 DEF Using
<1>4. Usable' = Usable
  BY <1>1 DEF Usable
<1>5. Closers = {}
  <2>1. c \notin Closers
    BY <1>1 DEF Closers
  <2>2. QED
    BY <1>1, <2>1, NoCloserBeside
<1>6. CASE wants[c] = "disconnect"
  <2>1. Closers' = {c}
    <3>1. \A d \in Callers : d \in Closers' <=> d = c \/ d \in Closers
      BY <1>1, <1>6 DEF Closers, AppOK
    <3>2. Closers' \subseteq Callers
      BY DEF Closers
    <3>3. QED
      BY <1>5, <3>1, <3>2
  <2>2. mode[c] = "write"
    BY <1>1, <1>6 DEF CellInv, LockInv, Placed
  <2>3. \A u \in Users : Uses(u) = 0
    BY <1>1, <1>2, <2>2, WriterAlone DEF Using
  <2>4. Cell!Unused
    BY <2>3 DEF Cell!Unused, Using
  <2>5. QED
    BY <1>1, <1>3, <1>4, <2>1, <2>4 DEF Cell!BeginClose
<1>7. CASE wants[c] # "disconnect"
  <2>1. Closers' = Closers
    BY <1>1, <1>7 DEF Closers, AppOK
  <2>2. QED
    BY <1>1, <1>2, <1>3, <1>4, <1>5, <2>1 DEF Cell!Begin
<1>8. QED
  BY <1>6, <1>7

\* A call returns.
LEMMA ReturnEnds ==
    ASSUME CellInv, NEW c \in Callers, Ends(c),
           UNCHANGED <<slot, keepalive, wants, on>>
    PROVE  /\ c \in Users /\ Using[c] # 0 /\ Using' = [Using EXCEPT ![c] = 0]
           /\ c \in Closers <=> wants[c] = "disconnect"
           /\ Closers' = Closers \ {c}
<1>1. /\ AppOK /\ c # Keeper /\ c \in Users
      /\ call[c] = "inside" /\ call' = [call EXCEPT ![c] = "idle"]
  BY Distinct DEF CellInv, TypeInv, TypeOK, Ends, Users
<1>2. Using[c] # 0
  BY <1>1, UsesIs DEF Using
<1>3. Using' = [Using EXCEPT ![c] = 0]
  <2>1. \A u \in Users : Uses(u)' = IF u = c THEN 0 ELSE Uses(u)
    BY <1>1 DEF Uses, Users, AppOK
  <2>2. QED
    BY <2>1 DEF Using
<1>4. Closers' = Closers \ {c}
  BY <1>1 DEF Closers, AppOK
<1>5. QED
  BY <1>1, <1>2, <1>3, <1>4 DEF Closers

\* The end of a disconnect() is the end of its transport.
LEMMA DisconnectEnds ==
    ASSUME CellInv, NEW c \in Callers, DisconnectReturns(c)
    PROVE  Cell!EndClose(c)
<1>1. /\ Ends(c) /\ wants[c] = "disconnect" /\ flag' = [flag EXCEPT ![slot] = FALSE]
      /\ UNCHANGED <<slot, keepalive, wants, on>>
  BY DEF DisconnectReturns
<1>2. /\ c \in Users /\ c \in Closers /\ Using' = [Using EXCEPT ![c] = 0]
      /\ Closers' = Closers \ {c}
  BY <1>1, ReturnEnds
<1>3. Closers = {c}
  BY <1>2, ClosersAre, NoCloserBeside
<1>4. Usable' = Usable \ {slot}
  BY <1>1, ClientOK DEF Usable, CellInv, TypeInv, TypeOK, TransportsOK, Transports
<1>5. QED
  BY <1>1, <1>2, <1>3, <1>4 DEF Cell!EndClose

\* The monitor installs a transport: nobody uses the closed one.
LEMMA InstallReplaces ==
    ASSUME CellInv, Install
    PROVE  Cell!Replace
<1>1. /\ TransportsOK /\ monitor = "installing" /\ Granted(Monitor) /\ Monitor \in Parties
      /\ slot' = slot + 1 /\ UNCHANGED <<flag, keepalive, call, wants, on>>
      /\ slot + 1 \in Transports /\ flag[slot + 1] /\ ~flag[slot]
  BY Distinct DEF CellInv, TypeInv, TypeOK, Dialed, DialInv, Install, app
<1>2. mode[Monitor] = "write"
  BY <1>1 DEF CellInv, LockInv, Placed
<1>3. \A u \in Users : u # Monitor
  BY Distinct DEF Users
<1>4. \A u \in Users : Uses(u) = 0
  BY <1>1, <1>2, <1>3, WriterAlone
<1>5. Cell!Unused
  BY <1>4 DEF Cell!Unused, Using
<1>6. \A u \in Users : Uses(u)' = Uses(u)
  <2>1. keepalive # "pinging" /\ \A c \in Callers : call[c] # "inside"
    BY <1>4, UsesIs, Distinct DEF Users
  <2>2. QED
    BY <1>1, <2>1 DEF Uses, Users
<1>7. Using' = Using
  BY <1>6 DEF Using
<1>8. Closers' = Closers
  BY <1>1 DEF Closers
<1>9. slot \notin Usable
  BY <1>1 DEF Usable
<1>10. Usable' = Usable \cup {slot + 1}
  <2>1. slot \in Nat /\ 1..(slot + 1) = 1..slot \cup {slot + 1}
    BY <1>1, ClientOK DEF TransportsOK, Transports
  <2>2. QED
    BY <1>1, <2>1 DEF Usable
<1>11. QED
  BY <1>1, <1>5, <1>7, <1>8, <1>9, <1>10 DEF Cell!Replace

\* A ping begins beside other users and ends; the other steps of the keepalive
\* task use nothing.
LEMMA KeepaliveUses ==
    ASSUME CellInv, KeepaliveStep
    PROVE  Cell!Begin(Keeper) \/ Cell!End(Keeper) \/ UNCHANGED Cell!vars
<1>1. /\ TransportsOK /\ Keeper \in Parties /\ Keeper \in Users
      /\ UNCHANGED <<slot, flag, call, wants, on>>
  BY Distinct DEF CellInv, TypeInv, TypeOK, KeepaliveStep, KeepaliveTick, KeepaliveCheck,
         PingReturns, KeepaliveAborted, transports, app, Users
<1>2. Closers' = Closers /\ Usable' = Usable
  BY <1>1 DEF Closers, Usable
<1>3. \A u \in Users : u # Keeper => Uses(u)' = Uses(u)
  BY <1>1 DEF Uses, Users
<1>4. CASE keepalive = "pinging" /\ keepalive' # "pinging"
  <2>1. Using[Keeper] # 0
    BY <1>1, <1>4, UsesIs DEF Using
  <2>2. Using' = [Using EXCEPT ![Keeper] = 0]
    <3>1. Uses(Keeper)' = 0
      BY <1>4 DEF Uses
    <3>2. QED
      BY <1>3, <3>1 DEF Using
  <2>3. Keeper \notin Closers
    BY Distinct DEF Closers
  <2>4. QED
    BY <1>1, <1>2, <2>1, <2>2, <2>3 DEF Cell!End
<1>5. CASE keepalive # "pinging" /\ keepalive' = "pinging"
  <2>1. Granted(Keeper)
    BY <1>5 DEF KeepaliveStep, KeepaliveTick, KeepaliveCheck, PingReturns, KeepaliveAborted
  <2>2. Closers = {}
    BY <1>1, <2>1, NoCloserBeside, ClosersAre, Distinct
  <2>3. Using[Keeper] = 0
    BY <1>1, <1>5, UsesIs DEF Using
  <2>4. Using' = [Using EXCEPT ![Keeper] = slot]
    <3>1. Uses(Keeper)' = slot
      BY <1>1, <1>5 DEF Uses
    <3>2. QED
      BY <1>3, <3>1 DEF Using
  <2>5. QED
    BY <1>1, <1>2, <2>2, <2>3, <2>4 DEF Cell!Begin
<1>6. CASE keepalive = "pinging" <=> keepalive' = "pinging"
  <2>1. Uses(Keeper)' = Uses(Keeper)
    BY <1>1, <1>6 DEF Uses
  <2>2. QED
    BY <1>1, <1>2, <1>3, <2>1, CellStutters
<1>7. QED
  BY <1>4, <1>5, <1>6

\* Every step of the client is a step of the cell, or none of its.
LEMMA StepIsPromised == CellInv /\ [Next]_vars => [Cell!Next]_(Cell!vars)
<1> SUFFICES ASSUME CellInv, [Next]_vars PROVE Cell!Next \/ UNCHANGED Cell!vars
  OBVIOUS
<1>1. ASSUME NEW c \in Callers, Submit(c) \/ Subscribe(c) \/ Disconnect(c)
      PROVE  UNCHANGED Cell!vars
  BY <1>1, CallStutters
<1>2. ASSUME NEW c \in Callers, CallStep(c) PROVE Cell!Next
  <2>1. c \in Users
    BY DEF Users
  <2>2. CASE Enter(c)
    BY <2>1, <2>2, EnterBegins DEF Cell!Next
  <2>3. CASE SubmitReturns(c) \/ SubscribeReturns(c)
    <3>1. /\ Ends(c) /\ wants[c] # "disconnect"
          /\ UNCHANGED <<slot, flag, keepalive, wants, on>>
      BY <2>3, Requests DEF SubmitReturns, SubscribeReturns, transports
    <3>2. Using[c] # 0 /\ Using' = [Using EXCEPT ![c] = 0] /\ c \notin Closers /\ Closers' = Closers
      BY <3>1, ReturnEnds
    <3>3. Usable' = Usable
      BY <3>1 DEF Usable
    <3>4. Cell!End(c)
      BY <3>1, <3>2, <3>3 DEF Cell!End
    <3>5. QED
      BY <2>1, <3>4 DEF Cell!Next
  <2>4. CASE DisconnectReturns(c)
    BY <2>1, <2>4, DisconnectEnds DEF Cell!Next
  <2>5. QED
    BY <1>2, <2>2, <2>3, <2>4 DEF CallStep
<1>3. CASE Install
  BY <1>3, InstallReplaces DEF Cell!Next
<1>4. CASE KeepaliveStep
  BY <1>4, KeepaliveUses DEF Cell!Next, Users
<1>5. ASSUME \/ MonitorTick \/ MonitorCheck \/ DialFails \/ DialSucceeds
             \/ Snapshot \/ Resubscribe \/ ResubscribeDone
             \/ LinkDrops \/ UNCHANGED vars
      PROVE  UNCHANGED Cell!vars
  <2>1. UNCHANGED <<slot, keepalive, call, wants, on>>
    BY <1>5 DEF MonitorTick, MonitorCheck, DialFails, DialSucceeds, Snapshot, Resubscribe,
           ResubscribeDone, LinkDrops, vars, transports, app
  <2>2. \A t \in 1..slot : flag'[t] = flag[t]
    <3>1. flag' = flag \/ flag' = [flag EXCEPT ![slot + 1] = TRUE]
      BY <1>5 DEF MonitorTick, MonitorCheck, DialFails, DialSucceeds, Snapshot, Resubscribe,
             ResubscribeDone, LinkDrops, vars, transports
    <3>2. slot \in Nat /\ slot + 1 \notin 1..slot
      BY ClientOK DEF CellInv, TypeInv, TypeOK, TransportsOK, Transports
    <3>3. QED
      BY <3>1, <3>2, ClientOK DEF CellInv, TypeInv, TypeOK, TransportsOK, Transports
  <2>3. \A u \in Users : Uses(u)' = Uses(u)
    BY <2>1 DEF Uses
  <2>4. Closers' = Closers
    BY <2>1 DEF Closers
  <2>5. QED
    BY <2>1, <2>2, <2>3, <2>4, CellStutters
<1>6. QED
  BY <1>1, <1>2, <1>3, <1>4, <1>5 DEF Next, MonitorStep

\* The slot with its lock, the monitor and the keepalive task implement the cell,
\* for every number of callers and of disconnects.
THEOREM ImplementsCell == Spec => SlotKeepsPromise
<1>1. Init => Cell!Init
  <2> SUFFICES ASSUME Init PROVE Cell!Init
    OBVIOUS
  <2>1. Usable = {1}
    <3>1. slot = 1 /\ flag[1] = TRUE
      BY Numbers DEF Init
    <3>2. 1..1 = {1}
      OBVIOUS
    <3>3. QED
      BY <3>1, <3>2 DEF Usable
  <2>2. Using = [u \in Users |-> 0]
    BY DEF Init, Using, Uses, Users
  <2>3. Closers = {}
    BY DEF Init, Closers
  <2>4. QED
    BY <2>1, <2>2, <2>3 DEF Init, Cell!Init
<1>2. QED
  BY <1>1, StepIsPromised, CellInvHolds, PTL DEF Spec, SlotKeepsPromise, Cell!Spec

-----------------------------------------------------------------------------
(* The bound on disconnects is none on reconnects.                          *)

\* The calls of disconnect() under way.
Leaving == {c \in Callers : call[c] # "idle" /\ wants[c] = "disconnect"}

\* Each replacement, a transport that is closed now, and each disconnect() under
\* way are accounted for by a disconnect() of their own.
Accounted ==
    /\ IsFiniteSet(Leaving)
    /\ (slot - 1) + (IF flag[slot] THEN 0 ELSE 1) + Cardinality(Leaving) <= asked

\* A new client has asked for none.
LEMMA AccountedInit == Init => Accounted
<1> SUFFICES ASSUME Init PROVE Accounted
  OBVIOUS
<1>1. Leaving = {}
  BY DEF Init, Leaving
<1>2. slot = 1 /\ flag[1] /\ asked = 0
  BY Numbers DEF Init
<1>3. QED
  BY <1>1, <1>2, FS_EmptySet DEF Accounted

\* A disconnect() is one more when it is called, one less when it returns and has
\* closed a transport, which a replacement takes the place of.
LEMMA AccountedStep == TypeInv /\ DialInv /\ Accounted /\ [Next]_vars => Accounted'
<1> SUFFICES ASSUME TypeInv, DialInv, Accounted, [Next]_vars PROVE Accounted'
  OBVIOUS
<1>0. /\ TransportsOK /\ AppOK /\ Dialed /\ slot \in Nat /\ asked \in Nat
      /\ slot + 1 \in Nat /\ slot + 1 # slot
  BY ClientOK DEF TypeInv, TypeOK, TransportsOK, AppOK, Transports
<1>1. IsFiniteSet(Leaving) /\ Cardinality(Leaving) \in Nat
  BY FS_CardinalityType DEF Accounted
<1>2. ASSUME NEW c \in Callers, Disconnect(c) PROVE Accounted'
  <2>1. Leaving' = Leaving \cup {c} /\ c \notin Leaving
    BY <1>0, <1>2 DEF Leaving, Disconnect, AppOK
  <2>2. IsFiniteSet(Leaving') /\ Cardinality(Leaving') = Cardinality(Leaving) + 1
    BY <1>1, <2>1, FS_AddElement
  <2>3. asked' = asked + 1 /\ UNCHANGED <<slot, flag>>
    BY <1>2 DEF Disconnect, transports
  <2>4. QED
    BY <1>0, <1>1, <2>2, <2>3 DEF Accounted
<1>3. ASSUME NEW c \in Callers, DisconnectReturns(c) PROVE Accounted'
  <2>1. Leaving' = Leaving \ {c} /\ c \in Leaving
    BY <1>0, <1>3 DEF Leaving, DisconnectReturns, Ends, AppOK
  <2>2. IsFiniteSet(Leaving') /\ Cardinality(Leaving') = Cardinality(Leaving) - 1
    BY <1>1, <2>1, FS_RemoveElement
  <2>3. asked' = asked /\ slot' = slot
    BY <1>3 DEF DisconnectReturns
  <2>4. QED
    BY <1>0, <1>1, <2>2, <2>3 DEF Accounted
<1>4. CASE Install
  <2>1. Leaving' = Leaving /\ asked' = asked /\ slot' = slot + 1 /\ flag' = flag
    BY <1>4 DEF Leaving, Install, app
  <2>2. ~flag[slot] /\ flag[slot + 1]
    BY <1>0, <1>4 DEF Install, Dialed, DialInv
  <2>3. QED
    BY <1>0, <1>1, <2>1, <2>2 DEF Accounted
<1>5. ASSUME Leaving' = Leaving, UNCHANGED <<asked, slot>>, flag'[slot] = flag[slot]
      PROVE  Accounted'
  BY <1>5 DEF Accounted
<1>6. ASSUME NEW c \in Callers,
             \/ Submit(c) \/ Subscribe(c) \/ Enter(c) \/ SubmitReturns(c) \/ SubscribeReturns(c)
      PROVE  Accounted'
  <2>1. UNCHANGED <<asked, slot, flag>>
    BY <1>6 DEF Submit, Subscribe, Enter, SubmitReturns, SubscribeReturns, transports
  <2>2. Leaving' = Leaving
    <3>1. CASE Submit(c) \/ Subscribe(c)
      BY <1>0, <3>1, Requests DEF Leaving, Submit, Subscribe, AppOK
    <3>2. CASE Enter(c)
      BY <1>0, <3>2 DEF Leaving, Enter, AppOK
    <3>3. CASE SubmitReturns(c) \/ SubscribeReturns(c)
      BY <1>0, <3>3, Requests DEF Leaving, SubmitReturns, SubscribeReturns, Ends, AppOK
    <3>4. QED
      BY <1>6, <3>1, <3>2, <3>3
  <2>3. QED
    BY <1>5, <2>1, <2>2
<1>7. ASSUME \/ MonitorTick \/ MonitorCheck \/ DialFails \/ DialSucceeds
             \/ Snapshot \/ Resubscribe \/ ResubscribeDone
             \/ KeepaliveStep \/ LinkDrops \/ UNCHANGED vars
      PROVE  Accounted'
  <2>1. UNCHANGED <<call, wants, asked, slot>>
    BY <1>7 DEF MonitorTick, MonitorCheck, DialFails, DialSucceeds, Snapshot, Resubscribe,
           ResubscribeDone, KeepaliveStep, KeepaliveTick, KeepaliveCheck, PingReturns,
           KeepaliveAborted, LinkDrops, vars, transports, app
  <2>2. flag' = flag \/ flag' = [flag EXCEPT ![slot + 1] = TRUE]
    BY <1>7 DEF MonitorTick, MonitorCheck, DialFails, DialSucceeds, Snapshot, Resubscribe,
           ResubscribeDone, KeepaliveStep, KeepaliveTick, KeepaliveCheck, PingReturns,
           KeepaliveAborted, LinkDrops, vars, transports
  <2>3. flag'[slot] = flag[slot]
    BY <1>0, <2>2 DEF TransportsOK
  <2>4. Leaving' = Leaving
    BY <2>1 DEF Leaving
  <2>5. QED
    BY <1>5, <2>1, <2>3, <2>4
<1>8. QED
  BY <1>2, <1>3, <1>4, <1>6, <1>7 DEF Next, MonitorStep, CallStep

\* When the monitor dials there is a number left for the new transport: the bound
\* on the calls of disconnect() keeps no reconnect from happening.
THEOREM AlwaysRoomToReconnect ==
    Spec => [](monitor \in {"dialing", "installing"} => slot + 1 \in Transports)
<1>1. TypeInv /\ DialInv /\ Accounted =>
        (monitor \in {"dialing", "installing"} => slot + 1 \in Transports)
  <2> SUFFICES ASSUME TypeInv, DialInv, Accounted, monitor \in {"dialing", "installing"}
               PROVE  slot + 1 \in Transports
    OBVIOUS
  <2>1. ~flag[slot] /\ Cardinality(Leaving) \in Nat
    BY FS_CardinalityType DEF DialInv, Accounted
  <2>2. slot \in 1..(MaxDisconnects + 1) /\ asked \in 0..MaxDisconnects /\ MaxDisconnects \in Nat
    BY ClientOK DEF TypeInv, TypeOK, TransportsOK, AppOK, Transports
  <2>3. slot <= asked
    BY <2>1, <2>2 DEF Accounted
  <2>4. QED
    BY <2>2, <2>3 DEF Transports
<1>2. Spec => [](TypeInv /\ DialInv /\ Accounted)
  BY TypeInvInit, DialInvInit, AccountedInit, TypeInvStep, DialInvStep, AccountedStep, PTL DEF Spec
<1>3. QED
  BY <1>1, <1>2, PTL
=============================================================================
