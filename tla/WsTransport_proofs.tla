-------------------------- MODULE WsTransport_proofs --------------------------
(* Proofs about WsTransport, for every value of its constants.              *)
EXTENDS WsTransport, TLAPS

\* Every party that takes the lock on message_rx is a consumer.
LEMMA Roles ==
    /\ Connector \in Consumers
    /\ \A r \in Submits : r \in Consumers
    /\ \A s \in Subs : s \in Consumers
BY DEF Consumers

\* The session numbers are the non-zero members of 0..MaxSessions.
LEMMA SessionRange ==
    /\ \A g \in 0..MaxSessions : g # 0 => g \in Sessions
    /\ \A g \in Sessions : g \in 0..MaxSessions /\ g # 0
BY DEF Sessions

\* What the worker builds is a message.
LEMMA Messages ==
    ASSUME NEW g \in Sessions
    PROVE  /\ [kind |-> "connected", via |-> g] \in Message
           /\ [kind |-> "error", via |-> g] \in Message
           /\ [kind |-> "heartbeat", via |-> g] \in Message
           /\ \A r \in Submits, x \in AllSays, n \in Nat :
                [kind |-> "reply", via |-> g, to |-> r, says |-> x, nth |-> n] \in Message
           /\ \A st \in Streams, n \in 1..MaxEvents :
                [kind |-> "event", via |-> g, to |-> st, id |-> n] \in Message
BY DEF Message, Control, Reply, Event

\* A message's kind tells what record it is.
LEMMA Kinds ==
    ASSUME NEW m \in Message
    PROVE  /\ m.kind = "reply" => m \in Reply
           /\ m.kind = "event" => m \in Event
           /\ m.via \in Sessions
BY DEF Message, Control, Reply, Event

\* The status of a submit call stays one of the five values.
LEMMA StatusTyped ==
    ASSUME NEW old \in Status, NEW x
    PROVE  StatusAfter(old, x) \in Status
BY DEF Status, StatusAfter

\* The sink and the channel are in place whenever a call can use them.
Wired ==
    /\ connected => sink # 0 /\ chan # 0
    /\ conn # "idle" => sink # 0
    /\ connected /\ conn = "idle" => chan = sink
    /\ conn \in {"greeting", "awaiting"} => chan = sink

\* A task that forwards has an event to forward.
Carries == \A s \in Subs : task[s] = "forwarding" => hand[s] \in Event

TypeInv == TypeOK /\ Wired /\ Carries

\* The inductive invariant holds in a new transport.
LEMMA TypeInvInit == Init => TypeInv
<1> SUFFICES ASSUME Init PROVE TypeInv
  OBVIOUS
<1>1. ClientOK
  <2>1. sink \in 0..MaxSessions /\ chan \in 0..MaxSessions
    BY ConstantsOK DEF Init
  <2>2. queue \in Seq(Message) /\ Len(queue) <= QueueCap /\ lock \in Seq(Consumers)
    BY ConstantsOK DEF Init
  <2>3. QED
    BY <2>1, <2>2 DEF Init, ClientOK
<1>2. CallsOK
  BY DEF Init, CallsOK, CallState, Status
<1>3. TasksOK
  BY ConstantsOK DEF Init, TasksOK, TaskState
<1>4. WorkerOK
  BY ConstantsOK DEF Init, WorkerOK
<1>5. Wired /\ Carries
  BY DEF Init, Wired, Carries
<1>6. QED
  BY <1>1, <1>2, <1>3, <1>4, <1>5 DEF TypeInv, TypeOK

\* What a consumer that takes a message leaves behind.
LEMMA Takeable ==
    ASSUME ClientOK, queue # <<>>
    PROVE  /\ Head(queue) \in Message
           /\ Tail(queue) \in Seq(Message) /\ Len(Tail(queue)) <= QueueCap
BY ConstantsOK DEF ClientOK

\* A delivery leaves every wire a sequence of messages.
LEMMA Deliveries ==
    ASSUME WorkerOK, NEW g \in Sessions, NEW m \in Message, Deliver(g, m)
    PROVE  wire' \in [Sessions -> Seq(Message)]
BY DEF WorkerOK, Deliver

\* No step of the transport, its tasks or the worker breaks the invariant.
LEMMA TypeInvStep == TypeInv /\ [Next]_vars => TypeInv'
<1> SUFFICES ASSUME TypeInv, [Next]_vars PROVE TypeInv'
  OBVIOUS
<1>0. ClientOK /\ CallsOK /\ TasksOK /\ WorkerOK /\ Wired /\ Carries
  BY DEF TypeInv, TypeOK
<1> USE <1>0, ConstantsOK
<1>1. ASSUME ConnectDial PROVE TypeInv'
  <2>1. ClientOK'
    BY <1>1, Roles, SessionRange DEF ConnectDial, Enqueue, ClientOK
  <2>2. CallsOK'
    BY <1>1 DEF ConnectDial, CallsOK, calls
  <2>3. TasksOK'
    BY <1>1 DEF ConnectDial, TasksOK, tasks
  <2>4. WorkerOK'
    BY <1>1 DEF ConnectDial, WorkerOK
  <2>5. Wired'
    BY <1>1, SessionRange DEF ConnectDial, Wired
  <2>6. Carries'
    BY <1>1 DEF ConnectDial, Carries, tasks
  <2>7. QED
    BY <2>1, <2>2, <2>3, <2>4, <2>5, <2>6 DEF TypeInv, TypeOK
<1>2. ASSUME ConnectInstall PROVE TypeInv'
  <2>1. ClientOK'
    BY <1>2, SessionRange DEF ConnectInstall, Holds, FreshChannel, Release, ClientOK, Wired
  <2>2. CallsOK'
    BY <1>2 DEF ConnectInstall, CallsOK, calls
  <2>3. TasksOK'
    BY <1>2 DEF ConnectInstall, TasksOK, tasks
  <2>4. WorkerOK'
    BY <1>2 DEF ConnectInstall, WorkerOK
  <2>5. Wired'
    BY <1>2 DEF ConnectInstall, Wired
  <2>6. Carries'
    BY <1>2 DEF ConnectInstall, Carries, tasks
  <2>7. QED
    BY <2>1, <2>2, <2>3, <2>4, <2>5, <2>6 DEF TypeInv, TypeOK
<1>3. ASSUME ConnectAwait PROVE TypeInv'
  <2>1. ClientOK'
    BY <1>3, Roles DEF ConnectAwait, Enqueue, ClientOK
  <2>2. CallsOK'
    BY <1>3 DEF ConnectAwait, CallsOK, calls
  <2>3. TasksOK'
    BY <1>3 DEF ConnectAwait, TasksOK, tasks
  <2>4. WorkerOK'
    BY <1>3 DEF ConnectAwait, WorkerOK, worker
  <2>5. Wired'
    BY <1>3 DEF ConnectAwait, Wired
  <2>6. Carries'
    BY <1>3 DEF ConnectAwait, Carries, tasks
  <2>7. QED
    BY <2>1, <2>2, <2>3, <2>4, <2>5, <2>6 DEF TypeInv, TypeOK
<1>4. ASSUME ConnectAnswer PROVE TypeInv'
  <2>1. ClientOK'
    BY <1>4 DEF ConnectAnswer, Holds, Release, ClientOK
  <2>2. CallsOK'
    BY <1>4 DEF ConnectAnswer, CallsOK, calls
  <2>3. TasksOK'
    BY <1>4 DEF ConnectAnswer, TasksOK, tasks
  <2>4. WorkerOK'
    BY <1>4 DEF ConnectAnswer, WorkerOK, worker
  <2>5. Wired'
    BY <1>4 DEF ConnectAnswer, Wired
  <2>6. Carries'
    BY <1>4 DEF ConnectAnswer, Carries, tasks
  <2>7. QED
    BY <2>1, <2>2, <2>3, <2>4, <2>5, <2>6 DEF TypeInv, TypeOK
<1>5. ASSUME ConnectTimeout PROVE TypeInv'
  <2>1. ClientOK'
    BY <1>5 DEF ConnectTimeout, Holds, Release, ClientOK
  <2>2. CallsOK'
    BY <1>5 DEF ConnectTimeout, CallsOK, calls
  <2>3. TasksOK'
    BY <1>5 DEF ConnectTimeout, TasksOK, tasks
  <2>4. WorkerOK'
    BY <1>5 DEF ConnectTimeout, WorkerOK, worker
  <2>5. Wired'
    BY <1>5 DEF ConnectTimeout, Wired
  <2>6. Carries'
    BY <1>5 DEF ConnectTimeout, Carries, tasks
  <2>7. QED
    BY <2>1, <2>2, <2>3, <2>4, <2>5, <2>6 DEF TypeInv, TypeOK
<1>6. ASSUME Disconnect PROVE TypeInv'
  <2>1. ClientOK'
    <3>1. sink' \in 0..MaxSessions
      BY <1>6 DEF Disconnect
    <3>2. QED
      BY <1>6, <3>1 DEF Disconnect, ClientOK
  <2>2. CallsOK'
    BY <1>6 DEF Disconnect, CallsOK, calls
  <2>3. TasksOK'
    BY <1>6 DEF Disconnect, TasksOK, tasks
  <2>4. WorkerOK'
    BY <1>6 DEF Disconnect, WorkerOK
  <2>5. Wired'
    BY <1>6 DEF Disconnect, Exclusive, Wired
  <2>6. Carries'
    BY <1>6 DEF Disconnect, Carries, tasks
  <2>7. QED
    BY <2>1, <2>2, <2>3, <2>4, <2>5, <2>6 DEF TypeInv, TypeOK
<1>7. ASSUME Drop PROVE TypeInv'
  <2>1. ClientOK'
    BY <1>7 DEF Drop, ClientOK
  <2>2. CallsOK'
    BY <1>7 DEF Drop, CallsOK, calls
  <2>3. TasksOK'
    BY <1>7 DEF Drop, TasksOK, tasks
  <2>4. WorkerOK'
    BY <1>7 DEF Drop, WorkerOK, worker
  <2>5. Wired'
    BY <1>7 DEF Drop, Wired
  <2>6. Carries'
    BY <1>7 DEF Drop, Carries, tasks
  <2>7. QED
    BY <2>1, <2>2, <2>3, <2>4, <2>5, <2>6 DEF TypeInv, TypeOK
<1>8. ASSUME NEW g \in Sessions, ReceiveHeartbeat(g) PROVE TypeInv'
  <2>1. ClientOK'
    BY <1>8 DEF ReceiveHeartbeat, ClientOK, client
  <2>2. CallsOK'
    BY <1>8 DEF ReceiveHeartbeat, CallsOK, calls
  <2>3. TasksOK'
    BY <1>8 DEF ReceiveHeartbeat, TasksOK, tasks
  <2>4. WorkerOK'
    BY <1>8 DEF ReceiveHeartbeat, WorkerOK
  <2>5. Wired'
    BY <1>8 DEF ReceiveHeartbeat, Wired, client
  <2>6. Carries'
    BY <1>8 DEF ReceiveHeartbeat, Carries, tasks
  <2>7. QED
    BY <2>1, <2>2, <2>3, <2>4, <2>5, <2>6 DEF TypeInv, TypeOK
<1>9. ASSUME NEW g \in Sessions, ReceiveMessage(g) PROVE TypeInv'
  <2>1. ClientOK'
    <3>1. Head(wire[g]) \in Message
      BY <1>9 DEF ReceiveMessage, WorkerOK
    <3>2. queue' \in Seq(Message) /\ Len(queue') <= QueueCap
      BY <1>9, <3>1 DEF ReceiveMessage, Room, ClientOK
    <3>3. QED
      BY <1>9, <3>2 DEF ReceiveMessage, ClientOK
  <2>2. CallsOK'
    BY <1>9 DEF ReceiveMessage, CallsOK, calls
  <2>3. TasksOK'
    BY <1>9 DEF ReceiveMessage, TasksOK, tasks
  <2>4. WorkerOK'
    BY <1>9 DEF ReceiveMessage, WorkerOK
  <2>5. Wired'
    BY <1>9 DEF ReceiveMessage, Wired
  <2>6. Carries'
    BY <1>9 DEF ReceiveMessage, Carries, tasks
  <2>7. QED
    BY <2>1, <2>2, <2>3, <2>4, <2>5, <2>6 DEF TypeInv, TypeOK
<1>10. ASSUME NEW g \in Sessions, ReceiverDetached(g) PROVE TypeInv'
  <2>1. ClientOK'
    BY <1>10 DEF ReceiverDetached, ClientOK
  <2>2. CallsOK'
    BY <1>10 DEF ReceiverDetached, CallsOK, calls
  <2>3. TasksOK'
    BY <1>10 DEF ReceiverDetached, TasksOK, tasks
  <2>4. WorkerOK'
    BY <1>10 DEF ReceiverDetached, WorkerOK
  <2>5. Wired'
    BY <1>10 DEF ReceiverDetached, Wired
  <2>6. Carries'
    BY <1>10 DEF ReceiverDetached, Carries, tasks
  <2>7. QED
    BY <2>1, <2>2, <2>3, <2>4, <2>5, <2>6 DEF TypeInv, TypeOK
<1>11. ASSUME NEW g \in Sessions, ReceiverEnd(g) PROVE TypeInv'
  <2>1. ClientOK'
    BY <1>11 DEF ReceiverEnd, ClientOK
  <2>2. CallsOK'
    BY <1>11 DEF ReceiverEnd, CallsOK, calls
  <2>3. TasksOK'
    BY <1>11 DEF ReceiverEnd, TasksOK, tasks
  <2>4. WorkerOK'
    BY <1>11 DEF ReceiverEnd, WorkerOK, worker
  <2>5. Wired'
    BY <1>11 DEF ReceiverEnd, Wired
  <2>6. Carries'
    BY <1>11 DEF ReceiverEnd, Carries, tasks
  <2>7. QED
    BY <2>1, <2>2, <2>3, <2>4, <2>5, <2>6 DEF TypeInv, TypeOK
<1>12. ASSUME NEW g \in Sessions, WorkerGreets(g) PROVE TypeInv'
  <2>1. ClientOK'
    BY <1>12 DEF WorkerGreets, ClientOK, client
  <2>2. CallsOK'
    BY <1>12 DEF WorkerGreets, CallsOK, calls
  <2>3. TasksOK'
    BY <1>12 DEF WorkerGreets, TasksOK, tasks
  <2>4. WorkerOK'
    <3>1. wire' \in [Sessions -> Seq(Message)]
      BY <1>12, Messages, Deliveries DEF WorkerGreets
    <3>3. QED
      BY <1>12, <3>1 DEF WorkerGreets, WorkerOK
  <2>5. Wired'
    BY <1>12 DEF WorkerGreets, Wired, client
  <2>6. Carries'
    BY <1>12 DEF WorkerGreets, Carries, tasks
  <2>7. QED
    BY <2>1, <2>2, <2>3, <2>4, <2>5, <2>6 DEF TypeInv, TypeOK
<1>13. ASSUME NEW g \in Sessions, WorkerBeats(g) PROVE TypeInv'
  <2>1. ClientOK'
    BY <1>13 DEF WorkerBeats, ClientOK, client
  <2>2. CallsOK'
    BY <1>13 DEF WorkerBeats, CallsOK, calls
  <2>3. TasksOK'
    BY <1>13 DEF WorkerBeats, TasksOK, tasks
  <2>4. WorkerOK'
    <3>1. wire' \in [Sessions -> Seq(Message)]
      BY <1>13, Messages, Deliveries DEF WorkerBeats
    <3>2. QED
      BY <1>13, <3>1 DEF WorkerBeats, WorkerOK
  <2>5. Wired'
    BY <1>13 DEF WorkerBeats, Wired, client
  <2>6. Carries'
    BY <1>13 DEF WorkerBeats, Carries, tasks
  <2>7. QED
    BY <2>1, <2>2, <2>3, <2>4, <2>5, <2>6 DEF TypeInv, TypeOK
<1>14. ASSUME NEW g \in Sessions, LinkDrops(g) PROVE TypeInv'
  <2>1. ClientOK'
    BY <1>14 DEF LinkDrops, ClientOK, client
  <2>2. CallsOK'
    BY <1>14 DEF LinkDrops, CallsOK, calls
  <2>3. TasksOK'
    BY <1>14 DEF LinkDrops, TasksOK, tasks
  <2>4. WorkerOK'
    BY <1>14 DEF LinkDrops, WorkerOK
  <2>5. Wired'
    BY <1>14 DEF LinkDrops, Wired, client
  <2>6. Carries'
    BY <1>14 DEF LinkDrops, Carries, tasks
  <2>7. QED
    BY <2>1, <2>2, <2>3, <2>4, <2>5, <2>6 DEF TypeInv, TypeOK
<1>15. ASSUME NEW r \in Submits, SubmitRefused(r) PROVE TypeInv'
  <2>1. ClientOK'
    BY <1>15 DEF SubmitRefused, ClientOK, client
  <2>2. CallsOK'
    BY <1>15 DEF SubmitRefused, CallsOK, CallState
  <2>3. TasksOK'
    BY <1>15 DEF SubmitRefused, TasksOK, tasks
  <2>4. WorkerOK'
    BY <1>15 DEF SubmitRefused, WorkerOK, worker
  <2>5. Wired'
    BY <1>15 DEF SubmitRefused, Wired, client
  <2>6. Carries'
    BY <1>15 DEF SubmitRefused, Carries, tasks
  <2>7. QED
    BY <2>1, <2>2, <2>3, <2>4, <2>5, <2>6 DEF TypeInv, TypeOK
<1>16. ASSUME NEW r \in Submits, SubmitSend(r) PROVE TypeInv'
  <2>1. ClientOK'
    BY <1>16 DEF SubmitSend, ClientOK, client
  <2>2. CallsOK'
    BY <1>16 DEF SubmitSend, CallsOK, CallState
  <2>3. TasksOK'
    BY <1>16 DEF SubmitSend, TasksOK, tasks
  <2>4. WorkerOK'
    <3>1. taken' \in [Submits -> 0..MaxSessions]
      <4>1. sink \in 0..MaxSessions /\ 0 \in 0..MaxSessions
        BY DEF ClientOK
      <4>2. taken \in [Submits -> 0..MaxSessions]
        BY DEF WorkerOK
      <4>3. QED
        BY <1>16, <4>1, <4>2 DEF SubmitSend
    <3>2. QED
      BY <1>16, <3>1 DEF SubmitSend, WorkerOK
  <2>5. Wired'
    BY <1>16 DEF SubmitSend, Wired, client
  <2>6. Carries'
    BY <1>16 DEF SubmitSend, Carries, tasks
  <2>7. QED
    BY <2>1, <2>2, <2>3, <2>4, <2>5, <2>6 DEF TypeInv, TypeOK
<1>17. ASSUME NEW r \in Submits, Deadline(r) PROVE TypeInv'
  <2>1. ClientOK'
    BY <1>17 DEF Deadline, ClientOK, client
  <2>2. CallsOK'
    BY <1>17 DEF Deadline, CallsOK
  <2>3. TasksOK'
    BY <1>17 DEF Deadline, TasksOK, tasks
  <2>4. WorkerOK'
    BY <1>17 DEF Deadline, WorkerOK, worker
  <2>5. Wired'
    BY <1>17 DEF Deadline, Wired, client
  <2>6. Carries'
    BY <1>17 DEF Deadline, Carries, tasks
  <2>7. QED
    BY <2>1, <2>2, <2>3, <2>4, <2>5, <2>6 DEF TypeInv, TypeOK
<1>18. ASSUME NEW r \in Submits, SubmitPoll(r) PROVE TypeInv'
  <2>1. ClientOK'
    BY <1>18, Roles DEF SubmitPoll, Enqueue, ClientOK
  <2>2. CallsOK'
    BY <1>18 DEF SubmitPoll, CallsOK, CallState
  <2>3. TasksOK'
    BY <1>18 DEF SubmitPoll, TasksOK, tasks
  <2>4. WorkerOK'
    BY <1>18 DEF SubmitPoll, WorkerOK, worker
  <2>5. Wired'
    BY <1>18 DEF SubmitPoll, Wired
  <2>6. Carries'
    BY <1>18 DEF SubmitPoll, Carries, tasks
  <2>7. QED
    BY <2>1, <2>2, <2>3, <2>4, <2>5, <2>6 DEF TypeInv, TypeOK
<1>19. ASSUME NEW r \in Submits, SubmitGiveUp(r) PROVE TypeInv'
  <2>1. ClientOK'
    BY <1>19 DEF SubmitGiveUp, ClientOK, client
  <2>2. CallsOK'
    BY <1>19 DEF SubmitGiveUp, CallsOK, CallState
  <2>3. TasksOK'
    BY <1>19 DEF SubmitGiveUp, TasksOK, tasks
  <2>4. WorkerOK'
    BY <1>19 DEF SubmitGiveUp, WorkerOK, worker
  <2>5. Wired'
    BY <1>19 DEF SubmitGiveUp, Wired, client
  <2>6. Carries'
    BY <1>19 DEF SubmitGiveUp, Carries, tasks
  <2>7. QED
    BY <2>1, <2>2, <2>3, <2>4, <2>5, <2>6 DEF TypeInv, TypeOK
<1>20. ASSUME NEW r \in Submits, SubmitRecv(r) PROVE TypeInv'
  <2>1. ClientOK'
    BY <1>20 DEF SubmitRecv, Holds, Release, ClientOK
  <2>2. CallsOK'
    BY <1>20, StatusTyped DEF SubmitRecv, CallsOK, CallState
  <2>3. TasksOK'
    BY <1>20 DEF SubmitRecv, TasksOK, tasks
  <2>4. WorkerOK'
    BY <1>20 DEF SubmitRecv, WorkerOK, worker
  <2>5. Wired'
    BY <1>20 DEF SubmitRecv, Wired
  <2>6. Carries'
    BY <1>20 DEF SubmitRecv, Carries, tasks
  <2>7. QED
    BY <2>1, <2>2, <2>3, <2>4, <2>5, <2>6 DEF TypeInv, TypeOK
<1>21. ASSUME NEW r \in Submits, SubmitRecvTimeout(r) PROVE TypeInv'
  <2>1. ClientOK'
    BY <1>21 DEF SubmitRecvTimeout, Holds, Release, ClientOK
  <2>2. CallsOK'
    BY <1>21 DEF SubmitRecvTimeout, CallsOK, CallState
  <2>3. TasksOK'
    BY <1>21 DEF SubmitRecvTimeout, TasksOK, tasks
  <2>4. WorkerOK'
    BY <1>21 DEF SubmitRecvTimeout, WorkerOK, worker
  <2>5. Wired'
    BY <1>21 DEF SubmitRecvTimeout, Wired
  <2>6. Carries'
    BY <1>21 DEF SubmitRecvTimeout, Carries, tasks
  <2>7. QED
    BY <2>1, <2>2, <2>3, <2>4, <2>5, <2>6 DEF TypeInv, TypeOK
<1>22. ASSUME NEW r \in Submits, WorkerReplies(r) PROVE TypeInv'
  <2>1. ClientOK'
    BY <1>22 DEF WorkerReplies, ClientOK, client
  <2>2. CallsOK'
    BY <1>22 DEF WorkerReplies, CallsOK, calls
  <2>3. TasksOK'
    BY <1>22 DEF WorkerReplies, TasksOK, tasks
  <2>4. WorkerOK'
    <3>1. taken[r] \in Sessions
      BY <1>22, SessionRange DEF WorkerReplies, WorkerOK
    <3>2. PICK what \in Says[r] \ Said(r) :
            /\ said' = [said EXCEPT ![r] = Append(@, what)]
            /\ Deliver(taken[r], [kind |-> "reply", via |-> taken[r], to |-> r, says |-> what,
                                  nth |-> Len(said[r]) + 1])
      BY <1>22 DEF WorkerReplies
    <3>3. what \in AllSays /\ said[r] \in Seq(AllSays) /\ Len(said[r]) + 1 \in Nat
      BY DEF WorkerOK
    <3>4. wire' \in [Sessions -> Seq(Message)]
      BY <3>1, <3>2, <3>3, Messages, Deliveries
    <3>5. said' \in [Submits -> Seq(AllSays)]
      BY <3>2, <3>3 DEF WorkerOK
    <3>6. QED
      BY <1>22, <3>4, <3>5 DEF WorkerReplies, WorkerOK
  <2>5. Wired'
    BY <1>22 DEF WorkerReplies, Wired, client
  <2>6. Carries'
    BY <1>22 DEF WorkerReplies, Carries, tasks
  <2>7. QED
    BY <2>1, <2>2, <2>3, <2>4, <2>5, <2>6 DEF TypeInv, TypeOK
<1>23. ASSUME NEW s \in Subs, SubscribeRefused(s) PROVE TypeInv'
  <2>1. ClientOK'
    BY <1>23 DEF SubscribeRefused, ClientOK, client
  <2>2. CallsOK'
    BY <1>23 DEF SubscribeRefused, CallsOK, calls
  <2>3. TasksOK'
    BY <1>23 DEF SubscribeRefused, TasksOK, TaskState
  <2>4. WorkerOK'
    BY <1>23 DEF SubscribeRefused, WorkerOK, worker
  <2>5. Wired'
    BY <1>23 DEF SubscribeRefused, Wired, client
  <2>6. Carries'
    BY <1>23 DEF SubscribeRefused, Carries
  <2>7. QED
    BY <2>1, <2>2, <2>3, <2>4, <2>5, <2>6 DEF TypeInv, TypeOK
<1>24. ASSUME NEW s \in Subs, Subscribe(s) PROVE TypeInv'
  <2>1. ClientOK'
    BY <1>24 DEF Subscribe, ClientOK, client
  <2>2. CallsOK'
    BY <1>24 DEF Subscribe, CallsOK, calls
  <2>3. TasksOK'
    BY <1>24 DEF Subscribe, TasksOK, TaskState
  <2>4. WorkerOK'
    <3>1. sink \in Sessions /\ StreamOf[s] \in Streams
      BY <1>24, SessionRange DEF Subscribe, Wired, ClientOK
    <3>2. streaming' \subseteq Sessions \X Streams
      BY <1>24, <3>1 DEF Subscribe, WorkerOK
    <3>3. QED
      BY <1>24, <3>2 DEF Subscribe, WorkerOK
  <2>5. Wired'
    BY <1>24 DEF Subscribe, Wired, client
  <2>6. Carries'
    BY <1>24 DEF Subscribe, Carries
  <2>7. QED
    BY <2>1, <2>2, <2>3, <2>4, <2>5, <2>6 DEF TypeInv, TypeOK
<1>25. ASSUME NEW s \in Subs, TaskPoll(s) PROVE TypeInv'
  <2>1. ClientOK'
    BY <1>25, Roles DEF TaskPoll, Enqueue, ClientOK
  <2>2. CallsOK'
    BY <1>25 DEF TaskPoll, CallsOK, calls
  <2>3. TasksOK'
    BY <1>25 DEF TaskPoll, TasksOK, TaskState
  <2>4. WorkerOK'
    BY <1>25 DEF TaskPoll, WorkerOK, worker
  <2>5. Wired'
    BY <1>25 DEF TaskPoll, Wired
  <2>6. Carries'
    BY <1>25 DEF TaskPoll, Carries
  <2>7. QED
    BY <2>1, <2>2, <2>3, <2>4, <2>5, <2>6 DEF TypeInv, TypeOK
<1>26. ASSUME NEW s \in Subs, TaskRecv(s) PROVE TypeInv'
  <2>1. ClientOK'
    BY <1>26 DEF TaskRecv, Holds, Release, ClientOK
  <2>2. CallsOK'
    BY <1>26 DEF TaskRecv, CallsOK, calls
  <2>3. TasksOK'
    <3>1. OwnEvent(Head(queue), s) => Head(queue) \in Event
      BY <1>26, Kinds, Takeable DEF TaskRecv, OwnEvent
    <3>2. hand' \in [Subs -> Event \cup {NoEvent}]
      BY <1>26, <3>1 DEF TaskRecv, TasksOK
    <3>3. task' \in [Subs -> TaskState]
      BY <1>26 DEF TaskRecv, TasksOK, TaskState
    <3>4. QED
      BY <1>26, <3>2, <3>3 DEF TaskRecv, TasksOK
  <2>4. WorkerOK'
    BY <1>26 DEF TaskRecv, WorkerOK, worker
  <2>5. Wired'
    BY <1>26 DEF TaskRecv, Wired
  <2>6. Carries'
    <3>1. OwnEvent(Head(queue), s) => Head(queue) \in Event
      BY <1>26, Kinds, Takeable DEF TaskRecv, OwnEvent
    <3>2. QED
      BY <1>26, <3>1 DEF TaskRecv, TasksOK, Carries
  <2>7. QED
    BY <2>1, <2>2, <2>3, <2>4, <2>5, <2>6 DEF TypeInv, TypeOK
<1>27. ASSUME NEW s \in Subs, TaskClosed(s) PROVE TypeInv'
  <2>1. ClientOK'
    BY <1>27 DEF TaskClosed, Holds, Release, ClientOK
  <2>2. CallsOK'
    BY <1>27 DEF TaskClosed, CallsOK, calls
  <2>3. TasksOK'
    BY <1>27 DEF TaskClosed, TasksOK, TaskState
  <2>4. WorkerOK'
    BY <1>27 DEF TaskClosed, WorkerOK, worker
  <2>5. Wired'
    BY <1>27 DEF TaskClosed, Wired
  <2>6. Carries'
    BY <1>27 DEF TaskClosed, Carries
  <2>7. QED
    BY <2>1, <2>2, <2>3, <2>4, <2>5, <2>6 DEF TypeInv, TypeOK
<1>28. ASSUME NEW s \in Subs, TaskForward(s) PROVE TypeInv'
  <2>1. ClientOK'
    BY <1>28 DEF TaskForward, ClientOK, client
  <2>2. CallsOK'
    BY <1>28 DEF TaskForward, CallsOK, calls
  <2>3. TasksOK'
    <3>1. hand[s] \in Event /\ given[s] \in Seq(Event)
      BY <1>28 DEF TaskForward, Carries, TasksOK
    <3>2. /\ Append(given[s], hand[s]) \in Seq(Event)
          /\ Len(Append(given[s], hand[s])) = Len(given[s]) + 1
      BY <3>1
    <3>3. given' \in [Subs -> Seq(Event)]
      BY <1>28, <3>2 DEF TaskForward, TasksOK
    <3>5. task' \in [Subs -> TaskState]
      BY <1>28 DEF TaskForward, TasksOK, TaskState
    <3>6. QED
      BY <1>28, <3>3, <3>5 DEF TaskForward, TasksOK
  <2>4. WorkerOK'
    BY <1>28 DEF TaskForward, WorkerOK, worker
  <2>5. Wired'
    BY <1>28 DEF TaskForward, Wired, client
  <2>6. Carries'
    BY <1>28 DEF TaskForward, Carries
  <2>7. QED
    BY <2>1, <2>2, <2>3, <2>4, <2>5, <2>6 DEF TypeInv, TypeOK
<1>29. ASSUME NEW s \in Subs, TaskAbandoned(s) PROVE TypeInv'
  <2>1. ClientOK'
    BY <1>29 DEF TaskAbandoned, ClientOK, client
  <2>2. CallsOK'
    BY <1>29 DEF TaskAbandoned, CallsOK, calls
  <2>3. TasksOK'
    BY <1>29 DEF TaskAbandoned, TasksOK, TaskState
  <2>4. WorkerOK'
    BY <1>29 DEF TaskAbandoned, WorkerOK, worker
  <2>5. Wired'
    BY <1>29 DEF TaskAbandoned, Wired, client
  <2>6. Carries'
    BY <1>29 DEF TaskAbandoned, Carries
  <2>7. QED
    BY <2>1, <2>2, <2>3, <2>4, <2>5, <2>6 DEF TypeInv, TypeOK
<1>30. ASSUME NEW s \in Subs, AppRead(s) PROVE TypeInv'
  <2>1. ClientOK'
    BY <1>30 DEF AppRead, ClientOK, client
  <2>2. CallsOK'
    BY <1>30 DEF AppRead, CallsOK, calls
  <2>3. TasksOK'
    BY <1>30 DEF AppRead, TasksOK
  <2>4. WorkerOK'
    BY <1>30 DEF AppRead, WorkerOK, worker
  <2>5. Wired'
    BY <1>30 DEF AppRead, Wired, client
  <2>6. Carries'
    BY <1>30 DEF AppRead, Carries
  <2>7. QED
    BY <2>1, <2>2, <2>3, <2>4, <2>5, <2>6 DEF TypeInv, TypeOK
<1>31. ASSUME NEW s \in Subs, AppDrop(s) PROVE TypeInv'
  <2>1. ClientOK'
    BY <1>31 DEF AppDrop, ClientOK, client
  <2>2. CallsOK'
    BY <1>31 DEF AppDrop, CallsOK, calls
  <2>3. TasksOK'
    BY <1>31 DEF AppDrop, TasksOK
  <2>4. WorkerOK'
    BY <1>31 DEF AppDrop, WorkerOK, worker
  <2>5. Wired'
    BY <1>31 DEF AppDrop, Wired, client
  <2>6. Carries'
    BY <1>31 DEF AppDrop, Carries
  <2>7. QED
    BY <2>1, <2>2, <2>3, <2>4, <2>5, <2>6 DEF TypeInv, TypeOK
<1>32. ASSUME WorkerStreams PROVE TypeInv'
  <2>1. ClientOK'
    BY <1>32 DEF WorkerStreams, ClientOK, client
  <2>2. CallsOK'
    BY <1>32 DEF WorkerStreams, CallsOK, calls
  <2>3. TasksOK'
    BY <1>32 DEF WorkerStreams, TasksOK, tasks
  <2>4. WorkerOK'
    <3>1. PICK x \in streaming :
            Deliver(x[1], [kind |-> "event", via |-> x[1], to |-> x[2], id |-> events + 1])
      BY <1>32 DEF WorkerStreams
    <3>2. x[1] \in Sessions /\ x[2] \in Streams
      BY DEF WorkerOK
    <3>3. events + 1 \in 1..MaxEvents /\ events' \in 0..MaxEvents
      BY <1>32 DEF WorkerStreams, WorkerOK
    <3>4. wire' \in [Sessions -> Seq(Message)]
      BY <3>1, <3>2, <3>3, Messages, Deliveries
    <3>5. QED
      BY <1>32, <3>4 DEF WorkerStreams, WorkerOK
  <2>5. Wired'
    BY <1>32 DEF WorkerStreams, Wired, client
  <2>6. Carries'
    BY <1>32 DEF WorkerStreams, Carries, tasks
  <2>7. QED
    BY <2>1, <2>2, <2>3, <2>4, <2>5, <2>6 DEF TypeInv, TypeOK
<1>33. CASE UNCHANGED vars
  BY <1>33 DEF vars, client, calls, tasks, worker, TypeInv, TypeOK, ClientOK, CallsOK,
      TasksOK, WorkerOK, Wired, Carries
<1>34. QED
  BY <1>1, <1>2, <1>3, <1>4, <1>5, <1>6, <1>7, <1>8, <1>9, <1>10, <1>11, <1>12, <1>13, <1>14,
      <1>15, <1>16, <1>17, <1>18, <1>19, <1>20, <1>21, <1>22, <1>23, <1>24, <1>25, <1>26,
      <1>27, <1>28, <1>29, <1>30, <1>31, <1>32, <1>33 DEF Next, ConnectStep, ReceiverStep,
      SubmitStep, TaskStep

\* The inductive invariant behind type correctness: types, a transport wired by
\* connect(), and an event in hand whenever a task forwards.
THEOREM Typing == Spec => []TypeInv
BY TypeInvInit, TypeInvStep, PTL DEF Spec

\* Every variable keeps its type, and the message channel and the channels of the
\* subscriptions never exceed their capacities, in every reachable state.
THEOREM TypeCorrect == Spec => []TypeOK
<1>1. TypeInv => TypeOK
  BY DEF TypeInv
<1>2. QED
  BY <1>1, Typing, PTL

\* A transport that says it is connected has its sink and its channel, of one
\* session between calls of connect().
THEOREM WiredWhenConnected == Spec => []ConnectedIsWired
<1>1. TypeInv => ConnectedIsWired
  BY DEF TypeInv, Wired, ConnectedIsWired
<1>2. QED
  BY <1>1, Typing, PTL

-----------------------------------------------------------------------------
(* The lock on message_rx.                                                  *)

\* Joining the lock's queue adds exactly the task that joined.
LEMMA LockGrows ==
    ASSUME ClientOK, NEW c \in Consumers, Enqueue(c), ~InLock(c),
           \A i, j \in 1..Len(lock) : lock[i] = lock[j] => i = j
    PROVE  /\ \A i, j \in 1..Len(lock') : lock'[i] = lock'[j] => i = j
           /\ \A d : InLock(d)' <=> InLock(d) \/ d = c
BY DEF Enqueue, InLock

\* Releasing the lock removes exactly the task that held it.
LEMMA LockShrinks ==
    ASSUME ClientOK, NEW c, Holds(c), Release,
           \A i, j \in 1..Len(lock) : lock[i] = lock[j] => i = j
    PROVE  /\ \A i, j \in 1..Len(lock') : lock'[i] = lock'[j] => i = j
           /\ \A d : InLock(d)' <=> InLock(d) /\ d # c
<1>1. lock \in Seq(Consumers) /\ lock # <<>> /\ lock[1] = c
  BY DEF ClientOK, Holds
<1>2. /\ Len(lock') = Len(lock) - 1
      /\ \A i \in 1..Len(lock') : lock'[i] = lock[i + 1]
  BY <1>1 DEF Release
<1>3. \A i, j \in 1..Len(lock') : lock'[i] = lock'[j] => i = j
  BY <1>2
<1>4. ASSUME NEW d, InLock(d)'
      PROVE  InLock(d) /\ d # c
  <2>1. PICK i \in 1..Len(lock') : lock'[i] = d
    BY <1>4 DEF InLock
  <2>2. i + 1 \in 1..Len(lock) /\ lock[i + 1] = d /\ 1 \in 1..Len(lock) /\ i + 1 # 1
    BY <2>1, <1>2
  <2>3. QED
    BY <2>2, <1>1 DEF InLock
<1>5. ASSUME NEW d, InLock(d), d # c
      PROVE  InLock(d)'
  <2>1. PICK i \in 1..Len(lock) : lock[i] = d
    BY <1>5 DEF InLock
  <2>2. i - 1 \in 1..Len(lock') /\ lock'[i - 1] = d
    BY <2>1, <1>1, <1>2, <1>5
  <2>3. QED
    BY <2>2 DEF InLock
<1>6. QED
  BY <1>3, <1>4, <1>5

\* No step lets a task keep the lock on message_rx away from its recv().
LEMMA LockStep == TypeInv /\ LockOnlyToReceive /\ [Next]_vars => LockOnlyToReceive'
<1> SUFFICES ASSUME TypeInv, LockOnlyToReceive, [Next]_vars PROVE LockOnlyToReceive'
  OBVIOUS
<1>0. ClientOK /\ CallsOK /\ TasksOK
  BY DEF TypeInv, TypeOK
<1> USE <1>0, ConstantsOK
<1>1. ASSUME ConnectDial PROVE LockOnlyToReceive'
  <2>1. Connector \in Consumers /\ ~InLock(Connector) /\ Enqueue(Connector)
    BY <1>1, Roles DEF ConnectDial, Exclusive, LockOnlyToReceive
  <2>2. /\ \A i, j \in 1..Len(lock') : lock'[i] = lock'[j] => i = j
        /\ \A d : InLock(d)' <=> InLock(d) \/ d = Connector
    BY <2>1, LockGrows DEF LockOnlyToReceive
  <2>3. QED
    BY <1>1, <2>2 DEF ConnectDial, LockOnlyToReceive, calls, tasks
<1>2. ASSUME ConnectInstall PROVE LockOnlyToReceive'
  <2>1. Holds(Connector) /\ Release
    BY <1>2 DEF ConnectInstall
  <2>2. /\ \A i, j \in 1..Len(lock') : lock'[i] = lock'[j] => i = j
        /\ \A d : InLock(d)' <=> InLock(d) /\ d # Connector
    BY <2>1, LockShrinks DEF LockOnlyToReceive
  <2>3. QED
    BY <1>2, <2>2 DEF ConnectInstall, LockOnlyToReceive, calls, tasks
<1>3. ASSUME ConnectAwait PROVE LockOnlyToReceive'
  <2>1. Connector \in Consumers /\ ~InLock(Connector) /\ Enqueue(Connector)
    BY <1>3, Roles DEF ConnectAwait, LockOnlyToReceive
  <2>2. /\ \A i, j \in 1..Len(lock') : lock'[i] = lock'[j] => i = j
        /\ \A d : InLock(d)' <=> InLock(d) \/ d = Connector
    BY <2>1, LockGrows DEF LockOnlyToReceive
  <2>3. QED
    BY <1>3, <2>2 DEF ConnectAwait, LockOnlyToReceive, calls, tasks
<1>4. ASSUME ConnectAnswer PROVE LockOnlyToReceive'
  <2>1. Holds(Connector) /\ Release
    BY <1>4 DEF ConnectAnswer
  <2>2. /\ \A i, j \in 1..Len(lock') : lock'[i] = lock'[j] => i = j
        /\ \A d : InLock(d)' <=> InLock(d) /\ d # Connector
    BY <2>1, LockShrinks DEF LockOnlyToReceive
  <2>3. QED
    BY <1>4, <2>2 DEF ConnectAnswer, LockOnlyToReceive, calls, tasks
<1>5. ASSUME ConnectTimeout PROVE LockOnlyToReceive'
  <2>1. Holds(Connector) /\ Release
    BY <1>5 DEF ConnectTimeout
  <2>2. /\ \A i, j \in 1..Len(lock') : lock'[i] = lock'[j] => i = j
        /\ \A d : InLock(d)' <=> InLock(d) /\ d # Connector
    BY <2>1, LockShrinks DEF LockOnlyToReceive
  <2>3. QED
    BY <1>5, <2>2 DEF ConnectTimeout, LockOnlyToReceive, calls, tasks
<1>6. ASSUME Disconnect PROVE LockOnlyToReceive'
  BY <1>6 DEF Disconnect, LockOnlyToReceive, InLock, calls, tasks
<1>7. ASSUME Drop PROVE LockOnlyToReceive'
  BY <1>7 DEF Drop, LockOnlyToReceive, InLock, calls, tasks
<1>8. ASSUME NEW g \in Sessions, ReceiveHeartbeat(g) PROVE LockOnlyToReceive'
  BY <1>8 DEF ReceiveHeartbeat, LockOnlyToReceive, InLock, client, calls, tasks
<1>9. ASSUME NEW g \in Sessions, ReceiveMessage(g) PROVE LockOnlyToReceive'
  BY <1>9 DEF ReceiveMessage, LockOnlyToReceive, InLock, calls, tasks
<1>10. ASSUME NEW g \in Sessions, ReceiverDetached(g) PROVE LockOnlyToReceive'
  BY <1>10 DEF ReceiverDetached, LockOnlyToReceive, InLock, calls, tasks
<1>11. ASSUME NEW g \in Sessions, ReceiverEnd(g) PROVE LockOnlyToReceive'
  BY <1>11 DEF ReceiverEnd, LockOnlyToReceive, InLock, calls, tasks
<1>12. ASSUME NEW g \in Sessions, WorkerGreets(g) PROVE LockOnlyToReceive'
  BY <1>12 DEF WorkerGreets, LockOnlyToReceive, InLock, client, calls, tasks
<1>13. ASSUME NEW g \in Sessions, WorkerBeats(g) PROVE LockOnlyToReceive'
  BY <1>13 DEF WorkerBeats, LockOnlyToReceive, InLock, client, calls, tasks
<1>14. ASSUME NEW g \in Sessions, LinkDrops(g) PROVE LockOnlyToReceive'
  BY <1>14 DEF LinkDrops, LockOnlyToReceive, InLock, client, calls, tasks
<1>15. ASSUME NEW r \in Submits, SubmitRefused(r) PROVE LockOnlyToReceive'
  BY <1>15 DEF SubmitRefused, LockOnlyToReceive, InLock, client, tasks
<1>16. ASSUME NEW r \in Submits, SubmitSend(r) PROVE LockOnlyToReceive'
  BY <1>16 DEF SubmitSend, LockOnlyToReceive, InLock, client, tasks, CallsOK
<1>17. ASSUME NEW r \in Submits, Deadline(r) PROVE LockOnlyToReceive'
  BY <1>17 DEF Deadline, LockOnlyToReceive, InLock, client, tasks
<1>18. ASSUME NEW r \in Submits, SubmitPoll(r) PROVE LockOnlyToReceive'
  <2>1. r \in Consumers /\ ~InLock(r) /\ Enqueue(r)
    BY <1>18, Roles DEF SubmitPoll, LockOnlyToReceive
  <2>2. /\ \A i, j \in 1..Len(lock') : lock'[i] = lock'[j] => i = j
        /\ \A d : InLock(d)' <=> InLock(d) \/ d = r
    BY <2>1, LockGrows DEF LockOnlyToReceive
  <2>3. QED
    BY <1>18, <2>2 DEF SubmitPoll, LockOnlyToReceive, CallsOK, tasks
<1>19. ASSUME NEW r \in Submits, SubmitGiveUp(r) PROVE LockOnlyToReceive'
  BY <1>19 DEF SubmitGiveUp, LockOnlyToReceive, InLock, client, tasks
<1>20. ASSUME NEW r \in Submits, SubmitRecv(r) PROVE LockOnlyToReceive'
  <2>1. Holds(r) /\ Release
    BY <1>20 DEF SubmitRecv
  <2>2. /\ \A i, j \in 1..Len(lock') : lock'[i] = lock'[j] => i = j
        /\ \A d : InLock(d)' <=> InLock(d) /\ d # r
    BY <2>1, LockShrinks DEF LockOnlyToReceive
  <2>3. QED
    BY <1>20, <2>2 DEF SubmitRecv, LockOnlyToReceive, CallsOK, tasks
<1>21. ASSUME NEW r \in Submits, SubmitRecvTimeout(r) PROVE LockOnlyToReceive'
  <2>1. Holds(r) /\ Release
    BY <1>21 DEF SubmitRecvTimeout
  <2>2. /\ \A i, j \in 1..Len(lock') : lock'[i] = lock'[j] => i = j
        /\ \A d : InLock(d)' <=> InLock(d) /\ d # r
    BY <2>1, LockShrinks DEF LockOnlyToReceive
  <2>3. QED
    BY <1>21, <2>2 DEF SubmitRecvTimeout, LockOnlyToReceive, CallsOK, tasks
<1>22. ASSUME NEW r \in Submits, WorkerReplies(r) PROVE LockOnlyToReceive'
  BY <1>22 DEF WorkerReplies, LockOnlyToReceive, InLock, client, calls, tasks
<1>23. ASSUME NEW s \in Subs, SubscribeRefused(s) PROVE LockOnlyToReceive'
  BY <1>23 DEF SubscribeRefused, LockOnlyToReceive, InLock, client, calls
<1>24. ASSUME NEW s \in Subs, Subscribe(s) PROVE LockOnlyToReceive'
  BY <1>24 DEF Subscribe, LockOnlyToReceive, InLock, client, calls
<1>25. ASSUME NEW s \in Subs, TaskPoll(s) PROVE LockOnlyToReceive'
  <2>1. s \in Consumers /\ ~InLock(s) /\ Enqueue(s)
    BY <1>25, Roles DEF TaskPoll, LockOnlyToReceive
  <2>2. /\ \A i, j \in 1..Len(lock') : lock'[i] = lock'[j] => i = j
        /\ \A d : InLock(d)' <=> InLock(d) \/ d = s
    BY <2>1, LockGrows DEF LockOnlyToReceive
  <2>3. QED
    BY <1>25, <2>2 DEF TaskPoll, LockOnlyToReceive, TasksOK, calls
<1>26. ASSUME NEW s \in Subs, TaskRecv(s) PROVE LockOnlyToReceive'
  <2>1. Holds(s) /\ Release
    BY <1>26 DEF TaskRecv
  <2>2. /\ \A i, j \in 1..Len(lock') : lock'[i] = lock'[j] => i = j
        /\ \A d : InLock(d)' <=> InLock(d) /\ d # s
    BY <2>1, LockShrinks DEF LockOnlyToReceive
  <2>3. QED
    BY <1>26, <2>2 DEF TaskRecv, LockOnlyToReceive, TasksOK, calls
<1>27. ASSUME NEW s \in Subs, TaskClosed(s) PROVE LockOnlyToReceive'
  <2>1. Holds(s) /\ Release
    BY <1>27 DEF TaskClosed
  <2>2. /\ \A i, j \in 1..Len(lock') : lock'[i] = lock'[j] => i = j
        /\ \A d : InLock(d)' <=> InLock(d) /\ d # s
    BY <2>1, LockShrinks DEF LockOnlyToReceive
  <2>3. QED
    BY <1>27, <2>2 DEF TaskClosed, LockOnlyToReceive, TasksOK, calls
<1>28. ASSUME NEW s \in Subs, TaskForward(s) PROVE LockOnlyToReceive'
  BY <1>28 DEF TaskForward, LockOnlyToReceive, InLock, client, calls
<1>29. ASSUME NEW s \in Subs, TaskAbandoned(s) PROVE LockOnlyToReceive'
  BY <1>29 DEF TaskAbandoned, LockOnlyToReceive, InLock, client, calls
<1>30. ASSUME NEW s \in Subs, AppRead(s) PROVE LockOnlyToReceive'
  BY <1>30 DEF AppRead, LockOnlyToReceive, InLock, client, calls
<1>31. ASSUME NEW s \in Subs, AppDrop(s) PROVE LockOnlyToReceive'
  BY <1>31 DEF AppDrop, LockOnlyToReceive, InLock, client, calls
<1>32. ASSUME WorkerStreams PROVE LockOnlyToReceive'
  BY <1>32 DEF WorkerStreams, LockOnlyToReceive, InLock, client, calls, tasks
<1>33. CASE UNCHANGED vars
  BY <1>33 DEF vars, client, calls, tasks, LockOnlyToReceive, InLock
<1>34. QED
  BY <1>1, <1>2, <1>3, <1>4, <1>5, <1>6, <1>7, <1>8, <1>9, <1>10, <1>11, <1>12, <1>13, <1>14,
      <1>15, <1>16, <1>17, <1>18, <1>19, <1>20, <1>21, <1>22, <1>23, <1>24, <1>25, <1>26,
      <1>27, <1>28, <1>29, <1>30, <1>31, <1>32, <1>33 DEF Next, ConnectStep, ReceiverStep,
      SubmitStep, TaskStep

\* The receiving end of the channel is locked only by a task at its recv(), and
\* by each such task once: no task that blocks elsewhere keeps it.
THEOREM LockDiscipline == Spec => []LockOnlyToReceive
<1>1. Init => LockOnlyToReceive
  BY DEF Init, LockOnlyToReceive, InLock
<1>2. QED
  BY <1>1, LockStep, Typing, PTL DEF Spec
=============================================================================
