--------------------------- MODULE WsDelivery_proofs ---------------------------
(* Proofs about WsTransport, continued: what reaches a caller or a           *)
(* subscription is its own, and in order.                                   *)
EXTENDS WsTransport_proofs

\* Nothing travels on a session before the worker accepted it; a submission or
\* a stream is served only on an accepted session.
SessionInv ==
    /\ \A g \in Sessions : link[g] = "unused" => greeted[g] = "no"
    /\ \A g \in Sessions : greeted[g] = "no" => wire[g] = <<>>
    /\ conn = "installing" => greeted[sink] = "no"
    /\ \A r \in Submits : taken[r] # 0 => greeted[taken[r]] = "yes"
    /\ \A x \in streaming : greeted[x[1]] = "yes"

\* Messages in flight know their session.
Provenance ==
    /\ \A g \in Sessions : \A i \in 1..Len(wire[g]) : wire[g][i].via = g
    /\ OnlyThisSession


\* What a delivery does to the wires.
LEMMA Delivered ==
    ASSUME WorkerOK, NEW g \in Sessions, NEW m \in Message, Deliver(g, m)
    PROVE  /\ \A h \in Sessions : h # g => wire'[h] = wire[h]
           /\ wire[g] \in Seq(Message) /\ wire'[g] = Append(wire[g], m)
           /\ Len(wire'[g]) = Len(wire[g]) + 1
           /\ \A i \in 1..Len(wire[g]) : wire'[g][i] = wire[g][i]
           /\ wire'[g][Len(wire[g]) + 1] = m
BY DEF WorkerOK, Deliver

\* A message delivered on the wire of its session leaves every wire with its own.
LEMMA OwnDelivered ==
    ASSUME WorkerOK, NEW g \in Sessions, NEW m \in Message, Deliver(g, m), m.via = g,
           \A h \in Sessions : \A i \in 1..Len(wire[h]) : wire[h][i].via = h
    PROVE  \A h \in Sessions : \A i \in 1..Len(wire'[h]) : wire'[h][i].via = h
<1> SUFFICES ASSUME NEW h \in Sessions, NEW i \in 1..Len(wire'[h]) PROVE wire'[h][i].via = h
  OBVIOUS
<1>1. CASE h # g
  BY <1>1, Delivered
<1>2. CASE h = g /\ i \in 1..Len(wire[g])
  BY <1>2, Delivered
<1>3. CASE h = g /\ i = Len(wire[g]) + 1
  BY <1>3, Delivered
<1>4. Len(wire'[g]) = Len(wire[g]) + 1 /\ Len(wire[g]) \in Nat
  BY Delivered
<1>5. QED
  BY <1>1, <1>2, <1>3, <1>4

\* What taking the first message of a wire does to the wires.
LEMMA Consumed ==
    ASSUME WorkerOK, NEW g \in Sessions, wire[g] # <<>>, wire' = [wire EXCEPT ![g] = Tail(@)]
    PROVE  /\ \A h \in Sessions : h # g => wire'[h] = wire[h]
           /\ wire[g] \in Seq(Message) /\ wire'[g] = Tail(wire[g])
           /\ Len(wire'[g]) = Len(wire[g]) - 1
           /\ \A i \in 1..Len(wire'[g]) : wire'[g][i] = wire[g][i + 1]
           /\ Head(wire[g]) = wire[g][1] /\ Head(wire[g]) \in Message
BY DEF WorkerOK

\* What recv() does to the channel.
LEMMA QueueShrinks ==
    ASSUME ClientOK, queue # <<>>, queue' = Tail(queue)
    PROVE  /\ Len(queue') = Len(queue) - 1
           /\ \A i \in 1..Len(queue') : queue'[i] = queue[i + 1]
           /\ Head(queue) = queue[1] /\ 1 \in 1..Len(queue)
OBVIOUS

\* What a send does to the channel.
LEMMA QueueGrows ==
    ASSUME ClientOK, NEW m \in Message, queue' = Append(queue, m)
    PROVE  /\ Len(queue') = Len(queue) + 1
           /\ \A i \in 1..Len(queue) : queue'[i] = queue[i]
           /\ queue'[Len(queue) + 1] = m
OBVIOUS

\* What the worker puts on the wire.
LEMMA GreetsDeliver ==
    ASSUME WorkerOK, NEW g \in Sessions, WorkerGreets(g)
    PROVE  \E m \in Message : Deliver(g, m) /\ m.via = g /\ m.kind \in {"connected", "error"}
<1>1. CASE Deliver(g, [kind |-> "connected", via |-> g])
  BY <1>1, Messages
<1>2. CASE Deliver(g, [kind |-> "error", via |-> g])
  BY <1>2, Messages
<1>3. QED
  BY <1>1, <1>2 DEF WorkerGreets

\* A heartbeat of the worker is one message on its session.
LEMMA BeatsDeliver ==
    ASSUME WorkerOK, NEW g \in Sessions, WorkerBeats(g)
    PROVE  \E m \in Message : Deliver(g, m) /\ m.via = g /\ m.kind = "heartbeat"
BY Messages DEF WorkerBeats

\* A reply travels on the session that carried the submission and is recorded
\* as said.
LEMMA RepliesDeliver ==
    ASSUME WorkerOK, NEW r \in Submits, WorkerReplies(r)
    PROVE  /\ taken[r] \in Sessions /\ taken[r] # 0
           /\ \E m \in Message :
                /\ Deliver(taken[r], m) /\ m.via = taken[r]
                /\ m.kind = "reply" /\ m.to = r /\ m.nth = Len(said[r]) + 1
                /\ said' = [said EXCEPT ![r] = Append(@, m.says)]
<1>1. taken[r] \in Sessions /\ taken[r] # 0
  BY SessionRange DEF WorkerReplies, WorkerOK
<1>2. PICK what \in Says[r] \ Said(r) :
        /\ said' = [said EXCEPT ![r] = Append(@, what)]
        /\ Deliver(taken[r], [kind |-> "reply", via |-> taken[r], to |-> r, says |-> what,
                              nth |-> Len(said[r]) + 1])
  BY DEF WorkerReplies
<1>3. [kind |-> "reply", via |-> taken[r], to |-> r, says |-> what, nth |-> Len(said[r]) + 1]
        \in Message
  <2>1. what \in AllSays /\ Len(said[r]) + 1 \in Nat
    BY ConstantsOK DEF WorkerOK
  <2>2. QED
    BY <1>1, <2>1, Messages
<1>4. QED
  BY <1>1, <1>2, <1>3

\* A stream event travels on the session of the subscription, under a new number.
LEMMA StreamsDeliver ==
    ASSUME WorkerOK, WorkerStreams
    PROVE  \E x \in streaming : \E m \in Message :
            /\ x[1] \in Sessions
            /\ Deliver(x[1], m) /\ m.via = x[1]
            /\ m.kind = "event" /\ m.to = x[2] /\ m.id = events + 1 /\ events' = events + 1
<1>1. PICK x \in streaming :
        Deliver(x[1], [kind |-> "event", via |-> x[1], to |-> x[2], id |-> events + 1])
  BY DEF WorkerStreams
<1>2. x[1] \in Sessions /\ x[2] \in Streams
  BY DEF WorkerOK
<1>3. events + 1 \in 1..MaxEvents
  BY ConstantsOK DEF WorkerStreams, WorkerOK
<1>4. [kind |-> "event", via |-> x[1], to |-> x[2], id |-> events + 1] \in Message
  BY <1>2, <1>3, Messages
<1>5. QED
  BY <1>1, <1>2, <1>4 DEF WorkerStreams

\* No step uses a session before the worker accepted it.
LEMMA SessionStep == TypeInv /\ SessionInv /\ [Next]_vars => SessionInv'
<1> SUFFICES ASSUME TypeInv, SessionInv, [Next]_vars PROVE SessionInv'
  OBVIOUS
<1>0. ClientOK /\ CallsOK /\ TasksOK /\ WorkerOK /\ Wired
  BY DEF TypeInv, TypeOK
<1> USE <1>0, ConstantsOK
<1>1. ASSUME ConnectDial PROVE SessionInv'
  BY <1>1 DEF ConnectDial, SessionInv
<1>2. ASSUME ConnectInstall PROVE SessionInv'
  BY <1>2 DEF ConnectInstall, SessionInv
<1>3. ASSUME ConnectAwait PROVE SessionInv'
  BY <1>3 DEF ConnectAwait, SessionInv, worker
<1>4. ASSUME ConnectAnswer PROVE SessionInv'
  BY <1>4 DEF ConnectAnswer, SessionInv, worker
<1>5. ASSUME ConnectTimeout PROVE SessionInv'
  BY <1>5 DEF ConnectTimeout, SessionInv, worker
<1>6. ASSUME Disconnect PROVE SessionInv'
  BY <1>6 DEF Disconnect, Exclusive, SessionInv
<1>7. ASSUME Drop PROVE SessionInv'
  BY <1>7 DEF Drop, SessionInv, worker
<1>8. ASSUME NEW g \in Sessions, ReceiveHeartbeat(g) PROVE SessionInv'
  BY <1>8 DEF ReceiveHeartbeat, SessionInv, client
<1>9. ASSUME NEW g \in Sessions, ReceiveMessage(g) PROVE SessionInv'
  BY <1>9 DEF ReceiveMessage, SessionInv
<1>10. ASSUME NEW g \in Sessions, ReceiverDetached(g) PROVE SessionInv'
  <2>1. \A h \in Sessions : link'[h] = "unused" => link[h] = "unused"
    BY <1>10 DEF ReceiverDetached, WorkerOK
  <2>2. QED
    BY <1>10, <2>1 DEF ReceiverDetached, SessionInv
<1>11. ASSUME NEW g \in Sessions, ReceiverEnd(g) PROVE SessionInv'
  BY <1>11 DEF ReceiverEnd, SessionInv, worker
<1>12. ASSUME NEW g \in Sessions, WorkerGreets(g) PROVE SessionInv'
  <2>0. PICK v \in {"yes", "refused"} : greeted' = [greeted EXCEPT ![g] = v]
    BY <1>12 DEF WorkerGreets
  <2>m. PICK m \in Message : Deliver(g, m)
    BY <1>12, GreetsDeliver
  <2>w. \A h \in Sessions : h # g => wire'[h] = wire[h]
    BY <2>m, Delivered
  <2>1. greeted[g] = "asked" /\ \A h \in Sessions : h # g => greeted'[h] = greeted[h] /\ wire'[h] = wire[h]
    BY <1>12, <2>0, <2>w DEF WorkerGreets
  <2>2. greeted'[g] # "no" /\ link[g] = "up"
    BY <1>12, <2>0 DEF WorkerGreets
  <2>3. \A r \in Submits : taken[r] # 0 => taken[r] \in Sessions /\ taken[r] # g
    BY <2>1, SessionRange DEF SessionInv, WorkerOK
  <2>4. \A x \in streaming : x[1] \in Sessions /\ x[1] # g
    BY <2>1 DEF SessionInv, WorkerOK
  <2>5. conn = "installing" => sink \in Sessions /\ sink # g
    BY <2>1, SessionRange DEF SessionInv, ClientOK, Wired
  <2>6. QED
    BY <1>12, <2>1, <2>2, <2>3, <2>4, <2>5 DEF WorkerGreets, SessionInv, client
<1>13. ASSUME NEW g \in Sessions, WorkerBeats(g) PROVE SessionInv'
  <2>1. \A h \in Sessions : greeted[h] = "no" => h # g /\ wire'[h] = wire[h]
    BY <1>13, BeatsDeliver, Delivered DEF WorkerBeats
  <2>2. QED
    BY <1>13, <2>1 DEF WorkerBeats, SessionInv, client
<1>14. ASSUME NEW g \in Sessions, LinkDrops(g) PROVE SessionInv'
  <2>1. \A h \in Sessions : link'[h] = "unused" => link[h] = "unused"
    BY <1>14 DEF LinkDrops, WorkerOK
  <2>2. QED
    BY <1>14, <2>1 DEF LinkDrops, SessionInv, client
<1>15. ASSUME NEW r \in Submits, SubmitRefused(r) PROVE SessionInv'
  BY <1>15 DEF SubmitRefused, SessionInv, client, worker
<1>16. ASSUME NEW r \in Submits, SubmitSend(r) PROVE SessionInv'
  <2>1. \A q \in Submits : taken'[q] = taken[q] \/ taken'[q] = 0 \/ greeted[taken'[q]] = "yes"
    BY <1>16 DEF SubmitSend, Reaches, WorkerOK
  <2>2. \A q \in Submits : taken'[q] # 0 => greeted'[taken'[q]] = "yes"
    BY <1>16, <2>1 DEF SubmitSend, SessionInv
  <2>3. QED
    BY <1>16, <2>2 DEF SubmitSend, SessionInv, client
<1>17. ASSUME NEW r \in Submits, Deadline(r) PROVE SessionInv'
  BY <1>17 DEF Deadline, SessionInv, client, worker
<1>18. ASSUME NEW r \in Submits, SubmitPoll(r) PROVE SessionInv'
  BY <1>18 DEF SubmitPoll, SessionInv, worker
<1>19. ASSUME NEW r \in Submits, SubmitGiveUp(r) PROVE SessionInv'
  BY <1>19 DEF SubmitGiveUp, SessionInv, client, worker
<1>20. ASSUME NEW r \in Submits, SubmitRecv(r) PROVE SessionInv'
  BY <1>20 DEF SubmitRecv, SessionInv, worker
<1>21. ASSUME NEW r \in Submits, SubmitRecvTimeout(r) PROVE SessionInv'
  BY <1>21 DEF SubmitRecvTimeout, SessionInv, worker
<1>22. ASSUME NEW r \in Submits, WorkerReplies(r) PROVE SessionInv'
  <2>1. \A h \in Sessions : greeted[h] = "no" => h # taken[r] /\ wire'[h] = wire[h]
    BY <1>22, RepliesDeliver, Delivered DEF SessionInv
  <2>2. QED
    BY <1>22, <2>1 DEF WorkerReplies, SessionInv, client
<1>23. ASSUME NEW s \in Subs, SubscribeRefused(s) PROVE SessionInv'
  BY <1>23 DEF SubscribeRefused, SessionInv, client, worker
<1>24. ASSUME NEW s \in Subs, Subscribe(s) PROVE SessionInv'
  BY <1>24 DEF Subscribe, Reaches, SessionInv, client
<1>25. ASSUME NEW s \in Subs, TaskPoll(s) PROVE SessionInv'
  BY <1>25 DEF TaskPoll, SessionInv, worker
<1>26. ASSUME NEW s \in Subs, TaskRecv(s) PROVE SessionInv'
  BY <1>26 DEF TaskRecv, SessionInv, worker
<1>27. ASSUME NEW s \in Subs, TaskClosed(s) PROVE SessionInv'
  BY <1>27 DEF TaskClosed, SessionInv, worker
<1>28. ASSUME NEW s \in Subs, TaskForward(s) PROVE SessionInv'
  BY <1>28 DEF TaskForward, SessionInv, client, worker
<1>29. ASSUME NEW s \in Subs, TaskAbandoned(s) PROVE SessionInv'
  BY <1>29 DEF TaskAbandoned, SessionInv, client, worker
<1>30. ASSUME NEW s \in Subs, AppRead(s) PROVE SessionInv'
  BY <1>30 DEF AppRead, SessionInv, client, worker
<1>31. ASSUME NEW s \in Subs, AppDrop(s) PROVE SessionInv'
  BY <1>31 DEF AppDrop, SessionInv, client, worker
<1>32. ASSUME WorkerStreams PROVE SessionInv'
  <2>1. PICK x \in streaming : x[1] \in Sessions /\ \E m \in Message : Deliver(x[1], m)
    BY <1>32, StreamsDeliver
  <2>2. \A h \in Sessions : h # x[1] => wire'[h] = wire[h]
    BY <2>1, Delivered
  <2>3. \A h \in Sessions : greeted[h] = "no" => wire'[h] = wire[h]
    BY <2>1, <2>2 DEF SessionInv
  <2>4. QED
    BY <1>32, <2>3 DEF WorkerStreams, SessionInv, client
<1>33. CASE UNCHANGED vars
  BY <1>33 DEF vars, client, worker, SessionInv
<1>34. QED
  BY <1>1, <1>2, <1>3, <1>4, <1>5, <1>6, <1>7, <1>8, <1>9, <1>10, <1>11, <1>12, <1>13, <1>14,
      <1>15, <1>16, <1>17, <1>18, <1>19, <1>20, <1>21, <1>22, <1>23, <1>24, <1>25, <1>26,
      <1>27, <1>28, <1>29, <1>30, <1>31, <1>32, <1>33 DEF Next, ConnectStep, ReceiverStep,
      SubmitStep, TaskStep

\* No step mixes messages of two sessions.
LEMMA ProvenanceStep == TypeInv /\ Provenance /\ [Next]_vars => Provenance'
<1> SUFFICES ASSUME TypeInv, Provenance, [Next]_vars PROVE Provenance'
  OBVIOUS
<1>0. ClientOK /\ CallsOK /\ TasksOK /\ WorkerOK /\ Wired
  BY DEF TypeInv, TypeOK
<1> USE <1>0, ConstantsOK
<1>1. ASSUME ConnectDial PROVE Provenance'
  BY <1>1 DEF ConnectDial, Provenance, OnlyThisSession
<1>2. ASSUME ConnectInstall PROVE Provenance'
  BY <1>2 DEF ConnectInstall, FreshChannel, Provenance, OnlyThisSession
<1>3. ASSUME ConnectAwait PROVE Provenance'
  BY <1>3 DEF ConnectAwait, Provenance, OnlyThisSession, worker
<1>4. ASSUME ConnectAnswer PROVE Provenance'
  BY <1>4 DEF ConnectAnswer, Provenance, OnlyThisSession, worker
<1>5. ASSUME ConnectTimeout PROVE Provenance'
  BY <1>5 DEF ConnectTimeout, Provenance, OnlyThisSession, worker
<1>6. ASSUME Disconnect PROVE Provenance'
  BY <1>6 DEF Disconnect, Provenance, OnlyThisSession
<1>7. ASSUME Drop PROVE Provenance'
  BY <1>7 DEF Drop, Provenance, OnlyThisSession, worker
<1>8. ASSUME NEW g \in Sessions, ReceiveHeartbeat(g) PROVE Provenance'
  BY <1>8 DEF ReceiveHeartbeat, Provenance, OnlyThisSession, client
<1>9. ASSUME NEW g \in Sessions, ReceiveMessage(g) PROVE Provenance'
  <2>0. wire[g] # <<>> /\ wire' = [wire EXCEPT ![g] = Tail(@)]
    BY <1>9 DEF ReceiveMessage
  <2>1. /\ \A h \in Sessions : \A i \in 1..Len(wire'[h]) : wire'[h][i].via = h
        /\ Head(wire[g]) \in Message /\ Head(wire[g]).via = g
    <3>1. /\ \A h \in Sessions : h # g => wire'[h] = wire[h]
          /\ wire[g] \in Seq(Message) /\ Len(wire'[g]) = Len(wire[g]) - 1
          /\ \A i \in 1..Len(wire'[g]) : wire'[g][i] = wire[g][i + 1]
          /\ Head(wire[g]) = wire[g][1] /\ Head(wire[g]) \in Message
      BY <2>0, Consumed
    <3>5. \A i \in 1..Len(wire[g]) : wire[g][i].via = g
      BY DEF Provenance
    <3>6. \A h \in Sessions : \A i \in 1..Len(wire[h]) : wire[h][i].via = h
      BY DEF Provenance
    <3>7. \A i \in 1..Len(wire'[g]) : wire'[g][i].via = g
      BY <3>1, <3>5
    <3>8. \A h \in Sessions : h # g => \A i \in 1..Len(wire'[h]) : wire'[h][i].via = h
      BY <3>1, <3>6
    <3>9. QED
      BY <3>1, <3>5, <3>7, <3>8
  <2>2. chan' = chan /\ chan = g
    BY <1>9 DEF ReceiveMessage, RxAlive
  <2>3. \A i \in 1..Len(queue') : queue'[i].via = chan'
    BY <1>9, <2>2 DEF ReceiveMessage, Provenance, OnlyThisSession
  <2>4. QED
    BY <2>1, <2>3 DEF Provenance, OnlyThisSession
<1>10. ASSUME NEW g \in Sessions, ReceiverDetached(g) PROVE Provenance'
  BY <1>10 DEF ReceiverDetached, Provenance, OnlyThisSession
<1>11. ASSUME NEW g \in Sessions, ReceiverEnd(g) PROVE Provenance'
  BY <1>11 DEF ReceiverEnd, Provenance, OnlyThisSession, worker
<1>12. ASSUME NEW g \in Sessions, WorkerGreets(g) PROVE Provenance'
  <2>1. PICK m \in Message : Deliver(g, m) /\ m.via = g
    BY <1>12, GreetsDeliver
  <2>2. g \in Sessions
    OBVIOUS
  <2>3. \A h \in Sessions : \A i \in 1..Len(wire'[h]) : wire'[h][i].via = h
    BY <2>1, <2>2, OwnDelivered DEF Provenance
  <2>4. QED
    BY <1>12, <2>3 DEF WorkerGreets, Provenance, OnlyThisSession, client
<1>13. ASSUME NEW g \in Sessions, WorkerBeats(g) PROVE Provenance'
  <2>1. PICK m \in Message : Deliver(g, m) /\ m.via = g
    BY <1>13, BeatsDeliver
  <2>2. g \in Sessions
    OBVIOUS
  <2>3. \A h \in Sessions : \A i \in 1..Len(wire'[h]) : wire'[h][i].via = h
    BY <2>1, <2>2, OwnDelivered DEF Provenance
  <2>4. QED
    BY <1>13, <2>3 DEF WorkerBeats, Provenance, OnlyThisSession, client
<1>14. ASSUME NEW g \in Sessions, LinkDrops(g) PROVE Provenance'
  BY <1>14 DEF LinkDrops, Provenance, OnlyThisSession, client
<1>15. ASSUME NEW r \in Submits, SubmitRefused(r) PROVE Provenance'
  BY <1>15 DEF SubmitRefused, Provenance, OnlyThisSession, client, worker
<1>16. ASSUME NEW r \in Submits, SubmitSend(r) PROVE Provenance'
  BY <1>16 DEF SubmitSend, Provenance, OnlyThisSession, client
<1>17. ASSUME NEW r \in Submits, Deadline(r) PROVE Provenance'
  BY <1>17 DEF Deadline, Provenance, OnlyThisSession, client, worker
<1>18. ASSUME NEW r \in Submits, SubmitPoll(r) PROVE Provenance'
  BY <1>18 DEF SubmitPoll, Provenance, OnlyThisSession, worker
<1>19. ASSUME NEW r \in Submits, SubmitGiveUp(r) PROVE Provenance'
  BY <1>19 DEF SubmitGiveUp, Provenance, OnlyThisSession, client, worker
<1>20. ASSUME NEW r \in Submits, SubmitRecv(r) PROVE Provenance'
  BY <1>20 DEF SubmitRecv, Provenance, OnlyThisSession, worker
<1>21. ASSUME NEW r \in Submits, SubmitRecvTimeout(r) PROVE Provenance'
  BY <1>21 DEF SubmitRecvTimeout, Provenance, OnlyThisSession, worker
<1>22. ASSUME NEW r \in Submits, WorkerReplies(r) PROVE Provenance'
  <2>1. PICK m \in Message : Deliver(taken[r], m) /\ m.via = taken[r]
    BY <1>22, RepliesDeliver
  <2>2. taken[r] \in Sessions
    BY <1>22, RepliesDeliver
  <2>3. \A h \in Sessions : \A i \in 1..Len(wire'[h]) : wire'[h][i].via = h
    BY <2>1, <2>2, OwnDelivered DEF Provenance
  <2>4. QED
    BY <1>22, <2>3 DEF WorkerReplies, Provenance, OnlyThisSession, client
<1>23. ASSUME NEW s \in Subs, SubscribeRefused(s) PROVE Provenance'
  BY <1>23 DEF SubscribeRefused, Provenance, OnlyThisSession, client, worker
<1>24. ASSUME NEW s \in Subs, Subscribe(s) PROVE Provenance'
  BY <1>24 DEF Subscribe, Provenance, OnlyThisSession, client
<1>25. ASSUME NEW s \in Subs, TaskPoll(s) PROVE Provenance'
  BY <1>25 DEF TaskPoll, Provenance, OnlyThisSession, worker
<1>26. ASSUME NEW s \in Subs, TaskRecv(s) PROVE Provenance'
  BY <1>26 DEF TaskRecv, Provenance, OnlyThisSession, worker
<1>27. ASSUME NEW s \in Subs, TaskClosed(s) PROVE Provenance'
  BY <1>27 DEF TaskClosed, Provenance, OnlyThisSession, worker
<1>28. ASSUME NEW s \in Subs, TaskForward(s) PROVE Provenance'
  BY <1>28 DEF TaskForward, Provenance, OnlyThisSession, client, worker
<1>29. ASSUME NEW s \in Subs, TaskAbandoned(s) PROVE Provenance'
  BY <1>29 DEF TaskAbandoned, Provenance, OnlyThisSession, client, worker
<1>30. ASSUME NEW s \in Subs, AppRead(s) PROVE Provenance'
  BY <1>30 DEF AppRead, Provenance, OnlyThisSession, client, worker
<1>31. ASSUME NEW s \in Subs, AppDrop(s) PROVE Provenance'
  BY <1>31 DEF AppDrop, Provenance, OnlyThisSession, client, worker
<1>32. ASSUME WorkerStreams PROVE Provenance'
  <2>1. PICK x \in streaming : \E m \in Message :
            x[1] \in Sessions /\ Deliver(x[1], m) /\ m.via = x[1]
    BY <1>32, StreamsDeliver
  <2>2. \A h \in Sessions : \A i \in 1..Len(wire'[h]) : wire'[h][i].via = h
    BY <2>1, OwnDelivered DEF Provenance
  <2>3. QED
    BY <1>32, <2>2 DEF WorkerStreams, Provenance, OnlyThisSession, client
<1>33. CASE UNCHANGED vars
  BY <1>33 DEF vars, client, worker, Provenance, OnlyThisSession
<1>34. QED
  BY <1>1, <1>2, <1>3, <1>4, <1>5, <1>6, <1>7, <1>8, <1>9, <1>10, <1>11, <1>12, <1>13, <1>14,
      <1>15, <1>16, <1>17, <1>18, <1>19, <1>20, <1>21, <1>22, <1>23, <1>24, <1>25, <1>26,
      <1>27, <1>28, <1>29, <1>30, <1>31, <1>32, <1>33 DEF Next, ConnectStep, ReceiverStep,
      SubmitStep, TaskStep

\* After a new connect() no message of an earlier socket reaches a caller.
THEOREM FreshSession == Spec => []OnlyThisSession
<1>1. Init => Provenance
  BY DEF Init, Provenance, OnlyThisSession
<1>2. Provenance => OnlyThisSession
  BY DEF Provenance
<1>3. QED
  BY <1>1, <1>2, ProvenanceStep, Typing, PTL DEF Spec

-----------------------------------------------------------------------------
(* Replies.                                                                 *)

\* A submission that was not made has not reached the worker.
Asked == \A r \in Submits : call[r] = "idle" => taken[r] = 0

\* A reply is one the worker gave, under its number, on the session on which it
\* took the submission.
GenuineAs(m, who, what) ==
    /\ m.via = who[m.to]
    /\ m.nth \in 1..Len(what[m.to])
    /\ what[m.to][m.nth] = m.says

Genuine(m) == GenuineAs(m, taken, said)

Truthful(q) == \A i \in 1..Len(q) : q[i].kind = "reply" => Genuine(q[i])

RepliesSaid ==
    /\ \A g \in Sessions : Truthful(wire[g])
    /\ Truthful(queue)

\* No step makes the worker take a submission that has not been made.
LEMMA AskedStep == TypeInv /\ Asked /\ [Next]_vars => Asked'
<1> SUFFICES ASSUME TypeInv, Asked, [Next]_vars PROVE Asked'
  OBVIOUS
<1>0. call \in [Submits -> CallState] /\ taken \in [Submits -> 0..MaxSessions]
  BY DEF TypeInv, TypeOK, CallsOK, WorkerOK
<1>1. ASSUME NEW r \in Submits, SubmitSend(r) PROVE Asked'
  <2>1. call'[r] # "idle" /\ \A q \in Submits : q # r => call'[q] = call[q] /\ taken'[q] = taken[q]
    BY <1>0, <1>1 DEF SubmitSend
  <2>2. QED
    BY <2>1 DEF Asked
<1>2. ASSUME NEW r \in Submits, SubmitRefused(r) \/ SubmitStep(r) PROVE Asked'
  <2>1. call'[r] # "idle" /\ \A q \in Submits : q # r => call'[q] = call[q]
    BY <1>0, <1>2 DEF SubmitRefused, SubmitStep, SubmitPoll, SubmitGiveUp, SubmitRecv,
        SubmitRecvTimeout
  <2>2. taken' = taken
    BY <1>2 DEF SubmitRefused, SubmitStep, SubmitPoll, SubmitGiveUp, SubmitRecv,
        SubmitRecvTimeout, worker
  <2>3. QED
    BY <2>1, <2>2 DEF Asked
<1>3. ASSUME \A r \in Submits : ~(SubmitSend(r) \/ SubmitRefused(r) \/ SubmitStep(r)) PROVE Asked'
  <2>1. call' = call /\ taken' = taken
    BY <1>3 DEF Next, ConnectDial, ConnectStep, ConnectInstall, ConnectAwait, ConnectAnswer,
        ConnectTimeout, Disconnect, Drop, ReceiverStep, ReceiveHeartbeat, ReceiveMessage,
        ReceiverDetached, ReceiverEnd, WorkerGreets, WorkerBeats, LinkDrops, Deadline,
        WorkerReplies, SubscribeRefused, Subscribe, TaskStep, TaskPoll, TaskRecv, TaskClosed,
        TaskForward, TaskAbandoned, AppRead, AppDrop, WorkerStreams, vars, calls, worker
  <2>2. QED
    BY <2>1 DEF Asked
<1>4. QED
  BY <1>1, <1>2, <1>3

\* What the worker has taken stays taken, what it has said stays said.
Lasting ==
    \A r \in Submits :
        /\ taken[r] # 0 => taken'[r] = taken[r]
        /\ Len(said[r]) <= Len(said'[r])
        /\ \A i \in 1..Len(said[r]) : said'[r][i] = said[r][i]

\* Then a genuine reply stays one.
LEMMA TruthfulStays ==
    ASSUME WorkerOK, NEW q \in Seq(Message), Truthful(q), Lasting,
           \A r \in Submits : Len(said'[r]) \in Nat
    PROVE  \A i \in 1..Len(q) : q[i].kind = "reply" => GenuineAs(q[i], taken', said')
<1>1. ASSUME NEW i \in 1..Len(q), q[i].kind = "reply" PROVE GenuineAs(q[i], taken', said')
  <2> DEFINE r == q[i].to
  <2>1. r \in Submits /\ q[i].via # 0
    BY <1>1, Kinds, SessionRange DEF Reply
  <2>2. q[i].via = taken[r] /\ q[i].nth \in 1..Len(said[r]) /\ said[r][q[i].nth] = q[i].says
    BY <1>1 DEF Truthful, Genuine, GenuineAs
  <2>3. Len(said[r]) \in Nat
    BY <2>1 DEF WorkerOK
  <2>4. /\ taken'[r] = taken[r] /\ Len(said[r]) <= Len(said'[r])
        /\ said'[r][q[i].nth] = said[r][q[i].nth]
    BY <2>1, <2>2 DEF Lasting
  <2>5. q[i].nth \in 1..Len(said'[r])
    BY <2>1, <2>2, <2>3, <2>4
  <2>6. QED
    BY <2>2, <2>4, <2>5 DEF Genuine, GenuineAs
<1>2. QED
  BY <1>1

\* Steps that move no message preserve RepliesSaid.
LEMMA RepliesFramed ==
    ASSUME RepliesSaid, UNCHANGED <<wire, queue, said, taken>>
    PROVE  RepliesSaid'
BY DEF RepliesSaid, Truthful, Genuine, GenuineAs

\* Taking a message off the channel preserves RepliesSaid.
LEMMA RepliesTaken ==
    ASSUME ClientOK, RepliesSaid, queue # <<>>, queue' = Tail(queue),
           UNCHANGED <<wire, said, taken>>
    PROVE  RepliesSaid'
<1>1. /\ Len(queue') = Len(queue) - 1 /\ Len(queue) \in Nat
      /\ \A i \in 1..Len(queue') : queue'[i] = queue[i + 1]
  BY QueueShrinks DEF ClientOK
<1>2. \A m : Genuine(m)' <=> Genuine(m)
  BY DEF Genuine, GenuineAs
<1>3. Truthful(queue)'
  BY <1>1, <1>2 DEF RepliesSaid, Truthful
<1>4. QED
  BY <1>2, <1>3 DEF RepliesSaid, Truthful

\* Taking a message off a wire keeps the wires truthful, and the message is true.
LEMMA WiresConsumed ==
    ASSUME WorkerOK, NEW g \in Sessions, wire[g] # <<>>, wire' = [wire EXCEPT ![g] = Tail(@)],
           UNCHANGED <<said, taken>>, RepliesSaid
    PROVE  /\ \A h \in Sessions : Truthful(wire[h])'
           /\ Head(wire[g]).kind = "reply" => Genuine(Head(wire[g]))
<1>1. /\ \A h \in Sessions : h # g => wire'[h] = wire[h]
      /\ wire[g] \in Seq(Message) /\ Len(wire'[g]) = Len(wire[g]) - 1
      /\ \A i \in 1..Len(wire'[g]) : wire'[g][i] = wire[g][i + 1]
      /\ Head(wire[g]) = wire[g][1]
  BY Consumed
<1>2. Len(wire[g]) \in Nat /\ Len(wire[g]) # 0
  BY <1>1
<1>3. \A i \in 1..Len(wire'[g]) : i + 1 \in 1..Len(wire[g])
  BY <1>1, <1>2
<1>4. 1 \in 1..Len(wire[g])
  BY <1>2
<1>5. \A h \in Sessions : Truthful(wire[h])
  BY DEF RepliesSaid
<1>9. \A m : Genuine(m)' <=> Genuine(m)
  BY DEF Genuine, GenuineAs
<1>6. Truthful(wire[g])'
  BY <1>1, <1>3, <1>5, <1>9 DEF Truthful
<1>7. \A h \in Sessions : h # g => Truthful(wire[h])'
  BY <1>1, <1>5, <1>9 DEF Truthful
<1>8. QED
  BY <1>1, <1>4, <1>5, <1>6, <1>7 DEF Truthful

\* Delivering a message that was said preserves RepliesSaid.
LEMMA WiresDelivered ==
    ASSUME ClientOK, WorkerOK, NEW g \in Sessions, NEW m \in Message, Deliver(g, m), RepliesSaid,
           m.kind = "reply" => GenuineAs(m, taken', said'), queue' = queue, Lasting,
           \A r \in Submits : Len(said'[r]) \in Nat
    PROVE  RepliesSaid'
<1>1. /\ \A h \in Sessions : h # g => wire'[h] = wire[h]
      /\ wire[g] \in Seq(Message) /\ Len(wire'[g]) = Len(wire[g]) + 1
      /\ \A i \in 1..Len(wire[g]) : wire'[g][i] = wire[g][i]
      /\ wire'[g][Len(wire[g]) + 1] = m
  BY Delivered
<1>2. \A h \in Sessions : \A i \in 1..Len(wire[h]) :
        wire[h][i].kind = "reply" => GenuineAs(wire[h][i], taken', said')
  <2> SUFFICES ASSUME NEW h \in Sessions
               PROVE  \A i \in 1..Len(wire[h]) :
                        wire[h][i].kind = "reply" => GenuineAs(wire[h][i], taken', said')
    OBVIOUS
  <2>1. wire[h] \in Seq(Message) /\ Truthful(wire[h])
    BY DEF RepliesSaid, WorkerOK
  <2>2. QED
    BY <2>1, TruthfulStays
<1>3. \A i \in 1..Len(queue) : queue[i].kind = "reply" => GenuineAs(queue[i], taken', said')
  <2>1. queue \in Seq(Message) /\ Truthful(queue)
    BY DEF RepliesSaid, ClientOK
  <2>2. QED
    BY <2>1, TruthfulStays
<1>4. \A i \in 1..Len(wire'[g]) :
        (i \in 1..Len(wire[g]) /\ wire'[g][i] = wire[g][i]) \/ wire'[g][i] = m
  BY <1>1
<1>5. Truthful(wire[g])'
  BY <1>2, <1>4 DEF Truthful, Genuine
<1>6. ASSUME NEW h \in Sessions, h # g PROVE Truthful(wire[h])'
  <2>1. wire'[h] = wire[h]
    BY <1>1, <1>6
  <2>2. QED
    BY <1>2, <2>1 DEF Truthful, Genuine
<1>7. Truthful(queue)'
  BY <1>3 DEF Truthful, Genuine
<1>8. QED
  BY <1>5, <1>6, <1>7 DEF RepliesSaid

\* Nothing said, nothing taken.
LEMMA SameSaid ==
    ASSUME WorkerOK, UNCHANGED <<said, taken>>
    PROVE  Lasting /\ \A r \in Submits : Len(said'[r]) \in Nat
BY DEF Lasting, WorkerOK

\* No step invents a reply.
LEMMA RepliesStep == TypeInv /\ Asked /\ RepliesSaid /\ [Next]_vars => RepliesSaid'
<1> SUFFICES ASSUME TypeInv, Asked, RepliesSaid, [Next]_vars PROVE RepliesSaid'
  OBVIOUS
<1>0. ClientOK /\ CallsOK /\ TasksOK /\ WorkerOK /\ Wired
  BY DEF TypeInv, TypeOK
<1> USE <1>0, ConstantsOK
<1>1. ASSUME ConnectDial PROVE RepliesSaid'
  BY <1>1, RepliesFramed DEF ConnectDial
<1>2. ASSUME ConnectInstall PROVE RepliesSaid'
  <2>1. Truthful(queue)'
    BY <1>2 DEF ConnectInstall, FreshChannel, Truthful
  <2>2. QED
    BY <1>2, <2>1 DEF ConnectInstall, RepliesSaid, Truthful, Genuine, GenuineAs
<1>3. ASSUME ConnectAwait PROVE RepliesSaid'
  BY <1>3, RepliesFramed DEF ConnectAwait, worker
<1>4. ASSUME ConnectAnswer PROVE RepliesSaid'
  BY <1>4, RepliesTaken DEF ConnectAnswer, worker
<1>5. ASSUME ConnectTimeout PROVE RepliesSaid'
  BY <1>5, RepliesFramed DEF ConnectTimeout, worker
<1>6. ASSUME Disconnect PROVE RepliesSaid'
  BY <1>6, RepliesFramed DEF Disconnect
<1>7. ASSUME Drop PROVE RepliesSaid'
  BY <1>7, RepliesFramed DEF Drop, worker
<1>8. ASSUME NEW g \in Sessions, ReceiveHeartbeat(g) PROVE RepliesSaid'
  <2>1. wire[g] # <<>> /\ wire' = [wire EXCEPT ![g] = Tail(@)] /\ UNCHANGED <<queue, said, taken>>
    BY <1>8 DEF ReceiveHeartbeat, client
  <2>2. \A h \in Sessions : Truthful(wire[h])'
    BY <2>1, WiresConsumed
  <2>3. QED
    BY <2>1, <2>2 DEF RepliesSaid, Truthful, Genuine, GenuineAs
<1>9. ASSUME NEW g \in Sessions, ReceiveMessage(g) PROVE RepliesSaid'
  <2>1. /\ wire[g] # <<>> /\ wire' = [wire EXCEPT ![g] = Tail(@)]
        /\ queue' = Append(queue, Head(wire[g])) /\ UNCHANGED <<said, taken>>
    BY <1>9 DEF ReceiveMessage
  <2>2. /\ \A h \in Sessions : Truthful(wire[h])'
        /\ Head(wire[g]).kind = "reply" => Genuine(Head(wire[g]))
    BY <2>1, WiresConsumed
  <2>3. Head(wire[g]) \in Message /\ queue \in Seq(Message)
    BY <2>1, Consumed DEF ClientOK
  <2>4. \A i \in 1..Len(queue') :
            (i \in 1..Len(queue) /\ queue'[i] = queue[i]) \/ queue'[i] = Head(wire[g])
    BY <2>1, <2>3
  <2>5. \A m : Genuine(m)' <=> Genuine(m)
    BY <2>1 DEF Genuine, GenuineAs
  <2>6. Truthful(queue)'
    BY <2>2, <2>4, <2>5 DEF RepliesSaid, Truthful
  <2>7. QED
    BY <2>2, <2>6 DEF RepliesSaid
<1>10. ASSUME NEW g \in Sessions, ReceiverDetached(g) PROVE RepliesSaid'
  BY <1>10, RepliesFramed DEF ReceiverDetached
<1>11. ASSUME NEW g \in Sessions, ReceiverEnd(g) PROVE RepliesSaid'
  BY <1>11, RepliesFramed DEF ReceiverEnd, worker
<1>12. ASSUME NEW g \in Sessions, WorkerGreets(g) PROVE RepliesSaid'
  <2>1. PICK m \in Message : Deliver(g, m) /\ m.kind # "reply"
    BY <1>12, GreetsDeliver
  <2>2. UNCHANGED <<queue, said, taken>>
    BY <1>12 DEF WorkerGreets, client
  <2>3. QED
    BY <2>1, <2>2, SameSaid, WiresDelivered
<1>13. ASSUME NEW g \in Sessions, WorkerBeats(g) PROVE RepliesSaid'
  <2>1. PICK m \in Message : Deliver(g, m) /\ m.kind # "reply"
    BY <1>13, BeatsDeliver
  <2>2. UNCHANGED <<queue, said, taken>>
    BY <1>13 DEF WorkerBeats, client
  <2>3. QED
    BY <2>1, <2>2, SameSaid, WiresDelivered
<1>14. ASSUME NEW g \in Sessions, LinkDrops(g) PROVE RepliesSaid'
  BY <1>14, RepliesFramed DEF LinkDrops, client
<1>15. ASSUME NEW r \in Submits, SubmitRefused(r) PROVE RepliesSaid'
  BY <1>15, RepliesFramed DEF SubmitRefused, client, worker
<1>16. ASSUME NEW r \in Submits, SubmitSend(r) PROVE RepliesSaid'
  <2>1. UNCHANGED <<wire, queue, said>> /\ taken[r] = 0
    BY <1>16 DEF SubmitSend, Asked, client
  <2>2. \A q \in Submits : q # r => taken'[q] = taken[q]
    BY <1>16 DEF SubmitSend, WorkerOK
  <2>3. Lasting /\ \A q \in Submits : Len(said'[q]) \in Nat
    BY <2>1, <2>2 DEF Lasting, WorkerOK
  <2>4. /\ \A g \in Sessions : \A i \in 1..Len(wire[g]) :
                wire[g][i].kind = "reply" => GenuineAs(wire[g][i], taken', said')
        /\ \A i \in 1..Len(queue) : queue[i].kind = "reply" => GenuineAs(queue[i], taken', said')
    <3>1. /\ \A g \in Sessions : wire[g] \in Seq(Message) /\ Truthful(wire[g])
          /\ queue \in Seq(Message) /\ Truthful(queue)
      BY DEF RepliesSaid, WorkerOK, ClientOK
    <3>2. ASSUME NEW g \in Sessions
          PROVE  \A i \in 1..Len(wire[g]) :
                    wire[g][i].kind = "reply" => GenuineAs(wire[g][i], taken', said')
      <4>1. wire[g] \in Seq(Message) /\ Truthful(wire[g])
        BY <3>1
      <4>2. QED
        BY <2>3, <4>1, TruthfulStays
    <3>3. \A i \in 1..Len(queue) : queue[i].kind = "reply" => GenuineAs(queue[i], taken', said')
      BY <2>3, <3>1, TruthfulStays
    <3>4. QED
      BY <3>2, <3>3
  <2>5. QED
    BY <2>1, <2>4 DEF RepliesSaid, Truthful, Genuine, GenuineAs
<1>17. ASSUME NEW r \in Submits, Deadline(r) PROVE RepliesSaid'
  BY <1>17, RepliesFramed DEF Deadline, client, worker
<1>18. ASSUME NEW r \in Submits, SubmitPoll(r) PROVE RepliesSaid'
  BY <1>18, RepliesFramed DEF SubmitPoll, worker
<1>19. ASSUME NEW r \in Submits, SubmitGiveUp(r) PROVE RepliesSaid'
  BY <1>19, RepliesFramed DEF SubmitGiveUp, client, worker
<1>20. ASSUME NEW r \in Submits, SubmitRecv(r) PROVE RepliesSaid'
  BY <1>20, RepliesTaken DEF SubmitRecv, worker
<1>21. ASSUME NEW r \in Submits, SubmitRecvTimeout(r) PROVE RepliesSaid'
  BY <1>21, RepliesFramed DEF SubmitRecvTimeout, worker
<1>22. ASSUME NEW r \in Submits, WorkerReplies(r) PROVE RepliesSaid'
  <2>1. PICK m \in Message :
            /\ Deliver(taken[r], m) /\ m.via = taken[r]
            /\ m.kind = "reply" /\ m.to = r /\ m.nth = Len(said[r]) + 1
            /\ said' = [said EXCEPT ![r] = Append(@, m.says)]
    BY <1>22, RepliesDeliver
  <2>2. taken[r] \in Sessions /\ said[r] \in Seq(AllSays) /\ m.says \in AllSays
    BY <1>22, <2>1, RepliesDeliver, Kinds DEF WorkerOK, Reply
  <2>3. said'[r] = Append(said[r], m.says) /\ \A q \in Submits : q # r => said'[q] = said[q]
    BY <2>1 DEF WorkerOK
  <2>4. UNCHANGED <<queue, taken>>
    BY <1>22 DEF WorkerReplies, client
  <2>5. Lasting /\ \A q \in Submits : Len(said'[q]) \in Nat
    <3>1. /\ Len(said[r]) <= Len(said'[r]) /\ Len(said'[r]) \in Nat
          /\ \A i \in 1..Len(said[r]) : said'[r][i] = said[r][i]
      BY <2>2, <2>3
    <3>2. \A q \in Submits : Len(said[q]) \in Nat
      BY DEF WorkerOK
    <3>3. ASSUME NEW q \in Submits
          PROVE  /\ Len(said[q]) <= Len(said'[q]) /\ Len(said'[q]) \in Nat
                 /\ \A i \in 1..Len(said[q]) : said'[q][i] = said[q][i]
      <4>1. CASE q = r
        BY <3>1, <4>1
      <4>2. CASE q # r
        BY <2>3, <3>2, <4>2
      <4>3. QED
        BY <4>1, <4>2
    <3>4. QED
      BY <2>4, <3>3 DEF Lasting
  <2>6. GenuineAs(m, taken', said')
    BY <2>1, <2>2, <2>3, <2>4 DEF GenuineAs
  <2>7. QED
    BY <2>1, <2>2, <2>4, <2>5, <2>6, WiresDelivered
<1>23. ASSUME NEW s \in Subs, SubscribeRefused(s) PROVE RepliesSaid'
  BY <1>23, RepliesFramed DEF SubscribeRefused, client, worker
<1>24. ASSUME NEW s \in Subs, Subscribe(s) PROVE RepliesSaid'
  BY <1>24, RepliesFramed DEF Subscribe, client
<1>25. ASSUME NEW s \in Subs, TaskPoll(s) PROVE RepliesSaid'
  BY <1>25, RepliesFramed DEF TaskPoll, worker
<1>26. ASSUME NEW s \in Subs, TaskRecv(s) PROVE RepliesSaid'
  BY <1>26, RepliesTaken DEF TaskRecv, worker
<1>27. ASSUME NEW s \in Subs, TaskClosed(s) PROVE RepliesSaid'
  BY <1>27, RepliesFramed DEF TaskClosed, worker
<1>28. ASSUME NEW s \in Subs, TaskForward(s) PROVE RepliesSaid'
  BY <1>28, RepliesFramed DEF TaskForward, client, worker
<1>29. ASSUME NEW s \in Subs, TaskAbandoned(s) PROVE RepliesSaid'
  BY <1>29, RepliesFramed DEF TaskAbandoned, client, worker
<1>30. ASSUME NEW s \in Subs, AppRead(s) PROVE RepliesSaid'
  BY <1>30, RepliesFramed DEF AppRead, client, worker
<1>31. ASSUME NEW s \in Subs, AppDrop(s) PROVE RepliesSaid'
  BY <1>31, RepliesFramed DEF AppDrop, client, worker
<1>32. ASSUME WorkerStreams PROVE RepliesSaid'
  <2>1. PICK x \in streaming : \E m \in Message :
            x[1] \in Sessions /\ Deliver(x[1], m) /\ m.kind # "reply"
    BY <1>32, StreamsDeliver
  <2>2. UNCHANGED <<queue, said, taken>>
    BY <1>32 DEF WorkerStreams, client
  <2>3. QED
    BY <2>1, <2>2, SameSaid, WiresDelivered
<1>33. CASE UNCHANGED vars
  BY <1>33, RepliesFramed DEF vars, client, worker
<1>34. QED
  BY <1>1, <1>2, <1>3, <1>4, <1>5, <1>6, <1>7, <1>8, <1>9, <1>10, <1>11, <1>12, <1>13, <1>14,
      <1>15, <1>16, <1>17, <1>18, <1>19, <1>20, <1>21, <1>22, <1>23, <1>24, <1>25, <1>26,
      <1>27, <1>28, <1>29, <1>30, <1>31, <1>32, <1>33 DEF Next, ConnectStep, ReceiverStep,
      SubmitStep, TaskStep

-----------------------------------------------------------------------------
(* Messages travel in the order the worker sent them.                       *)

\* Message m was sent before n, when both are events or replies to one request.
Before(m, n) ==
    /\ m.kind = "event" /\ n.kind = "event" => m.id < n.id
    /\ m.kind = "reply" /\ n.kind = "reply" /\ m.to = n.to => m.nth < n.nth

\* The messages of a sequence are in sending order; all of one precede all of
\* another; an event is later than what task s has delivered.
InOrder(q) == \A i, j \in 1..Len(q) : i < j => Before(q[i], q[j])

Precedes(p, q) == \A i \in 1..Len(p), j \in 1..Len(q) : Before(p[i], q[j])

Sent(q) == \A i \in 1..Len(q) : q[i].kind = "event" => q[i].id <= events

Later(s, q) ==
    \A j \in 1..Len(q) : q[j].kind = "event" =>
        /\ \A i \in 1..Len(given[s]) : given[s][i].id < q[j].id
        /\ hand[s].kind = "event" => hand[s].id < q[j].id

FlowInv ==
    /\ \A g \in Sessions : InOrder(wire[g]) /\ Sent(wire[g])
    /\ InOrder(queue) /\ Sent(queue)
    /\ \A s \in Subs : Later(s, queue)
    /\ chan # 0 => Precedes(queue, wire[chan])
    /\ \A s \in Subs : chan # 0 => Later(s, wire[chan])

DeliveryInv ==
    \A s \in Subs :
        /\ \A i \in 1..Len(given[s]) : given[s][i].id <= events
        /\ hand[s].kind = "event" => hand[s].id <= events
        /\ task[s] = "forwarding" =>
            /\ hand[s].to = StreamOf[s]
            /\ \A i \in 1..Len(given[s]) : given[s][i].id < hand[s].id

\* The elements of a tail are those of the sequence, one place on.
LEMMA TailIndex ==
    ASSUME NEW q \in Seq(Message), q # <<>>
    PROVE  /\ Tail(q) \in Seq(Message)
           /\ Head(q) = q[1] /\ 1 \in 1..Len(q) /\ q[1] \in Message
           /\ \A i \in 1..Len(Tail(q)) : i + 1 \in 1..Len(q) /\ Tail(q)[i] = q[i + 1] /\ 1 < i + 1
<1>3. 1 \in 1..Len(q)
  OBVIOUS
<1>4. QED
  BY <1>3

\* The elements of an extended sequence are the old ones and the new one.
LEMMA AppendIndex ==
    ASSUME NEW q \in Seq(Message), NEW m \in Message
    PROVE  /\ Append(q, m) \in Seq(Message)
           /\ \A i \in 1..Len(Append(q, m)) :
                \/ i \in 1..Len(q) /\ Append(q, m)[i] = q[i] /\ i < Len(q) + 1
                \/ i = Len(q) + 1 /\ Append(q, m)[i] = m
           /\ Len(q) + 1 \in Nat
OBVIOUS

\* Events are numbered from 1.
LEMMA EventIds ==
    /\ \A m \in Message : m.kind = "event" => m \in Event
    /\ \A e \in Event : e.id \in Nat /\ e.id >= 1 /\ e.kind = "event"
BY Kinds DEF Event

\* Taking the first message preserves the order, and what is left is later.
LEMMA TailInOrder ==
    ASSUME NEW q \in Seq(Message), q # <<>>, InOrder(q)
    PROVE  /\ InOrder(Tail(q))
           /\ \A j \in 1..Len(Tail(q)) : Before(q[1], Tail(q)[j])
<1>1. /\ 1 \in 1..Len(q) /\ Len(Tail(q)) = Len(q) - 1 /\ Len(q) \in Nat
      /\ \A i \in 1..Len(Tail(q)) : i + 1 \in 1..Len(q) /\ Tail(q)[i] = q[i + 1] /\ 1 < i + 1
  BY TailIndex
<1>2. ASSUME NEW i \in 1..Len(Tail(q)), NEW j \in 1..Len(Tail(q)), i < j
      PROVE  Before(Tail(q)[i], Tail(q)[j])
  <2>1. i + 1 < j + 1 /\ i + 1 \in 1..Len(q) /\ j + 1 \in 1..Len(q)
    BY <1>1, <1>2
  <2>2. Before(q[i + 1], q[j + 1])
    BY <2>1 DEF InOrder
  <2>3. QED
    BY <1>1, <2>2
<1>3. \A j \in 1..Len(Tail(q)) : Before(q[1], Tail(q)[j])
  BY <1>1 DEF InOrder
<1>4. QED
  BY <1>2, <1>3 DEF InOrder

\* Appending a message that is later than all the others preserves the order.
LEMMA AppendInOrder ==
    ASSUME NEW q \in Seq(Message), NEW m \in Message, InOrder(q),
           \A i \in 1..Len(q) : Before(q[i], m)
    PROVE  InOrder(Append(q, m))
<1> SUFFICES ASSUME NEW i \in 1..Len(Append(q, m)), NEW j \in 1..Len(Append(q, m)), i < j
             PROVE  Before(Append(q, m)[i], Append(q, m)[j])
  BY DEF InOrder
<1>1. i \in 1..Len(q) /\ Append(q, m)[i] = q[i]
  OBVIOUS
<1>2. CASE j \in 1..Len(q)
  <2>1. Append(q, m)[j] = q[j]
    BY <1>2
  <2>2. QED
    BY <1>1, <1>2, <2>1 DEF InOrder
<1>3. CASE j = Len(q) + 1
  <2>1. Append(q, m)[j] = m
    BY <1>3
  <2>2. QED
    BY <1>1, <2>1
<1>4. QED
  BY <1>2, <1>3

\* Neither the answer to Connect nor a heartbeat has a place in any order.
LEMMA Unordered ==
    ASSUME NEW m, m.kind \notin {"event", "reply"}
    PROVE  \A x : Before(x, m)
BY DEF Before

\* Steps that move no message and no event preserve FlowInv.
LEMMA FlowFramed ==
    ASSUME FlowInv, UNCHANGED <<wire, queue, chan, given, hand, events>>
    PROVE  FlowInv'
BY DEF FlowInv, Sent, Later

\* Steps that hand no event over preserve DeliveryInv.
LEMMA DeliveryFramed ==
    ASSUME DeliveryInv, UNCHANGED <<given, hand, events>>,
           \A s \in Subs : task'[s] = "forwarding" => task[s] = "forwarding"
    PROVE  DeliveryInv'
BY DEF DeliveryInv

\* A message leaves the channel.
LEMMA FlowTaken ==
    ASSUME ClientOK, FlowInv, queue # <<>>, queue' = Tail(queue),
           UNCHANGED <<wire, chan, given, hand, events>>
    PROVE  FlowInv'
<1>1. queue \in Seq(Message)
  BY DEF ClientOK
<1>3. InOrder(queue)'
  BY <1>1, TailInOrder DEF FlowInv
<1>6. chan # 0 => Precedes(queue, wire[chan])'
  BY DEF FlowInv, Precedes
<1>7. QED
  BY <1>3, <1>6 DEF FlowInv, Sent, Later

\* A message that is no event enters the wire.
LEMMA FlowDelivered ==
    ASSUME WorkerOK, ClientOK, FlowInv, NEW g \in Sessions, NEW m \in Message, Deliver(g, m),
           m.kind # "event", UNCHANGED <<queue, chan, given, hand, events>>,
           \A i \in 1..Len(wire[g]) : Before(wire[g][i], m),
           chan = g => \A i \in 1..Len(queue) : Before(queue[i], m)
    PROVE  FlowInv'
<1>1. /\ \A h \in Sessions : h # g => wire'[h] = wire[h]
      /\ wire[g] \in Seq(Message) /\ wire'[g] = Append(wire[g], m)
  BY Delivered
<1>0. \A i \in 1..Len(wire'[g]) :
            (i \in 1..Len(wire[g]) /\ wire'[g][i] = wire[g][i]) \/ wire'[g][i] = m
  BY <1>1
<1>2. \A i \in 1..Len(wire'[g]) : wire'[g][i].kind = "event" =>
            i \in 1..Len(wire[g]) /\ wire'[g][i] = wire[g][i]
  BY <1>0
<1>3. InOrder(wire[g])' /\ Sent(wire[g])'
  <2>1. InOrder(wire[g]) /\ Sent(wire[g])
    BY DEF FlowInv
  <2>2. InOrder(wire'[g])
    BY <1>1, <2>1, AppendInOrder
  <2>3. QED
    BY <1>2, <2>1, <2>2 DEF Sent, InOrder
<1>4. \A h \in Sessions : InOrder(wire[h])' /\ Sent(wire[h])'
  BY <1>1, <1>3 DEF FlowInv, Sent
<1>5. chan # 0 => Precedes(queue, wire[chan])'
  <2>1. CASE chan = g
    <3>1. Precedes(queue, wire[g])
      BY <2>1, SessionRange DEF FlowInv
    <3>2. Precedes(queue, wire'[g])
      BY <1>0, <2>1, <3>1 DEF Precedes
    <3>3. QED
      BY <2>1, <3>2
  <2>2. CASE chan # g
    <3>1. chan # 0 => wire'[chan] = wire[chan]
      BY <1>1, <2>2, SessionRange DEF ClientOK
    <3>2. chan # 0 => Precedes(queue, wire[chan])
      BY DEF FlowInv
    <3>3. QED
      BY <3>1, <3>2
  <2>3. QED
    BY <2>1, <2>2
<1>6. ASSUME NEW s \in Subs, chan # 0 PROVE Later(s, wire[chan])'
  <2>1. Later(s, wire[chan])
    BY <1>6 DEF FlowInv
  <2>2. CASE chan = g
    <3>1. \A j \in 1..Len(wire'[g]) : wire'[g][j].kind = "event" =>
            /\ \A i \in 1..Len(given[s]) : given[s][i].id < wire'[g][j].id
            /\ hand[s].kind = "event" => hand[s].id < wire'[g][j].id
      BY <1>2, <2>1, <2>2 DEF Later
    <3>2. QED
      BY <2>2, <3>1 DEF Later
  <2>3. CASE chan # g
    <3>1. wire'[chan] = wire[chan]
      BY <1>1, <1>6, <2>3, SessionRange DEF ClientOK
    <3>2. QED
      BY <2>1, <3>1 DEF Later
  <2>4. QED
    BY <2>2, <2>3
<1>7. QED
  BY <1>4, <1>5, <1>6 DEF FlowInv, Sent, Later

\* The receiver takes a message off the wire.
LEMMA WireTaken ==
    ASSUME WorkerOK, FlowInv, NEW g \in Sessions, wire[g] # <<>>,
           wire' = [wire EXCEPT ![g] = Tail(@)], events' = events
    PROVE  /\ \A h \in Sessions : h # g => wire'[h] = wire[h]
           /\ \A h \in Sessions : InOrder(wire[h])' /\ Sent(wire[h])'
           /\ \A i \in 1..Len(wire'[g]) : \E j \in 1..Len(wire[g]) : wire'[g][i] = wire[g][j]
           /\ \A j \in 1..Len(wire'[g]) : Before(Head(wire[g]), wire'[g][j])
           /\ \E j \in 1..Len(wire[g]) : Head(wire[g]) = wire[g][j]
<1>1. /\ \A h \in Sessions : h # g => wire'[h] = wire[h]
      /\ wire[g] \in Seq(Message) /\ wire'[g] = Tail(wire[g])
  BY Consumed
<1>2. /\ Head(wire[g]) = wire[g][1] /\ 1 \in 1..Len(wire[g])
      /\ \A i \in 1..Len(Tail(wire[g])) :
            i + 1 \in 1..Len(wire[g]) /\ Tail(wire[g])[i] = wire[g][i + 1]
  BY TailIndex
<1>3. InOrder(wire[g])
  BY DEF FlowInv
<1>4. /\ InOrder(Tail(wire[g]))
      /\ \A j \in 1..Len(Tail(wire[g])) : Before(wire[g][1], Tail(wire[g])[j])
  BY <1>1, <1>3, TailInOrder
<1>6. Sent(wire[g])'
  BY DEF FlowInv, Sent
<1>7. \A h \in Sessions : h # g => InOrder(wire[h])' /\ Sent(wire[h])'
  BY DEF FlowInv, Sent
<1>8. \A i \in 1..Len(wire'[g]) : \E j \in 1..Len(wire[g]) : wire'[g][i] = wire[g][j]
  BY <1>2
<1>9. QED
  BY <1>1, <1>2, <1>4, <1>6, <1>7, <1>8

\* No step lets one event overtake another between the worker and a subscription.
LEMMA FlowStep ==
    TypeInv /\ SessionInv /\ RepliesSaid /\ FlowInv /\ DeliveryInv /\ [Next]_vars => FlowInv'
<1> SUFFICES ASSUME TypeInv, SessionInv, RepliesSaid, FlowInv, DeliveryInv, [Next]_vars
             PROVE  FlowInv'
  OBVIOUS
<1>0. ClientOK /\ CallsOK /\ TasksOK /\ WorkerOK /\ Wired /\ Carries
  BY DEF TypeInv, TypeOK
<1> USE <1>0, ConstantsOK
<1>1. ASSUME ConnectDial PROVE FlowInv'
  BY <1>1, FlowFramed DEF ConnectDial, tasks
<1>2. ASSUME ConnectInstall PROVE FlowInv'
  <2>1. sink \in Sessions /\ wire[sink] = <<>>
    BY <1>2, SessionRange DEF ConnectInstall, SessionInv, ClientOK, Wired
  <2>2. chan' = sink /\ queue' = <<>> /\ UNCHANGED <<wire, given, hand, events>>
    BY <1>2 DEF ConnectInstall, FreshChannel, tasks
  <2>3. QED
    BY <2>1, <2>2 DEF FlowInv, Sent, Later, Precedes
<1>3. ASSUME ConnectAwait PROVE FlowInv'
  BY <1>3, FlowFramed DEF ConnectAwait, tasks, worker
<1>4. ASSUME ConnectAnswer PROVE FlowInv'
  BY <1>4, FlowTaken DEF ConnectAnswer, tasks, worker
<1>5. ASSUME ConnectTimeout PROVE FlowInv'
  BY <1>5, FlowFramed DEF ConnectTimeout, tasks, worker
<1>6. ASSUME Disconnect PROVE FlowInv'
  BY <1>6, FlowFramed DEF Disconnect, tasks
<1>7. ASSUME Drop PROVE FlowInv'
  BY <1>7, FlowFramed DEF Drop, tasks, worker
<1>8. ASSUME NEW g \in Sessions, ReceiveHeartbeat(g) PROVE FlowInv'
  <2>1. /\ wire[g] # <<>> /\ wire' = [wire EXCEPT ![g] = Tail(@)]
        /\ UNCHANGED <<queue, chan, given, hand, events>>
    BY <1>8 DEF ReceiveHeartbeat, client, tasks
  <2>2. /\ \A h \in Sessions : h # g => wire'[h] = wire[h]
        /\ \A h \in Sessions : InOrder(wire[h])' /\ Sent(wire[h])'
        /\ \A i \in 1..Len(wire'[g]) : \E j \in 1..Len(wire[g]) : wire'[g][i] = wire[g][j]
    BY <2>1, WireTaken
  <2>3. chan # 0 => \A i \in 1..Len(wire'[chan]) :
            \E j \in 1..Len(wire[chan]) : wire'[chan][i] = wire[chan][j]
    BY <2>2, SessionRange DEF ClientOK
  <2>4. ASSUME chan # 0 PROVE Precedes(queue, wire[chan])'
    <3>1. \A j \in 1..Len(wire'[chan]) : \E k \in 1..Len(wire[chan]) : wire'[chan][j] = wire[chan][k]
      BY <2>3, <2>4
    <3>2. Precedes(queue, wire[chan])
      BY <2>4 DEF FlowInv
    <3>3. Precedes(queue, wire'[chan])
      BY <3>1, <3>2 DEF Precedes
    <3>4. QED
      BY <2>1, <3>3
  <2>6. QED
    BY <2>1, <2>2, <2>4 DEF FlowInv, Sent, Later
<1>9. ASSUME NEW g \in Sessions, ReceiveMessage(g) PROVE FlowInv'
  <2> DEFINE m == Head(wire[g])
  <2>1. /\ wire[g] # <<>> /\ wire' = [wire EXCEPT ![g] = Tail(@)]
        /\ chan = g /\ chan' = g /\ g # 0 /\ queue' = Append(queue, m)
        /\ UNCHANGED <<given, hand, events>>
    BY <1>9, SessionRange DEF ReceiveMessage, RxAlive, tasks
  <2>2. /\ \A h \in Sessions : InOrder(wire[h])' /\ Sent(wire[h])'
        /\ \A i \in 1..Len(wire'[g]) : \E j \in 1..Len(wire[g]) : wire'[g][i] = wire[g][j]
        /\ \A j \in 1..Len(wire'[g]) : Before(m, wire'[g][j])
        /\ \E j \in 1..Len(wire[g]) : m = wire[g][j]
    BY <2>1, WireTaken
  <2>3. m \in Message /\ queue \in Seq(Message)
    BY <2>1, Consumed DEF ClientOK
  <2> HIDE DEF m
  <2>4. PICK k \in 1..Len(wire[g]) : m = wire[g][k]
    BY <2>2
  <2>5. \A i \in 1..Len(queue) : Before(queue[i], m)
    BY <2>1, <2>4 DEF FlowInv, Precedes
  <2>6. InOrder(queue)
    BY DEF FlowInv
  <2>7. InOrder(Append(queue, m))
    BY <2>3, <2>5, <2>6, AppendInOrder
  <2>8. InOrder(queue)'
    BY <2>1, <2>7
  <2>9. \A i \in 1..Len(queue') :
            (i \in 1..Len(queue) /\ queue'[i] = queue[i]) \/ queue'[i] = m
    BY <2>1
  <2>10. Sent(queue)'
    BY <2>1, <2>4 DEF FlowInv, Sent
  <2>11. \A s \in Subs : Later(s, queue)'
    BY <2>1, <2>4 DEF FlowInv, Later
  <2>12. Precedes(queue', wire'[g])
    <3>1. Precedes(queue, wire[g])
      BY <2>1 DEF FlowInv
    <3>2. Precedes(queue, wire'[g])
      <4>1. \A j \in 1..Len(wire'[g]) : \E i \in 1..Len(wire[g]) : wire'[g][j] = wire[g][i]
        BY <2>2
      <4>2. QED
        BY <3>1, <4>1 DEF Precedes
    <3>3. \A j \in 1..Len(wire'[g]) : Before(m, wire'[g][j])
      BY <2>2
    <3>4. QED
      BY <2>9, <3>2, <3>3 DEF Precedes
  <2>13. ASSUME NEW s \in Subs PROVE Later(s, wire[chan])'
    <3>1. Later(s, wire[g])
      BY <2>1 DEF FlowInv
    <3>2. \A j \in 1..Len(wire'[g]) : wire'[g][j].kind = "event" =>
            /\ \A i \in 1..Len(given[s]) : given[s][i].id < wire'[g][j].id
            /\ hand[s].kind = "event" => hand[s].id < wire'[g][j].id
      BY <2>2, <3>1 DEF Later
    <3>3. QED
      BY <2>1, <3>2 DEF Later
  <2>14. Precedes(queue, wire[chan])'
    BY <2>1, <2>12
  <2>15. QED
    BY <2>2, <2>8, <2>10, <2>11, <2>13, <2>14 DEF FlowInv
<1>10. ASSUME NEW g \in Sessions, ReceiverDetached(g) PROVE FlowInv'
  BY <1>10, FlowFramed DEF ReceiverDetached, tasks
<1>11. ASSUME NEW g \in Sessions, ReceiverEnd(g) PROVE FlowInv'
  BY <1>11, FlowFramed DEF ReceiverEnd, tasks, worker
<1>12. ASSUME NEW g \in Sessions, WorkerGreets(g) PROVE FlowInv'
  <2>1. PICK m \in Message : Deliver(g, m) /\ m.kind \notin {"event", "reply"}
    BY <1>12, GreetsDeliver
  <2>2. UNCHANGED <<queue, chan, given, hand, events>>
    BY <1>12 DEF WorkerGreets, client, tasks
  <2>3. QED
    BY <2>1, <2>2, Unordered, FlowDelivered
<1>13. ASSUME NEW g \in Sessions, WorkerBeats(g) PROVE FlowInv'
  <2>1. PICK m \in Message : Deliver(g, m) /\ m.kind \notin {"event", "reply"}
    BY <1>13, BeatsDeliver
  <2>2. UNCHANGED <<queue, chan, given, hand, events>>
    BY <1>13 DEF WorkerBeats, client, tasks
  <2>3. QED
    BY <2>1, <2>2, Unordered, FlowDelivered
<1>14. ASSUME NEW g \in Sessions, LinkDrops(g) PROVE FlowInv'
  BY <1>14, FlowFramed DEF LinkDrops, client, tasks
<1>15. ASSUME NEW r \in Submits, SubmitRefused(r) PROVE FlowInv'
  BY <1>15, FlowFramed DEF SubmitRefused, client, tasks, worker
<1>16. ASSUME NEW r \in Submits, SubmitSend(r) PROVE FlowInv'
  BY <1>16, FlowFramed DEF SubmitSend, client, tasks
<1>17. ASSUME NEW r \in Submits, Deadline(r) PROVE FlowInv'
  BY <1>17, FlowFramed DEF Deadline, client, tasks, worker
<1>18. ASSUME NEW r \in Submits, SubmitPoll(r) PROVE FlowInv'
  BY <1>18, FlowFramed DEF SubmitPoll, tasks, worker
<1>19. ASSUME NEW r \in Submits, SubmitGiveUp(r) PROVE FlowInv'
  BY <1>19, FlowFramed DEF SubmitGiveUp, client, tasks, worker
<1>20. ASSUME NEW r \in Submits, SubmitRecv(r) PROVE FlowInv'
  BY <1>20, FlowTaken DEF SubmitRecv, tasks, worker
<1>21. ASSUME NEW r \in Submits, SubmitRecvTimeout(r) PROVE FlowInv'
  BY <1>21, FlowFramed DEF SubmitRecvTimeout, tasks, worker
<1>22. ASSUME NEW r \in Submits, WorkerReplies(r) PROVE FlowInv'
  <2>1. PICK m \in Message :
            /\ Deliver(taken[r], m)
            /\ m.kind = "reply" /\ m.to = r /\ m.nth = Len(said[r]) + 1
    BY <1>22, RepliesDeliver
  <2>2. taken[r] \in Sessions /\ UNCHANGED <<queue, chan, given, hand, events>>
    BY <1>22, RepliesDeliver DEF WorkerReplies, client, tasks
  <2>3. \A q \in Seq(Message) : Truthful(q) => \A i \in 1..Len(q) : Before(q[i], m)
    <3> SUFFICES ASSUME NEW q \in Seq(Message), Truthful(q), NEW i \in 1..Len(q),
                        q[i].kind = "reply", q[i].to = r
                 PROVE  q[i].nth < m.nth
      BY <2>1 DEF Before
    <3>1. q[i].nth \in 1..Len(said[r]) /\ Len(said[r]) \in Nat
      BY DEF Truthful, Genuine, GenuineAs, WorkerOK
    <3>2. QED
      BY <2>1, <3>1
  <2>4. /\ wire[taken[r]] \in Seq(Message) /\ Truthful(wire[taken[r]])
        /\ queue \in Seq(Message) /\ Truthful(queue)
    BY <2>2 DEF RepliesSaid, WorkerOK, ClientOK
  <2>5. QED
    BY <2>1, <2>2, <2>3, <2>4, FlowDelivered
<1>23. ASSUME NEW s \in Subs, SubscribeRefused(s) PROVE FlowInv'
  BY <1>23, FlowFramed DEF SubscribeRefused, client, worker
<1>24. ASSUME NEW s \in Subs, Subscribe(s) PROVE FlowInv'
  BY <1>24, FlowFramed DEF Subscribe, client
<1>25. ASSUME NEW s \in Subs, TaskPoll(s) PROVE FlowInv'
  BY <1>25, FlowFramed DEF TaskPoll, worker
<1>26. ASSUME NEW s \in Subs, TaskRecv(s) PROVE FlowInv'
  <2>1. /\ queue # <<>> /\ queue' = Tail(queue) /\ UNCHANGED <<wire, chan, given, events>>
    BY <1>26 DEF TaskRecv, worker
  <2>2. CASE hand' = hand
    BY <2>1, <2>2, FlowTaken
  <2>3. CASE OwnEvent(Head(queue), s) /\ hand' = [hand EXCEPT ![s] = Head(queue)]
    <3>1. queue \in Seq(Message) /\ hand \in [Subs -> Event \cup {NoEvent}]
      BY DEF ClientOK, TasksOK
    <3>3. hand'[s] = queue[1] /\ \A t \in Subs : t # s => hand'[t] = hand[t]
      BY <2>3, <3>1
    <3>4. InOrder(queue)
      BY DEF FlowInv
    <3>5. /\ InOrder(Tail(queue))
          /\ \A j \in 1..Len(Tail(queue)) :
                queue[1].kind = "event" /\ Tail(queue)[j].kind = "event" =>
                    queue[1].id < Tail(queue)[j].id
      BY <2>1, <3>1, <3>4, TailInOrder DEF Before
    <3>6. InOrder(queue)' /\ Sent(queue)'
      BY <2>1, <3>5 DEF FlowInv, Sent
    <3>7. ASSUME NEW t \in Subs PROVE Later(t, queue)'
      <4>1. Later(t, Tail(queue))
        BY DEF FlowInv, Later
      <4>2. CASE t = s
        BY <2>1, <3>3, <3>5, <4>1 DEF Later
      <4>3. CASE t # s
        BY <2>1, <3>3, <4>1, <4>3 DEF Later
      <4>4. QED
        BY <4>2, <4>3
    <3>8. chan # 0 => Precedes(queue, wire[chan])'
      BY <2>1 DEF FlowInv, Precedes
    <3>9. \A t \in Subs : chan # 0 => Later(t, wire[chan])'
      BY <2>1, <3>3 DEF FlowInv, Later, Precedes, Before
    <3>10. \A g \in Sessions : InOrder(wire[g])' /\ Sent(wire[g])'
      BY <2>1 DEF FlowInv, Sent
    <3>11. QED
      BY <2>1, <3>6, <3>7, <3>8, <3>9, <3>10 DEF FlowInv
  <2>4. QED
    BY <1>26, <2>2, <2>3 DEF TaskRecv
<1>27. ASSUME NEW s \in Subs, TaskClosed(s) PROVE FlowInv'
  BY <1>27, FlowFramed DEF TaskClosed, worker
<1>28. ASSUME NEW s \in Subs, TaskForward(s) PROVE FlowInv'
  <2>1. /\ given' = [given EXCEPT ![s] = Append(@, hand[s])]
        /\ UNCHANGED <<wire, queue, chan, hand, events>>
    BY <1>28 DEF TaskForward, client, worker
  <2>2. hand[s] \in Event /\ hand[s].kind = "event"
    BY <1>28, EventIds DEF TaskForward, Carries
  <2>6. \A t \in Subs : Later(t, queue)'
    BY <2>1, <2>2 DEF FlowInv, Later
  <2>7. \A t \in Subs : chan # 0 => Later(t, wire[chan])'
    BY <2>1, <2>2 DEF FlowInv, Later
  <2>8. QED
    BY <2>1, <2>6, <2>7 DEF FlowInv, Sent
<1>29. ASSUME NEW s \in Subs, TaskAbandoned(s) PROVE FlowInv'
  BY <1>29, FlowFramed DEF TaskAbandoned, client, worker
<1>30. ASSUME NEW s \in Subs, AppRead(s) PROVE FlowInv'
  BY <1>30, FlowFramed DEF AppRead, client, worker
<1>31. ASSUME NEW s \in Subs, AppDrop(s) PROVE FlowInv'
  BY <1>31, FlowFramed DEF AppDrop, client, worker
<1>32. ASSUME WorkerStreams PROVE FlowInv'
  <2>1. PICK x \in streaming : \E m \in Message :
            /\ x[1] \in Sessions /\ Deliver(x[1], m)
            /\ m.kind = "event" /\ m.id = events + 1 /\ events' = events + 1
    BY <1>32, StreamsDeliver
  <2> DEFINE g == x[1]
  <2>2. PICK m \in Message : Deliver(g, m) /\ m.kind = "event" /\ m.id = events + 1
    BY <2>1
  <2>3. g \in Sessions /\ events \in Nat /\ events' = events + 1
    BY <2>1 DEF WorkerOK
  <2> HIDE DEF g
  <2>4. UNCHANGED <<queue, chan, given, hand>>
    BY <1>32 DEF WorkerStreams, client, tasks
  <2>5. /\ \A h \in Sessions : h # g => wire'[h] = wire[h]
        /\ wire[g] \in Seq(Message) /\ wire'[g] = Append(wire[g], m)
    BY <2>2, <2>3, Delivered
  <2>6. \A i \in 1..Len(wire'[g]) :
            (i \in 1..Len(wire[g]) /\ wire'[g][i] = wire[g][i]) \/ wire'[g][i] = m
    BY <2>5
  <2>7. \A q \in Seq(Message) : Sent(q) =>
            \A i \in 1..Len(q) : q[i].kind = "event" => q[i].id <= events' /\ q[i].id < m.id
    BY <2>2, <2>3, EventIds DEF Sent
  <2>8. /\ \A h \in Sessions : wire[h] \in Seq(Message) /\ Sent(wire[h]) /\ InOrder(wire[h])
        /\ queue \in Seq(Message) /\ Sent(queue)
    BY DEF WorkerOK, ClientOK, FlowInv
  <2>9. /\ InOrder(Append(wire[g], m))
        /\ \A q \in Seq(Message) : Sent(q) => \A i \in 1..Len(q) : Before(q[i], m)
    <3>1. \A q \in Seq(Message) : Sent(q) => \A i \in 1..Len(q) : Before(q[i], m)
      BY <2>2, <2>7 DEF Before
    <3>2. QED
      BY <2>3, <2>8, <3>1, AppendInOrder
  <2>10. InOrder(wire[g])' /\ Sent(wire[g])'
    <3>1. InOrder(wire[g])'
      BY <2>5, <2>9
    <3>2. m.id <= events'
      BY <2>2, <2>3
    <3>3. \A i \in 1..Len(wire[g]) : wire[g][i].kind = "event" => wire[g][i].id <= events'
      BY <2>3, <2>7, <2>8
    <3>4. Sent(wire[g])'
      BY <2>6, <3>2, <3>3 DEF Sent
    <3>5. QED
      BY <3>1, <3>4
  <2>11. \A h \in Sessions : h # g => InOrder(wire[h])' /\ Sent(wire[h])'
    BY <2>5, <2>7, <2>8 DEF Sent
  <2>12. InOrder(queue)' /\ Sent(queue)'
    BY <2>4, <2>7, <2>8 DEF FlowInv, Sent
  <2>13. chan # 0 => Precedes(queue, wire[chan])'
    <3>1. CASE chan = g
      <4>1. Precedes(queue, wire[g])
        BY <2>3, <3>1, SessionRange DEF FlowInv
      <4>2. Precedes(queue, wire'[g])
        BY <2>6, <2>8, <2>9, <4>1 DEF Precedes
      <4>3. QED
        BY <2>4, <3>1, <4>2
    <3>2. CASE chan # g
      BY <2>4, <2>5, <3>2, SessionRange DEF FlowInv, ClientOK
    <3>3. QED
      BY <3>1, <3>2
  <2>14. ASSUME NEW s \in Subs, chan # 0 PROVE Later(s, wire[chan])'
    <3>1. CASE chan = g
      <4>1. /\ \A i \in 1..Len(given[s]) : given[s][i] \in Event /\ given[s][i].id <= events
            /\ hand[s].kind = "event" => hand[s] \in Event /\ hand[s].id <= events
        BY DEF DeliveryInv, TasksOK, NoEvent
      <4>2. /\ \A i \in 1..Len(given[s]) : given[s][i].id < m.id
            /\ hand[s].kind = "event" => hand[s].id < m.id
        BY <2>2, <2>3, <4>1, EventIds
      <4>3. Later(s, wire[g])
        BY <2>14, <3>1 DEF FlowInv
      <4>4. \A j \in 1..Len(wire'[g]) : wire'[g][j].kind = "event" =>
                /\ \A i \in 1..Len(given[s]) : given[s][i].id < wire'[g][j].id
                /\ hand[s].kind = "event" => hand[s].id < wire'[g][j].id
        BY <2>6, <4>2, <4>3 DEF Later
      <4>5. QED
        BY <2>4, <3>1, <4>4 DEF Later
    <3>2. CASE chan # g
      BY <2>4, <2>5, <2>14, <3>2, SessionRange DEF FlowInv, Later, ClientOK
    <3>3. QED
      BY <3>1, <3>2
  <2>15. \A s \in Subs : Later(s, queue)'
    BY <2>4 DEF FlowInv, Later
  <2>16. QED
    BY <2>4, <2>10, <2>11, <2>12, <2>13, <2>14, <2>15 DEF FlowInv
<1>33. CASE UNCHANGED vars
  BY <1>33, FlowFramed DEF vars, client, tasks, worker
<1>34. QED
  BY <1>1, <1>2, <1>3, <1>4, <1>5, <1>6, <1>7, <1>8, <1>9, <1>10, <1>11, <1>12, <1>13, <1>14,
      <1>15, <1>16, <1>17, <1>18, <1>19, <1>20, <1>21, <1>22, <1>23, <1>24, <1>25, <1>26,
      <1>27, <1>28, <1>29, <1>30, <1>31, <1>32, <1>33 DEF Next, ConnectStep, ReceiverStep,
      SubmitStep, TaskStep

\* No step gives a task an event of another stream or an older one.
LEMMA DeliveryStep ==
    TypeInv /\ FlowInv /\ DeliveryInv /\ [Next]_vars => DeliveryInv'
<1> SUFFICES ASSUME TypeInv, FlowInv, DeliveryInv, [Next]_vars PROVE DeliveryInv'
  OBVIOUS
<1>0. ClientOK /\ CallsOK /\ TasksOK /\ WorkerOK /\ Wired /\ Carries
  BY DEF TypeInv, TypeOK
<1> USE <1>0, ConstantsOK
<1>1. ASSUME ConnectDial PROVE DeliveryInv'
  BY <1>1, DeliveryFramed DEF ConnectDial, tasks
<1>2. ASSUME ConnectInstall PROVE DeliveryInv'
  BY <1>2, DeliveryFramed DEF ConnectInstall, tasks
<1>3. ASSUME ConnectAwait PROVE DeliveryInv'
  BY <1>3, DeliveryFramed DEF ConnectAwait, tasks, worker
<1>4. ASSUME ConnectAnswer PROVE DeliveryInv'
  BY <1>4, DeliveryFramed DEF ConnectAnswer, tasks, worker
<1>5. ASSUME ConnectTimeout PROVE DeliveryInv'
  BY <1>5, DeliveryFramed DEF ConnectTimeout, tasks, worker
<1>6. ASSUME Disconnect PROVE DeliveryInv'
  BY <1>6, DeliveryFramed DEF Disconnect, tasks
<1>7. ASSUME Drop PROVE DeliveryInv'
  BY <1>7, DeliveryFramed DEF Drop, tasks, worker
<1>8. ASSUME NEW g \in Sessions, ReceiveHeartbeat(g) PROVE DeliveryInv'
  BY <1>8, DeliveryFramed DEF ReceiveHeartbeat, tasks
<1>9. ASSUME NEW g \in Sessions, ReceiveMessage(g) PROVE DeliveryInv'
  BY <1>9, DeliveryFramed DEF ReceiveMessage, tasks
<1>10. ASSUME NEW g \in Sessions, ReceiverDetached(g) PROVE DeliveryInv'
  BY <1>10, DeliveryFramed DEF ReceiverDetached, tasks
<1>11. ASSUME NEW g \in Sessions, ReceiverEnd(g) PROVE DeliveryInv'
  BY <1>11, DeliveryFramed DEF ReceiverEnd, tasks, worker
<1>12. ASSUME NEW g \in Sessions, WorkerGreets(g) PROVE DeliveryInv'
  BY <1>12, DeliveryFramed DEF WorkerGreets, tasks
<1>13. ASSUME NEW g \in Sessions, WorkerBeats(g) PROVE DeliveryInv'
  BY <1>13, DeliveryFramed DEF WorkerBeats, tasks
<1>14. ASSUME NEW g \in Sessions, LinkDrops(g) PROVE DeliveryInv'
  BY <1>14, DeliveryFramed DEF LinkDrops, tasks
<1>15. ASSUME NEW r \in Submits, SubmitRefused(r) PROVE DeliveryInv'
  BY <1>15, DeliveryFramed DEF SubmitRefused, tasks, worker
<1>16. ASSUME NEW r \in Submits, SubmitSend(r) PROVE DeliveryInv'
  BY <1>16, DeliveryFramed DEF SubmitSend, tasks
<1>17. ASSUME NEW r \in Submits, Deadline(r) PROVE DeliveryInv'
  BY <1>17, DeliveryFramed DEF Deadline, tasks, worker
<1>18. ASSUME NEW r \in Submits, SubmitPoll(r) PROVE DeliveryInv'
  BY <1>18, DeliveryFramed DEF SubmitPoll, tasks, worker
<1>19. ASSUME NEW r \in Submits, SubmitGiveUp(r) PROVE DeliveryInv'
  BY <1>19, DeliveryFramed DEF SubmitGiveUp, tasks, worker
<1>20. ASSUME NEW r \in Submits, SubmitRecv(r) PROVE DeliveryInv'
  BY <1>20, DeliveryFramed DEF SubmitRecv, tasks, worker
<1>21. ASSUME NEW r \in Submits, SubmitRecvTimeout(r) PROVE DeliveryInv'
  BY <1>21, DeliveryFramed DEF SubmitRecvTimeout, tasks, worker
<1>22. ASSUME NEW r \in Submits, WorkerReplies(r) PROVE DeliveryInv'
  BY <1>22, DeliveryFramed DEF WorkerReplies, tasks
<1>23. ASSUME NEW s \in Subs, SubscribeRefused(s) PROVE DeliveryInv'
  BY <1>23, DeliveryFramed DEF SubscribeRefused, worker
<1>24. ASSUME NEW s \in Subs, Subscribe(s) PROVE DeliveryInv'
  BY <1>24, DeliveryFramed DEF Subscribe
<1>25. ASSUME NEW s \in Subs, TaskPoll(s) PROVE DeliveryInv'
  BY <1>25, DeliveryFramed DEF TaskPoll, worker
<1>26. ASSUME NEW s \in Subs, TaskRecv(s) PROVE DeliveryInv'
  <2>1. UNCHANGED <<given, events>> /\ queue # <<>>
    BY <1>26 DEF TaskRecv, worker
  <2>2. CASE ~OwnEvent(Head(queue), s)
    <3>1. hand' = hand /\ task' = [task EXCEPT ![s] = "looping"]
      BY <1>26, <2>2 DEF TaskRecv
    <3>3. QED
      BY <2>1, <3>1, DeliveryFramed
  <2>3. CASE OwnEvent(Head(queue), s)
    <3>1. hand' = [hand EXCEPT ![s] = Head(queue)] /\ task' = [task EXCEPT ![s] = "forwarding"]
      BY <1>26, <2>3 DEF TaskRecv
    <3>3. Head(queue) = queue[1] /\ 1 \in 1..Len(queue)
      BY <2>1
    <3>4. hand'[s] = queue[1] /\ \A t \in Subs : t # s => hand'[t] = hand[t] /\ task'[t] = task[t]
      BY <3>1 DEF TasksOK
    <3>5. /\ queue[1].to = StreamOf[s] /\ queue[1].kind = "event" /\ queue[1].id <= events
          /\ \A i \in 1..Len(given[s]) : given[s][i].id < queue[1].id
      BY <2>3, <3>3 DEF OwnEvent, FlowInv, Sent, Later
    <3>6. QED
      BY <2>1, <3>4, <3>5 DEF DeliveryInv
  <2>4. QED
    BY <2>2, <2>3
<1>27. ASSUME NEW s \in Subs, TaskClosed(s) PROVE DeliveryInv'
  BY <1>27, DeliveryFramed DEF TaskClosed, worker
<1>28. ASSUME NEW s \in Subs, TaskForward(s) PROVE DeliveryInv'
  <2>1. /\ given' = [given EXCEPT ![s] = Append(@, hand[s])] /\ task' = [task EXCEPT ![s] = "looping"]
        /\ UNCHANGED <<hand, events>>
    BY <1>28 DEF TaskForward, worker
  <2>2. hand[s] \in Event /\ hand[s].id <= events
    BY <1>28, EventIds DEF TaskForward, Carries, DeliveryInv
  <2>3. given \in [Subs -> Seq(Event)] /\ task \in [Subs -> TaskState]
    BY DEF TasksOK
  <2>5. task'[s] = "looping" /\ \A t \in Subs : t # s => given'[t] = given[t] /\ task'[t] = task[t]
    BY <2>1, <2>3
  <2>6. QED
    BY <2>1, <2>2, <2>5 DEF DeliveryInv
<1>29. ASSUME NEW s \in Subs, TaskAbandoned(s) PROVE DeliveryInv'
  BY <1>29, DeliveryFramed DEF TaskAbandoned, worker
<1>30. ASSUME NEW s \in Subs, AppRead(s) PROVE DeliveryInv'
  BY <1>30, DeliveryFramed DEF AppRead, worker
<1>31. ASSUME NEW s \in Subs, AppDrop(s) PROVE DeliveryInv'
  BY <1>31, DeliveryFramed DEF AppDrop, worker
<1>32. ASSUME WorkerStreams PROVE DeliveryInv'
  <2>1. events' = events + 1 /\ UNCHANGED <<given, hand, task>>
    BY <1>32 DEF WorkerStreams, tasks
  <2>2. events \in Nat
    BY DEF WorkerOK
  <2>3. ASSUME NEW s \in Subs
        PROVE  /\ \A i \in 1..Len(given[s]) : given[s][i].id <= events'
               /\ hand[s].kind = "event" => hand[s].id <= events'
    <3>1. /\ \A i \in 1..Len(given[s]) : given[s][i] \in Event /\ given[s][i].id <= events
          /\ hand[s].kind = "event" => hand[s] \in Event /\ hand[s].id <= events
      BY DEF DeliveryInv, TasksOK, NoEvent
    <3>2. QED
      BY <2>1, <2>2, <3>1, EventIds
  <2>4. QED
    BY <2>1, <2>3 DEF DeliveryInv
<1>33. CASE UNCHANGED vars
  BY <1>33, DeliveryFramed DEF vars, tasks, worker
<1>34. QED
  BY <1>1, <1>2, <1>3, <1>4, <1>5, <1>6, <1>7, <1>8, <1>9, <1>10, <1>11, <1>12, <1>13, <1>14,
      <1>15, <1>16, <1>17, <1>18, <1>19, <1>20, <1>21, <1>22, <1>23, <1>24, <1>25, <1>26,
      <1>27, <1>28, <1>29, <1>30, <1>31, <1>32, <1>33 DEF Next, ConnectStep, ReceiverStep,
      SubmitStep, TaskStep

\* No step disturbs the order of what a subscription has received.
LEMMA OrderStep ==
    TypeInv /\ DeliveryInv /\ StreamsInOrder /\ [Next]_vars => StreamsInOrder'
<1> SUFFICES ASSUME TypeInv, DeliveryInv, StreamsInOrder, [Next]_vars PROVE StreamsInOrder'
  OBVIOUS
<1>0. TasksOK /\ Carries
  BY DEF TypeInv, TypeOK
<1>1. ASSUME NEW s \in Subs, TaskForward(s) PROVE StreamsInOrder'
  <2>1. given' = [given EXCEPT ![s] = Append(@, hand[s])] /\ task[s] = "forwarding"
    BY <1>1 DEF TaskForward
  <2>2. given[s] \in Seq(Event) /\ given \in [Subs -> Seq(Event)] /\ hand[s] \in Event
    BY <1>0, <2>1 DEF TasksOK, Carries
  <2>3. given'[s] = Append(given[s], hand[s])
    BY <2>1, <2>2
  <2>4. \A t \in Subs : t # s => given'[t] = given[t]
    BY <2>1
  <2>5. /\ hand[s].to = StreamOf[s]
        /\ \A i \in 1..Len(given[s]) : given[s][i].id < hand[s].id
    BY <2>1 DEF DeliveryInv
  <2>6. \A i \in 1..Len(given'[s]) :
            \/ i \in 1..Len(given[s]) /\ given'[s][i] = given[s][i]
            \/ i = Len(given[s]) + 1 /\ given'[s][i] = hand[s]
    BY <2>3
  <2>7. \A i \in 1..Len(given'[s]) : given'[s][i].to = StreamOf[s]
    BY <2>5, <2>6 DEF StreamsInOrder
  <2>8. ASSUME NEW i \in 1..Len(given'[s]), NEW j \in 1..Len(given'[s]), i < j
        PROVE  given'[s][i].id < given'[s][j].id
    <3>1. i \in 1..Len(given[s]) /\ given'[s][i] = given[s][i]
      BY <2>3, <2>8
    <3>2. CASE j \in 1..Len(given[s]) /\ given'[s][j] = given[s][j]
      BY <2>8, <3>1, <3>2 DEF StreamsInOrder
    <3>3. CASE given'[s][j] = hand[s]
      BY <2>5, <3>1, <3>3
    <3>4. QED
      BY <2>6, <3>2, <3>3
  <2>9. QED
    BY <2>4, <2>7, <2>8 DEF StreamsInOrder
<1>2. ASSUME \A s \in Subs : ~TaskForward(s) PROVE StreamsInOrder'
  <2>1. given' = given
    BY <1>2 DEF Next, ConnectDial, ConnectStep, ConnectInstall, ConnectAwait, ConnectAnswer,
        ConnectTimeout, Disconnect, Drop, ReceiverStep, ReceiveHeartbeat, ReceiveMessage,
        ReceiverDetached, ReceiverEnd, WorkerGreets, WorkerBeats, LinkDrops, SubmitStep,
        SubmitRefused, SubmitSend, Deadline, SubmitPoll, SubmitGiveUp, SubmitRecv,
        SubmitRecvTimeout, WorkerReplies, SubscribeRefused, Subscribe, TaskStep, TaskPoll,
        TaskRecv, TaskClosed, TaskAbandoned, AppRead, AppDrop, WorkerStreams, vars, tasks
  <2>2. QED
    BY <2>1 DEF StreamsInOrder
<1>3. QED
  BY <1>1, <1>2

\* A subscription receives events of its own stream only, in the order the
\* worker sent them, each at most once.
THEOREM OrderedStreams == Spec => []StreamsInOrder
<1>1. Init => SessionInv /\ Asked /\ RepliesSaid /\ FlowInv /\ DeliveryInv /\ StreamsInOrder
  BY DEF Init, SessionInv, Asked, RepliesSaid, Truthful, FlowInv, DeliveryInv, StreamsInOrder,
         InOrder, Sent, Later, NoEvent
<1>2. QED
  BY <1>1, Typing, SessionStep, AskedStep, RepliesStep, FlowStep, DeliveryStep, OrderStep, PTL
     DEF Spec

-----------------------------------------------------------------------------
(* Submissions implement RequestReply.                                      *)

\* The number of a message as a reply to r, if it is one.
Number(m, r) == IF m.kind = "reply" /\ m.to = r THEN {m.nth} ELSE {}

\* The replies of a sequence, one by one.
LEMMA RepliesIndex ==
    \A q, r, n : n \in RepliesTo(q, r) <=>
        \E i \in 1..Len(q) : q[i].kind = "reply" /\ q[i].to = r /\ q[i].nth = n
BY DEF RepliesTo

\* Replies are numbered.
LEMMA RepliesNumbered ==
    ASSUME NEW q \in Seq(Message), NEW r
    PROVE  RepliesTo(q, r) \subseteq Nat
<1> SUFFICES ASSUME NEW i \in 1..Len(q), q[i].kind = "reply" PROVE q[i].nth \in Nat
  BY RepliesIndex
<1>1. q[i] \in Message
  OBVIOUS
<1>2. QED
  BY <1>1, Kinds DEF Reply

\* The replies of a sequence are its first message, if that is one, and those of
\* the rest; those of an extended sequence are the old ones and the new one.
LEMMA RepliesOfTail ==
    ASSUME NEW q \in Seq(Message), q # <<>>, NEW r
    PROVE  RepliesTo(q, r) = Number(q[1], r) \cup RepliesTo(Tail(q), r)
<1> DEFINE t == Tail(q)
<1>1. /\ 1 \in 1..Len(q) /\ Len(t) = Len(q) - 1 /\ Len(q) \in Nat
      /\ \A i \in 1..Len(t) : i + 1 \in 1..Len(q) /\ t[i] = q[i + 1]
  BY TailIndex
<1> HIDE DEF t
<1>2. ASSUME NEW n \in RepliesTo(q, r) PROVE n \in Number(q[1], r) \cup RepliesTo(t, r)
  <2>1. PICK i \in 1..Len(q) : q[i].kind = "reply" /\ q[i].to = r /\ q[i].nth = n
    BY <1>2, RepliesIndex
  <2>2. CASE i = 1
    BY <2>1, <2>2 DEF Number
  <2>3. CASE i # 1
    <3>1. i - 1 \in 1..Len(t) /\ (i - 1) + 1 = i
      BY <1>1, <2>3
    <3>2. t[i - 1] = q[i]
      BY <1>1, <3>1
    <3>3. n \in RepliesTo(t, r)
      BY <2>1, <3>1, <3>2 DEF RepliesTo
    <3>4. QED
      BY <3>3
  <2>4. QED
    BY <2>2, <2>3
<1>3. Number(q[1], r) \subseteq RepliesTo(q, r)
  BY <1>1 DEF Number, RepliesTo
<1>4. ASSUME NEW n \in RepliesTo(t, r) PROVE n \in RepliesTo(q, r)
  <2>1. PICK i \in 1..Len(t) : t[i].kind = "reply" /\ t[i].to = r /\ t[i].nth = n
    BY <1>4, RepliesIndex
  <2>2. i + 1 \in 1..Len(q) /\ t[i] = q[i + 1]
    BY <1>1
  <2>3. QED
    BY <2>1, <2>2 DEF RepliesTo
<1>5. QED
  BY <1>2, <1>3, <1>4 DEF t

LEMMA RepliesOfAppend ==
    ASSUME NEW q \in Seq(Message), NEW m \in Message, NEW r
    PROVE  RepliesTo(Append(q, m), r) = RepliesTo(q, r) \cup Number(m, r)
<1> DEFINE a == Append(q, m)
<1>1. /\ \A i \in 1..Len(q) : i \in 1..Len(a) /\ a[i] = q[i]
      /\ Len(q) + 1 \in 1..Len(a) /\ a[Len(q) + 1] = m
      /\ \A i \in 1..Len(a) : i \in 1..Len(q) \/ i = Len(q) + 1
  OBVIOUS
<1> HIDE DEF a
<1>2. ASSUME NEW n \in RepliesTo(a, r) PROVE n \in RepliesTo(q, r) \cup Number(m, r)
  <2>1. PICK i \in 1..Len(a) : a[i].kind = "reply" /\ a[i].to = r /\ a[i].nth = n
    BY <1>2, RepliesIndex
  <2>2. CASE i \in 1..Len(q)
    BY <1>1, <2>1, <2>2 DEF RepliesTo
  <2>3. CASE i = Len(q) + 1
    BY <1>1, <2>1, <2>3 DEF Number
  <2>4. QED
    BY <1>1, <2>2, <2>3
<1>3. ASSUME NEW n \in RepliesTo(q, r) PROVE n \in RepliesTo(a, r)
  <2>1. PICK i \in 1..Len(q) : q[i].kind = "reply" /\ q[i].to = r /\ q[i].nth = n
    BY <1>3, RepliesIndex
  <2>2. i \in 1..Len(a) /\ a[i] = q[i]
    BY <1>1
  <2>3. QED
    BY <2>1, <2>2 DEF RepliesTo
<1>4. Number(m, r) \subseteq RepliesTo(a, r)
  BY <1>1 DEF Number, RepliesTo
<1>5. QED
  BY <1>2, <1>3, <1>4 DEF a

\* A step of which a caller sees at most that replies are lost.
LEMMA LossIsPromised ==
    ASSUME TypeInv, TypeInv', UNCHANGED <<status, said>>,
           \A r \in Submits : Stage(r)' = Stage(r) /\ Coming(r)' \subseteq Coming(r)
    PROVE  Exchange!Lose
<1>1. \A r \in Submits : Coming(r)' \in SUBSET Nat
  <2> SUFFICES ASSUME NEW r \in Submits PROVE Coming(r)' \subseteq Nat
    OBVIOUS
  <2>1. queue' \in Seq(Message) /\ \A g \in Sessions : wire'[g] \in Seq(Message)
    BY DEF TypeInv, TypeOK, ClientOK, WorkerOK
  <2>2. RepliesTo(queue', r) \subseteq Nat /\ \A g \in Sessions : RepliesTo(wire'[g], r) \subseteq Nat
    BY <2>1, RepliesNumbered
  <2>3. QED
    BY <2>2 DEF Coming
<1>2. [r \in Submits |-> Coming(r)'] \in [Submits -> SUBSET Nat]
  BY <1>1
<1>3. [r \in Submits |-> Stage(r)'] = [r \in Submits |-> Stage(r)]
  OBVIOUS
<1>4. QED
  BY <1>2, <1>3 DEF Exchange!Lose

\* Messages move: off the channel, off a wire, from a wire into the channel, or
\* one that is no reply onto a wire.  No reply comes twice.
LEMMA TakenFromQueue ==
    ASSUME TypeInv, queue # <<>>, queue' = Tail(queue), wire' = wire, NEW r \in Submits
    PROVE  Coming(r) = Number(Head(queue), r) \cup Coming(r)'
<1>1. queue \in Seq(Message) /\ Head(queue) = queue[1]
  BY DEF TypeInv, TypeOK, ClientOK
<1>2. RepliesTo(queue, r) = Number(Head(queue), r) \cup RepliesTo(queue', r)
  BY <1>1, RepliesOfTail
<1>3. QED
  BY <1>2 DEF Coming

LEMMA TakenFromWire ==
    ASSUME TypeInv, NEW g \in Sessions, wire[g] # <<>>, wire' = [wire EXCEPT ![g] = Tail(@)],
           queue' = queue \/ queue' = Append(queue, Head(wire[g])), NEW r \in Submits
    PROVE  Coming(r)' \subseteq Coming(r)
<1>1. /\ wire[g] \in Seq(Message) /\ queue \in Seq(Message) /\ wire'[g] = Tail(wire[g])
      /\ \A h \in Sessions : h # g => wire'[h] = wire[h]
      /\ Head(wire[g]) = wire[g][1] /\ Head(wire[g]) \in Message
  BY Consumed DEF TypeInv, TypeOK, ClientOK
<1>2. RepliesTo(wire[g], r) = Number(Head(wire[g]), r) \cup RepliesTo(wire'[g], r)
  BY <1>1, RepliesOfTail
<1>3. RepliesTo(queue', r) \subseteq RepliesTo(queue, r) \cup Number(Head(wire[g]), r)
  BY <1>1, RepliesOfAppend
<1>4. \A h \in Sessions : RepliesTo(wire'[h], r) \subseteq RepliesTo(wire[h], r)
  BY <1>1, <1>2
<1>5. QED
  BY <1>2, <1>3, <1>4 DEF Coming

LEMMA PutOnWire ==
    ASSUME TypeInv, NEW g \in Sessions, NEW m \in Message, Deliver(g, m), queue' = queue,
           NEW r \in Submits
    PROVE  Coming(r)' = Coming(r) \cup Number(m, r)
<1>1. /\ wire[g] \in Seq(Message) /\ wire'[g] = Append(wire[g], m)
      /\ \A h \in Sessions : h # g => wire'[h] = wire[h]
  BY Delivered DEF TypeInv, TypeOK
<1>2. RepliesTo(wire'[g], r) = RepliesTo(wire[g], r) \cup Number(m, r)
  BY <1>1, RepliesOfAppend
<1>3. \A h \in Sessions : h # g => RepliesTo(wire'[h], r) = RepliesTo(wire[h], r)
  BY <1>1
<1>4. QED
  BY <1>2, <1>3 DEF Coming

\* What is known of the replies on their way.
ReplyInv == TypeInv /\ Provenance /\ Asked /\ RepliesSaid /\ FlowInv

\* The reply to r at the head of the channel is the oldest on its way to r.
LEMMA HeadIsOldest ==
    ASSUME ReplyInv, NEW r \in Submits, queue # <<>>, OwnReply(Head(queue), r)
    PROVE  /\ Head(queue).nth \in Nat
           /\ \A k \in RepliesTo(Tail(queue), r) : k \in Nat /\ Head(queue).nth < k
           /\ \A g \in Sessions : \A k \in RepliesTo(wire[g], r) : k \in Nat /\ Head(queue).nth < k
<1> DEFINE m == Head(queue)
<1>1. /\ queue \in Seq(Message) /\ m = queue[1] /\ 1 \in 1..Len(queue) /\ m \in Message
      /\ \A g \in Sessions : wire[g] \in Seq(Message)
  BY TailIndex DEF ReplyInv, TypeInv, TypeOK, ClientOK, WorkerOK
<1> HIDE DEF m
<1>2. m.kind = "reply" /\ m.to = r
  BY DEF OwnReply, m
<1>3. m.nth \in Nat /\ m.via \in Sessions
  BY <1>1, <1>2, Kinds DEF Reply
<1>4. m.via = taken[r] /\ m.via = chan
  BY <1>1, <1>2 DEF ReplyInv, RepliesSaid, Truthful, Genuine, GenuineAs, Provenance, OnlyThisSession
<1>5. ASSUME NEW k \in RepliesTo(Tail(queue), r) PROVE k \in Nat /\ m.nth < k
  <2>1. PICK i \in 1..Len(Tail(queue)) :
            Tail(queue)[i].kind = "reply" /\ Tail(queue)[i].to = r /\ Tail(queue)[i].nth = k
    BY <1>5 DEF RepliesTo
  <2>2. InOrder(queue)
    BY DEF ReplyInv, FlowInv
  <2>3. Before(m, Tail(queue)[i])
    BY <1>1, <2>2, TailInOrder
  <2>4. k \in Nat
    <3>1. Tail(queue) \in Seq(Message)
      BY <1>1, TailIndex
    <3>2. QED
      BY <1>5, <3>1, RepliesNumbered
  <2>5. QED
    BY <1>2, <2>1, <2>3, <2>4 DEF Before
<1>6. ASSUME NEW g \in Sessions, NEW k \in RepliesTo(wire[g], r) PROVE k \in Nat /\ m.nth < k
  <2>1. PICK i \in 1..Len(wire[g]) :
            wire[g][i].kind = "reply" /\ wire[g][i].to = r /\ wire[g][i].nth = k
    BY <1>6, RepliesIndex
  <2>2. wire[g][i].via = taken[r] /\ wire[g][i].via = g
    BY <2>1 DEF ReplyInv, RepliesSaid, Truthful, Genuine, GenuineAs, Provenance
  <2>3. g = chan /\ chan # 0
    BY <1>3, <1>4, <2>2, SessionRange
  <2>4. Precedes(queue, wire[g])
    BY <2>3 DEF ReplyInv, FlowInv
  <2>5. Before(m, wire[g][i])
    BY <1>1, <2>4 DEF Precedes
  <2>6. k \in Nat
    BY <1>1, RepliesNumbered
  <2>7. QED
    BY <1>2, <2>1, <2>5, <2>6 DEF Before
<1>7. QED
  BY <1>3, <1>5, <1>6 DEF m

\* A call that takes a reply of its own takes the oldest.
LEMMA TakeIsPromised ==
    ASSUME ReplyInv, NEW r \in Submits, SubmitRecv(r), OwnReply(Head(queue), r)
    PROVE  Exchange!Take(r)
<1> DEFINE m == Head(queue)
           n == m.nth
<1>1. /\ queue # <<>> /\ queue' = Tail(queue) /\ wire' = wire /\ said' = said
      /\ status' = [status EXCEPT ![r] = StatusAfter(@, m.says)]
      /\ call' = [call EXCEPT ![r] = IF m.says \in Final THEN "returned" ELSE "looping"]
      /\ call[r] = "waiting" /\ call \in [Submits -> CallState]
  BY DEF SubmitRecv, worker, ReplyInv, TypeInv, TypeOK, CallsOK
<1>2. m.kind = "reply" /\ m.to = r
  BY DEF OwnReply
<1>3. said[r][n] = m.says
  <2>1. m = queue[1] /\ 1 \in 1..Len(queue)
    BY <1>1 DEF ReplyInv, TypeInv, TypeOK, ClientOK
  <2>2. QED
    BY <1>2, <2>1 DEF ReplyInv, RepliesSaid, Truthful, Genuine, GenuineAs
<1>4. /\ n \in Nat
      /\ \A k \in RepliesTo(Tail(queue), r) : k \in Nat /\ n < k
      /\ \A g \in Sessions : \A k \in RepliesTo(wire[g], r) : k \in Nat /\ n < k
  BY <1>1, HeadIsOldest
<1>5. \A q \in Submits : Coming(q) = Number(m, q) \cup Coming(q)'
  BY <1>1, TakenFromQueue DEF ReplyInv
<1> HIDE DEF m
<1> HIDE DEF n
<1>6. \A k \in Coming(r)' : k \in Nat /\ n < k
  BY <1>1, <1>4 DEF Coming
<1>7. Coming(r) = {n} \cup Coming(r)'
  BY <1>2, <1>5 DEF Number, n
<1>8. n \in Coming(r) /\ \A k \in Coming(r) : n <= k
  BY <1>4, <1>6, <1>7
<1>9. Coming(r)' = Coming(r) \ {n}
  <2>1. n \notin Coming(r)'
    BY <1>4, <1>6
  <2>2. QED
    BY <1>7, <2>1
<1>10. \A q \in Submits : q # r => Coming(q)' = Coming(q)
  BY <1>2, <1>5 DEF Number
<1>11. [q \in Submits |-> Coming(q)'] =
            [[q \in Submits |-> Coming(q)] EXCEPT ![r] = @ \ {n}]
  BY <1>9, <1>10
<1>12. Stage(r) = "open"
  BY <1>1 DEF Stage, InCall
<1>13. [q \in Submits |-> Stage(q)'] =
            [[q \in Submits |-> Stage(q)] EXCEPT ![r] =
                IF said[r][n] \in Final THEN "answered" ELSE "open"]
  <2>1. call'[r] = IF m.says \in Final THEN "returned" ELSE "looping"
    BY <1>1
  <2>2. Stage(r)' = IF said[r][n] \in Final THEN "answered" ELSE "open"
    BY <1>3, <2>1 DEF Stage, InCall
  <2>3. \A q \in Submits : q # r => Stage(q)' = Stage(q)
    BY <1>1 DEF Stage
  <2>4. QED
    BY <2>2, <2>3
<1>14. status' = [status EXCEPT ![r] = StatusAfter(@, said[r][n])]
  BY <1>1, <1>3
<1>15. QED
  BY <1>1, <1>8, <1>11, <1>12, <1>13, <1>14 DEF Exchange!Take

\* Every step is one of RequestReply, or the loss of replies.
LEMMA StepIsPromised ==
    ReplyInv /\ TypeInv' /\ [Next]_vars => [Exchange!Next]_Exchange!vars
<1> SUFFICES ASSUME ReplyInv, TypeInv', [Next]_vars PROVE Exchange!Next
  OBVIOUS
<1>0. TypeInv /\ ClientOK /\ CallsOK /\ WorkerOK
  BY DEF ReplyInv, TypeInv, TypeOK
<1> USE <1>0
<1>1. ASSUME NEW r \in Submits, SubmitRefused(r) \/ SubmitSend(r) PROVE Exchange!Ask(r)
  <2>1. /\ call[r] = "idle" /\ call' = [call EXCEPT ![r] = call'[r]]
        /\ call'[r] \in {"not_connected", "looping", "send_failed"}
        /\ UNCHANGED <<status, said, queue, wire>>
    BY <1>1 DEF SubmitRefused, SubmitSend, CallsOK, client, worker
  <2>2. Stage(r) = "new" /\ Stage(r)' \in {"open", "failed"}
    BY <2>1 DEF Stage, InCall
  <2>3. \A q \in Submits : q # r => Stage(q)' = Stage(q)
    BY <2>1 DEF Stage, CallsOK
  <2>4. [q \in Submits |-> Stage(q)'] = [[q \in Submits |-> Stage(q)] EXCEPT ![r] = Stage(r)']
    BY <2>3
  <2>5. [q \in Submits |-> Coming(q)'] = [q \in Submits |-> Coming(q)]
    BY <2>1 DEF Coming, RepliesTo
  <2>6. QED
    BY <2>1, <2>2, <2>4, <2>5 DEF Exchange!Ask
<1>2. ASSUME NEW r \in Submits, SubmitGiveUp(r) \/ SubmitRecvTimeout(r) PROVE Exchange!GiveUp(r)
  <2>1. /\ call[r] \in InCall /\ call' = [call EXCEPT ![r] = "timed_out"]
        /\ UNCHANGED <<status, said, queue, wire>>
    BY <1>2 DEF SubmitGiveUp, SubmitRecvTimeout, InCall, client, worker
  <2>2. Stage(r) = "open" /\ Stage(r)' = "failed"
    BY <2>1 DEF Stage, InCall, CallsOK
  <2>3. \A q \in Submits : q # r => Stage(q)' = Stage(q)
    BY <2>1 DEF Stage, CallsOK
  <2>4. [q \in Submits |-> Stage(q)'] = [[q \in Submits |-> Stage(q)] EXCEPT ![r] = "failed"]
    BY <2>2, <2>3
  <2>5. [q \in Submits |-> Coming(q)'] = [q \in Submits |-> Coming(q)]
    BY <2>1 DEF Coming, RepliesTo
  <2>6. QED
    BY <2>1, <2>2, <2>4, <2>5 DEF Exchange!GiveUp
<1>3. ASSUME NEW r \in Submits, WorkerReplies(r) PROVE Exchange!Answer(r)
  <2>1. PICK m \in Message :
            /\ Deliver(taken[r], m)
            /\ m.kind = "reply" /\ m.to = r /\ m.nth = Len(said[r]) + 1
            /\ said' = [said EXCEPT ![r] = Append(@, m.says)]
    BY <1>3, RepliesDeliver
  <2>2. taken[r] \in Sessions /\ taken[r] # 0
    BY <1>3, RepliesDeliver
  <2>3. /\ UNCHANGED <<queue, call, status>>
        /\ \A i \in 1..Len(said[r]) : said[r][i] \notin Final
    BY <1>3 DEF WorkerReplies, Said, client, calls
  <2>4. Stage(r) # "new"
    BY <2>2 DEF ReplyInv, Asked, Stage
  <2>5. \A q \in Submits : Coming(q)' = Coming(q) \cup Number(m, q)
    BY <2>1, <2>2, <2>3, PutOnWire
  <2>6. [q \in Submits |-> Coming(q)'] =
            [[q \in Submits |-> Coming(q)] EXCEPT ![r] = @ \cup {Len(said[r]) + 1}]
    <3>1. Number(m, r) = {Len(said[r]) + 1} /\ \A q \in Submits : q # r => Number(m, q) = {}
      BY <2>1 DEF Number
    <3>2. /\ Coming(r)' = Coming(r) \cup {Len(said[r]) + 1}
          /\ \A q \in Submits : q # r => Coming(q)' = Coming(q)
      BY <2>5, <3>1
    <3>3. QED
      BY <3>2
  <2>7. m.says \in AllSays
    BY <2>1, Kinds DEF Reply
  <2>8. [q \in Submits |-> Stage(q)'] = [q \in Submits |-> Stage(q)]
    BY <2>3 DEF Stage
  <2>9. QED
    BY <2>1, <2>3, <2>4, <2>6, <2>7, <2>8 DEF Exchange!Answer
<1>4. ASSUME NEW r \in Submits, SubmitRecv(r), OwnReply(Head(queue), r) PROVE Exchange!Take(r)
  BY <1>4, TakeIsPromised
<1>5. ASSUME UNCHANGED <<status, said>>, \A q \in Submits : Stage(q)' = Stage(q),
             queue # <<>>, queue' = Tail(queue), wire' = wire
      PROVE  Exchange!Lose
  <2>1. \A q \in Submits : Coming(q)' \subseteq Coming(q)
    BY <1>5, TakenFromQueue
  <2>2. QED
    BY <1>5, <2>1, LossIsPromised
<1>6. ASSUME NEW r \in Submits, SubmitRecv(r), ~OwnReply(Head(queue), r) PROVE Exchange!Lose
  <2>1. /\ call[r] = "waiting" /\ call' = [call EXCEPT ![r] = "looping"]
        /\ queue # <<>> /\ queue' = Tail(queue) /\ UNCHANGED <<wire, status, said>>
    BY <1>6 DEF SubmitRecv, worker
  <2>2. \A q \in Submits : Stage(q)' = Stage(q)
    BY <2>1 DEF Stage, InCall, CallsOK
  <2>3. QED
    BY <1>5, <2>1, <2>2
<1>7. ASSUME ConnectAnswer \/ \E s \in Subs : TaskRecv(s) PROVE Exchange!Lose
  <2>1. queue # <<>> /\ queue' = Tail(queue) /\ UNCHANGED <<wire, status, said, call>>
    BY <1>7 DEF ConnectAnswer, TaskRecv, worker, calls
  <2>2. \A q \in Submits : Stage(q)' = Stage(q)
    BY <2>1 DEF Stage
  <2>3. QED
    BY <1>5, <2>1, <2>2
<1>8. ASSUME NEW g \in Sessions, ReceiveHeartbeat(g) \/ ReceiveMessage(g) PROVE Exchange!Lose
  <2>1. /\ wire[g] # <<>> /\ wire' = [wire EXCEPT ![g] = Tail(@)]
        /\ queue' = queue \/ queue' = Append(queue, Head(wire[g]))
        /\ UNCHANGED <<status, said, call>>
    BY <1>8 DEF ReceiveHeartbeat, ReceiveMessage, client, calls
  <2>2. \A q \in Submits : Stage(q)' = Stage(q)
    BY <2>1 DEF Stage
  <2>3. \A q \in Submits : Coming(q)' \subseteq Coming(q)
    BY <2>1, TakenFromWire
  <2>4. QED
    BY <2>1, <2>2, <2>3, LossIsPromised
<1>9. ASSUME NEW g \in Sessions, NEW m \in Message, Deliver(g, m), m.kind # "reply",
             UNCHANGED <<queue, status, said, call>>
      PROVE  Exchange!Lose
  <2>1. \A q \in Submits : Coming(q)' = Coming(q) \cup Number(m, q)
    BY <1>9, PutOnWire
  <2>2. \A q \in Submits : Stage(q)' = Stage(q) /\ Coming(q)' \subseteq Coming(q)
    BY <1>9, <2>1 DEF Number, Stage
  <2>3. QED
    BY <1>9, <2>2, LossIsPromised
<1>10. ASSUME NEW g \in Sessions, WorkerGreets(g) \/ WorkerBeats(g) PROVE Exchange!Lose
  <2>1. \E m \in Message : Deliver(g, m) /\ m.kind # "reply"
    BY <1>10, GreetsDeliver, BeatsDeliver
  <2>2. UNCHANGED <<queue, status, said, call>>
    BY <1>10 DEF WorkerGreets, WorkerBeats, client, calls
  <2>3. QED
    BY <1>9, <2>1, <2>2
<1>11. ASSUME WorkerStreams PROVE Exchange!Lose
  <2>1. PICK x \in streaming : x[1] \in Sessions /\ \E m \in Message :
            Deliver(x[1], m) /\ m.kind # "reply"
    BY <1>11, StreamsDeliver
  <2>2. UNCHANGED <<queue, status, said, call>>
    BY <1>11 DEF WorkerStreams, client, calls
  <2>3. QED
    BY <1>9, <2>1, <2>2
<1>12. ASSUME UNCHANGED <<status, said, wire>>, queue' = queue \/ queue' = <<>>,
              \A q \in Submits : Stage(q)' = Stage(q)
       PROVE  Exchange!Lose
  <2>1. \A q \in Submits : Coming(q)' \subseteq Coming(q)
    <3>1. CASE queue' = queue
      BY <1>12, <3>1 DEF Coming, RepliesTo
    <3>2. CASE queue' = <<>>
      <4>1. \A q \in Submits : RepliesTo(queue', q) = {}
        BY <3>2 DEF RepliesTo
      <4>2. \A q \in Submits, g \in Sessions : RepliesTo(wire'[g], q) = RepliesTo(wire[g], q)
        BY <1>12
      <4>3. QED
        BY <4>1, <4>2 DEF Coming
    <3>3. QED
      BY <1>12, <3>1, <3>2
  <2>2. QED
    BY <1>12, <2>1, LossIsPromised
<1>13. ASSUME NEW r \in Submits, Deadline(r) \/ SubmitPoll(r) PROVE Exchange!Lose
  <2>1. UNCHANGED <<status, said, wire, queue>>
    BY <1>13 DEF Deadline, SubmitPoll, client, worker
  <2>2. \A q \in Submits : Stage(q)' = Stage(q)
    BY <1>13 DEF Deadline, SubmitPoll, Stage, InCall, CallsOK
  <2>3. QED
    BY <1>12, <2>1, <2>2
<1>14. ASSUME \/ ConnectDial \/ ConnectInstall \/ ConnectAwait \/ ConnectTimeout
              \/ Disconnect \/ Drop \/ UNCHANGED vars
              \/ \E g \in Sessions : ReceiverDetached(g) \/ ReceiverEnd(g) \/ LinkDrops(g)
              \/ \E s \in Subs : \/ SubscribeRefused(s) \/ Subscribe(s) \/ TaskPoll(s)
                                 \/ TaskClosed(s) \/ TaskForward(s) \/ TaskAbandoned(s)
                                 \/ AppRead(s) \/ AppDrop(s)
       PROVE  Exchange!Lose
  <2>1. UNCHANGED <<status, said, wire, call>> /\ (queue' = queue \/ queue' = <<>>)
    BY <1>14 DEF ConnectDial, ConnectInstall, FreshChannel, ConnectAwait, ConnectTimeout,
        Disconnect, Drop, ReceiverDetached, ReceiverEnd, LinkDrops, SubscribeRefused, Subscribe,
        TaskPoll, TaskClosed, TaskForward, TaskAbandoned, AppRead, AppDrop, vars, client, calls,
        tasks, worker
  <2>2. \A q \in Submits : Stage(q)' = Stage(q)
    BY <2>1 DEF Stage
  <2>3. QED
    BY <1>12, <2>1, <2>2
<1>15. QED
  BY <1>1, <1>2, <1>3, <1>4, <1>6, <1>7, <1>8, <1>10, <1>11, <1>13, <1>14
     DEF Next, ConnectStep, ReceiverStep, SubmitStep, TaskStep, Exchange!Next

\* The invariants hold of every behaviour.
LEMMA ReplyInvHolds == Spec => []ReplyInv
<1>1. Init => Provenance /\ SessionInv /\ Asked /\ RepliesSaid /\ FlowInv /\ DeliveryInv
  BY DEF Init, Provenance, OnlyThisSession, SessionInv, Asked, RepliesSaid, Truthful, FlowInv,
         DeliveryInv, InOrder, Sent, Later, NoEvent
<1>2. QED
  BY <1>1, Typing, ProvenanceStep, SessionStep, AskedStep, RepliesStep, FlowStep, DeliveryStep, PTL
     DEF Spec, ReplyInv

\* Whatever shares the channel with it, a submission takes replies of its own
\* only, in the order the worker gave them, each at most once, and none after a
\* final one.
THEOREM ImplementsRequestReply == Spec => RepliesKeepPromise
<1>1. Init => Exchange!Init
  <2> SUFFICES ASSUME Init PROVE Exchange!Init
    OBVIOUS
  <2>1. \A r \in Submits : Coming(r) = {} /\ Stage(r) = "new"
    <3>1. \A r \in Submits : RepliesTo(<<>>, r) = {}
      BY DEF RepliesTo
    <3>2. queue = <<>> /\ (\A g \in Sessions : wire[g] = <<>>) /\ \A r \in Submits : call[r] = "idle"
      BY DEF Init
    <3>3. ASSUME NEW r \in Submits PROVE Stage(r) = "new"
      <4>1. call[r] = "idle"
        BY <3>2
      <4>2. QED
        BY <4>1 DEF Stage, InCall
    <3>4. ASSUME NEW r \in Submits PROVE Coming(r) = {}
      <4>1. RepliesTo(queue, r) = {} /\ \A g \in Sessions : RepliesTo(wire[g], r) = {}
        BY <3>1, <3>2
      <4>2. QED
        BY <4>1 DEF Coming
    <3>5. QED
      BY <3>3, <3>4
  <2>2. QED
    BY <2>1 DEF Init, Exchange!Init
<1>2. QED
  BY <1>1, StepIsPromised, ReplyInvHolds, PTL DEF Spec, ReplyInv, RepliesKeepPromise, Exchange!Spec

\* The replies on their way have been said.
LEMMA ComingSaid ==
    ASSUME ReplyInv, NEW r \in Submits, NEW n \in Coming(r)
    PROVE  said[r][n] \in Said(r)
<1>1. \A q : Truthful(q) /\ n \in RepliesTo(q, r) => n \in 1..Len(said[r])
  BY RepliesIndex DEF Truthful, Genuine, GenuineAs
<1>2. n \in 1..Len(said[r])
  BY <1>1 DEF Coming, ReplyInv, RepliesSaid
<1>3. QED
  BY <1>2 DEF Said

\* A step of RequestReply keeps AnswerIsOwn.
LEMMA OwnKept ==
    ReplyInv /\ TypeInv' /\ AnswerIsOwn /\ [Exchange!Next]_Exchange!vars => AnswerIsOwn'
<1> SUFFICES ASSUME ReplyInv, TypeInv', AnswerIsOwn, [Exchange!Next]_Exchange!vars
             PROVE  AnswerIsOwn'
  OBVIOUS
<1>1. \A r \in Submits : /\ Stage(r) = "answered" <=> call[r] = "returned"
                         /\ Stage(r)' = "answered" <=> call'[r] = "returned"
  BY DEF Stage, InCall
<1>2. ASSUME status' = status, \A r \in Submits : Said(r) \subseteq Said(r)',
             \A r \in Submits : Stage(r)' = "answered" => Stage(r) = "answered"
      PROVE  AnswerIsOwn'
  BY <1>1, <1>2 DEF AnswerIsOwn
<1>3. ASSUME UNCHANGED <<said, status>>,
             \A r \in Submits : Stage(r)' = "answered" => Stage(r) = "answered"
      PROVE  AnswerIsOwn'
  BY <1>2, <1>3 DEF Said
<1>4. ASSUME Exchange!Lose \/ UNCHANGED Exchange!vars PROVE AnswerIsOwn'
  <2>1. /\ UNCHANGED <<said, status>>
        /\ [r \in Submits |-> Stage(r)'] = [r \in Submits |-> Stage(r)]
    BY <1>4 DEF Exchange!Lose, Exchange!vars
  <2>2. \A r \in Submits : Stage(r)' = Stage(r)
    BY <2>1
  <2>3. QED
    BY <1>3, <2>1, <2>2
<1>5. ASSUME NEW r \in Submits, Exchange!Ask(r) \/ Exchange!GiveUp(r) PROVE AnswerIsOwn'
  <2>1. /\ UNCHANGED <<said, status>>
        /\ \E s \in {"open", "failed"} :
                [q \in Submits |-> Stage(q)'] = [[q \in Submits |-> Stage(q)] EXCEPT ![r] = s]
    BY <1>5 DEF Exchange!Ask, Exchange!GiveUp
  <2>2. /\ Stage(r)' # "answered"
        /\ \A q \in Submits : q # r => Stage(q)' = Stage(q)
    BY <2>1
  <2>3. QED
    BY <1>3, <2>1, <2>2
<1>6. ASSUME NEW r \in Submits, Exchange!Answer(r) PROVE AnswerIsOwn'
  <2>1. /\ status' = status
        /\ [q \in Submits |-> Stage(q)'] = [q \in Submits |-> Stage(q)]
        /\ \E x \in AllSays : said' = [said EXCEPT ![r] = Append(@, x)]
    BY <1>6 DEF Exchange!Answer
  <2>2. \A q \in Submits : Stage(q)' = Stage(q)
    BY <2>1
  <2>3. \A q \in Submits : said[q] \in Seq(AllSays)
    BY DEF ReplyInv, TypeInv, TypeOK, WorkerOK
  <2>4. ASSUME NEW q \in Submits PROVE Said(q) \subseteq Said(q)'
    <3>1. PICK x \in AllSays : said' = [said EXCEPT ![r] = Append(@, x)]
      BY <2>1
    <3>2. said'[q] = said[q] \/ said'[q] = Append(said[q], x)
      BY <3>1 DEF ReplyInv, TypeInv, TypeOK, WorkerOK
    <3>3. \A i \in 1..Len(said[q]) : i \in 1..Len(said'[q]) /\ said'[q][i] = said[q][i]
      BY <2>3, <3>2
    <3>4. QED
      BY <3>3 DEF Said
  <2>5. QED
    BY <1>2, <2>1, <2>2, <2>4
<1>7. ASSUME NEW r \in Submits, Exchange!Take(r) PROVE AnswerIsOwn'
  <2>1. PICK n \in Coming(r) :
            /\ status' = [status EXCEPT ![r] = StatusAfter(@, said[r][n])]
            /\ [q \in Submits |-> Stage(q)'] = [[q \in Submits |-> Stage(q)] EXCEPT ![r] =
                    IF said[r][n] \in Final THEN "answered" ELSE "open"]
            /\ said' = said
    BY <1>7 DEF Exchange!Take
  <2> DEFINE x == said[r][n]
  <2>2. x \in Said(r)
    BY ComingSaid
  <2>3. /\ Stage(r)' = "answered" => x \in Final
        /\ \A q \in Submits : q # r => Stage(q)' = Stage(q)
    BY <2>1
  <2>4. /\ status'[r] = StatusAfter(status[r], x)
        /\ \A q \in Submits : q # r => status'[q] = status[q]
    BY <2>1 DEF ReplyInv, TypeInv, TypeOK, CallsOK
  <2> HIDE DEF x
  <2>5. status'[r] = status[r] \/ status'[r] = StatusAfter("pending", x)
    BY <2>4 DEF StatusAfter
  <2>6. status'[r] = "confirmed" => status[r] = "confirmed" \/ x = "confirmed"
    BY <2>4 DEF StatusAfter
  <2>7. \A q \in Submits : Said(q)' = Said(q)
    BY <2>1 DEF Said
  <2>8. /\ status'[r] = "pending" \/ \E y \in Said(r) : StatusAfter("pending", y) = status'[r]
        /\ status'[r] = "confirmed" => "confirmed" \in Said(r)
        /\ call'[r] = "returned" => Said(r) \cap Final # {}
    BY <1>1, <2>2, <2>3, <2>5, <2>6 DEF AnswerIsOwn
  <2>9. \A q \in Submits : q # r =>
            /\ status'[q] = "pending" \/ \E y \in Said(q) : StatusAfter("pending", y) = status'[q]
            /\ status'[q] = "confirmed" => "confirmed" \in Said(q)
            /\ call'[q] = "returned" => Said(q) \cap Final # {}
    BY <1>1, <2>3, <2>4 DEF AnswerIsOwn
  <2>10. QED
    BY <2>7, <2>8, <2>9 DEF AnswerIsOwn
<1>8. QED
  BY <1>4, <1>5, <1>6, <1>7 DEF Exchange!Next

\* So the status a submit call has reached was given for that very request, and
\* the call returns only after a final reply of its own.
THEOREM OwnAnswers == Spec => []AnswerIsOwn
<1>1. Init => AnswerIsOwn
  BY DEF Init, AnswerIsOwn
<1>2. QED
  BY <1>1, StepIsPromised, OwnKept, ReplyInvHolds, PTL DEF Spec, ReplyInv
=============================================================================
