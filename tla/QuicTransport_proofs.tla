------------------------- MODULE QuicTransport_proofs -------------------------
(* Proofs about QuicTransport, for every value of its constants.            *)
EXTENDS QuicTransport, FiniteSetTheorems, TLAPS

\* The connection numbers are the non-zero members of 0..MaxSessions.
LEMMA SessionRange ==
    /\ \A g \in 0..MaxSessions : g # 0 => g \in Sessions
    /\ \A g \in Sessions : g \in 0..MaxSessions /\ g # 0
    /\ 0 \in 0..MaxSessions
BY ConstantsOK DEF Sessions

\* The first element of a sequence and the rest.
LEMMA Front ==
    ASSUME NEW S, NEW q \in Seq(S), q # <<>>
    PROVE  /\ Head(q) = q[1] /\ 1 \in 1..Len(q) /\ q[1] \in S
           /\ Tail(q) \in Seq(S)
           /\ \A i \in 1..Len(Tail(q)) : i + 1 \in 1..Len(q) /\ Tail(q)[i] = q[i + 1]
OBVIOUS

\* A sequence with one more element at its end.
LEMMA Back ==
    ASSUME NEW S, NEW q \in Seq(S), NEW x \in S
    PROVE  /\ Append(q, x) \in Seq(S) /\ Len(Append(q, x)) = Len(q) + 1
           /\ \A i \in 1..Len(q) : i \in 1..Len(Append(q, x)) /\ Append(q, x)[i] = q[i]
           /\ Len(q) + 1 \in 1..Len(Append(q, x)) /\ Append(q, x)[Len(q) + 1] = x
           /\ \A i \in 1..Len(Append(q, x)) : i \in 1..Len(q) \/ i = Len(q) + 1
OBVIOUS

\* What each connection's queue offers was opened for it; who reads a stream
\* reads one that was opened; who still waits reads none.
Opened ==
    /\ \A s \in Subs : task[s] = "off" => served[s] = "no"
    /\ \A g \in Sessions : \A i \in 1..Len(offered[g]) :
            served[offered[g][i]] \in {"open", "finished"} /\ via[offered[g][i]] = g
    /\ \A s \in Subs : reads[s] # None => served[reads[s]] \in {"open", "finished"}
    /\ \A s \in Subs : task[s] \in {"off", "finishing", "accepting"} => reads[s] = None

\* The connection, the flag and the session go together, and every open
\* connection is the transport's or the one connect() authenticates.
Owned ==
    /\ connected <=> connection # 0
    /\ session = connection
    /\ dialing # 0 => connection = 0
    /\ \A g \in Sessions : link[g] = "up" => g \in {dialing, connection}

TypeInv == TypeOK /\ Opened /\ Owned

\* The inductive invariant holds in a new transport.
LEMMA TypeInvInit == Init => TypeInv
<1> SUFFICES ASSUME Init PROVE TypeInv
  OBVIOUS
<1> USE ConstantsOK
<1>1. ClientOK /\ CallsOK
  <2>1. ClientOK
    BY SessionRange DEF Init, ClientOK
  <2>2. CallsOK
    BY SessionRange DEF Init, CallsOK
  <2>3. QED
    BY <2>1, <2>2
<1>2. TasksOK
  BY DEF Init, TasksOK, TaskState, Active
<1>3. WorkerOK
  BY DEF Init, WorkerOK
<1>4. Opened /\ Owned
  BY DEF Init, Opened, Owned
<1>5. QED
  BY <1>1, <1>2, <1>3, <1>4 DEF TypeInv, TypeOK

\* The end of a task keeps the invariant.
LEMMA EndKeepsTypes ==
    ASSUME TasksOK, WorkerOK, Opened, Owned, NEW s \in Subs, Ends(s),
           UNCHANGED <<client, via, reads, given, read, reader, crowded,
                       answered, offered, events>>
    PROVE  TasksOK' /\ WorkerOK' /\ Opened' /\ Owned'
<1>0. \A k \in Subs : k = reads[s] => served[k] \in {"open", "finished"}
  BY ConstantsOK DEF Opened
<1>1. /\ task' = [task EXCEPT ![s] = "ended"] /\ hand' = [hand EXCEPT ![s] = NoEvent]
      /\ pipe' \in [Subs -> Seq(Event \cup {End})]
      /\ \A k \in Subs : served'[k] = IF k = reads[s] THEN "finished" ELSE served[k]
      /\ served' \in [Subs -> {"no", "asked", "open", "finished"}]
  BY DEF Ends, WorkerOK
<1>2. link' \in [Sessions -> {"unused", "up", "closed"}]
      /\ \A g \in Sessions : link'[g] = "up" => link[g] = "up"
  BY DEF Ends, WorkerOK
<1>3. TasksOK'
  BY <1>1 DEF TasksOK, TaskState, Active
<1>4. WorkerOK'
  <2>1. \A k \in Subs : served'[k] # "no" => via[k] # 0
    BY <1>1, <1>0 DEF WorkerOK
  <2>2. QED
    BY <1>1, <1>2, <2>1 DEF WorkerOK
<1>5. Opened'
  <2>1. \A k \in Subs : served[k] \in {"open", "finished"} => served'[k] \in {"open", "finished"}
    BY <1>1
  <2>2. \A k \in Subs : task'[k] = "off" => served'[k] = "no"
    <3>1. \A k \in Subs : task'[k] = "off" => task[k] = "off"
      BY <1>1 DEF TasksOK
    <3>2. \A k \in Subs : task[k] = "off" => served[k] = "no"
      BY DEF Opened
    <3>3. QED
      BY <3>1, <3>2, <1>0, <1>1
  <2>3. \A g \in Sessions : \A i \in 1..Len(offered[g]) :
            served'[offered[g][i]] \in {"open", "finished"} /\ via[offered[g][i]] = g
    <3>1. ASSUME NEW g \in Sessions, NEW i \in 1..Len(offered[g])
          PROVE  served'[offered[g][i]] \in {"open", "finished"} /\ via[offered[g][i]] = g
      <4>1. offered[g] \in Seq(Subs)
        BY DEF WorkerOK
      <4>2. offered[g][i] \in Subs
        BY <4>1
      <4>3. QED
        BY <4>2, <2>1 DEF Opened
    <3>2. QED
      BY <3>1
  <2>4. \A k \in Subs : reads[k] # None => served'[reads[k]] \in {"open", "finished"}
    <3>1. \A k \in Subs : reads[k] # None => reads[k] \in Subs
      BY DEF TasksOK
    <3>2. QED
      BY <2>1, <3>1 DEF Opened
  <2>5. \A k \in Subs : task'[k] \in {"off", "finishing", "accepting"} => reads[k] = None
    BY <1>1 DEF Opened, TasksOK
  <2>6. QED
    BY <2>2, <2>3, <2>4, <2>5 DEF Opened
<1>6. Owned'
  BY <1>2 DEF Owned, client
<1>7. QED
  BY <1>3, <1>4, <1>5, <1>6

\* No step of the transport, its tasks or the worker breaks the invariant.
LEMMA TypeInvStep == TypeInv /\ [Next]_vars => TypeInv'
<1> SUFFICES ASSUME TypeInv, [Next]_vars PROVE TypeInv'
  OBVIOUS
<1>0. ClientOK /\ CallsOK /\ TasksOK /\ WorkerOK /\ Opened /\ Owned
  BY DEF TypeInv, TypeOK
<1> USE <1>0, ConstantsOK
<1>1. ASSUME ConnectDial PROVE TypeInv'
  <2>1. ClientOK'
    BY <1>1, SessionRange DEF ConnectDial, ClientOK
  <2>2. CallsOK'
    BY <1>1 DEF ConnectDial, CallsOK, calls
  <2>3. TasksOK'
    BY <1>1 DEF ConnectDial, TasksOK, tasks
  <2>4. WorkerOK'
    BY <1>1 DEF ConnectDial, WorkerOK, tasks
  <2>5. Opened'
    BY <1>1 DEF ConnectDial, Opened, tasks
  <2>6. Owned'
    BY <1>1, SessionRange DEF ConnectDial, Owned, NeedsConnect, Exclusive, Shared, ClientOK, WorkerOK
  <2>7. QED
    BY <2>1, <2>2, <2>3, <2>4, <2>5, <2>6 DEF TypeInv, TypeOK
<1>2. ASSUME ConnectAccepted PROVE TypeInv'
  <2>1. ClientOK'
    BY <1>2 DEF ConnectAccepted, ClientOK
  <2>2. CallsOK'
    BY <1>2 DEF ConnectAccepted, CallsOK, calls
  <2>3. TasksOK'
    BY <1>2 DEF ConnectAccepted, TasksOK, tasks
  <2>4. WorkerOK'
    BY <1>2 DEF ConnectAccepted, WorkerOK, tasks, worker
  <2>5. Opened'
    BY <1>2 DEF ConnectAccepted, Opened, tasks, worker
  <2>6. Owned'
    BY <1>2, SessionRange DEF ConnectAccepted, Owned, ClientOK, worker
  <2>7. QED
    BY <2>1, <2>2, <2>3, <2>4, <2>5, <2>6 DEF TypeInv, TypeOK
<1>3. ASSUME ConnectRefused PROVE TypeInv'
  <2>1. ClientOK'
    BY <1>3 DEF ConnectRefused, ClientOK
  <2>2. CallsOK'
    BY <1>3 DEF ConnectRefused, CallsOK, calls
  <2>3. TasksOK'
    BY <1>3 DEF ConnectRefused, TasksOK, tasks
  <2>4. WorkerOK'
    BY <1>3 DEF ConnectRefused, WorkerOK, tasks
  <2>5. Opened'
    BY <1>3 DEF ConnectRefused, Opened, tasks
  <2>6. Owned'
    BY <1>3, SessionRange DEF ConnectRefused, Owned, WorkerOK, ClientOK
  <2>7. QED
    BY <2>1, <2>2, <2>3, <2>4, <2>5, <2>6 DEF TypeInv, TypeOK
<1>4. ASSUME Disconnect PROVE TypeInv'
  <2>1. ClientOK'
    BY <1>4, SessionRange DEF Disconnect, ClientOK
  <2>2. CallsOK'
    BY <1>4 DEF Disconnect, CallsOK, calls
  <2>3. TasksOK'
    BY <1>4 DEF Disconnect, TasksOK, tasks
  <2>4. WorkerOK'
    BY <1>4 DEF Disconnect, WorkerOK, tasks
  <2>5. Opened'
    BY <1>4 DEF Disconnect, Opened, tasks
  <2>6. Owned'
    BY <1>4, SessionRange DEF Disconnect, Owned, WorkerOK, ClientOK, Exclusive, Shared
  <2>7. QED
    BY <2>1, <2>2, <2>3, <2>4, <2>5, <2>6 DEF TypeInv, TypeOK
<1>5. ASSUME DisconnectReturns PROVE TypeInv'
  <2>1. ClientOK'
    BY <1>5 DEF DisconnectReturns, ClientOK
  <2>2. CallsOK'
    BY <1>5 DEF DisconnectReturns, CallsOK, calls
  <2>3. TasksOK'
    BY <1>5 DEF DisconnectReturns, TasksOK, tasks
  <2>4. WorkerOK'
    BY <1>5 DEF DisconnectReturns, WorkerOK, tasks, worker
  <2>5. Opened'
    BY <1>5 DEF DisconnectReturns, Opened, tasks, worker
  <2>6. Owned'
    BY <1>5 DEF DisconnectReturns, Owned, worker
  <2>7. QED
    BY <2>1, <2>2, <2>3, <2>4, <2>5, <2>6 DEF TypeInv, TypeOK
<1>6. ASSUME Drop PROVE TypeInv'
  <2>1. ClientOK'
    BY <1>6 DEF Drop, ClientOK
  <2>2. CallsOK'
    BY <1>6 DEF Drop, CallsOK, calls
  <2>3. TasksOK'
    BY <1>6 DEF Drop, TasksOK, tasks
  <2>4. WorkerOK'
    BY <1>6 DEF Drop, WorkerOK, tasks
  <2>5. Opened'
    BY <1>6 DEF Drop, Opened, tasks
  <2>6. Owned'
    BY <1>6 DEF Drop, Owned, WorkerOK
  <2>7. QED
    BY <2>1, <2>2, <2>3, <2>4, <2>5, <2>6 DEF TypeInv, TypeOK
<1>7. ASSUME NEW c \in Calls, CallStart(c) PROVE TypeInv'
  <2>1. ClientOK'
    BY <1>7 DEF CallStart, ClientOK, client
  <2>2. CallsOK'
    BY <1>7 DEF CallStart, CallsOK, ClientOK
  <2>3. TasksOK'
    BY <1>7 DEF CallStart, TasksOK, tasks
  <2>4. WorkerOK'
    BY <1>7 DEF CallStart, WorkerOK, tasks, worker
  <2>5. Opened'
    BY <1>7 DEF CallStart, Opened, tasks, worker
  <2>6. Owned'
    BY <1>7 DEF CallStart, Owned, client, worker
  <2>7. QED
    BY <2>1, <2>2, <2>3, <2>4, <2>5, <2>6 DEF TypeInv, TypeOK
<1>8. ASSUME NEW c \in Calls, CallAnswered(c) PROVE TypeInv'
  <2>1. ClientOK'
    BY <1>8 DEF CallAnswered, Returns, ClientOK, client
  <2>2. CallsOK'
    BY <1>8 DEF CallAnswered, CallsOK, Returns
  <2>3. TasksOK'
    BY <1>8 DEF CallAnswered, Returns, TasksOK, tasks
  <2>4. WorkerOK'
    BY <1>8 DEF CallAnswered, WorkerOK, Returns, tasks
  <2>5. Opened'
    BY <1>8 DEF CallAnswered, Returns, Opened, tasks
  <2>6. Owned'
    BY <1>8 DEF CallAnswered, Returns, Owned, client
  <2>7. QED
    BY <2>1, <2>2, <2>3, <2>4, <2>5, <2>6 DEF TypeInv, TypeOK
<1>9. ASSUME NEW c \in Calls, CallFails(c) PROVE TypeInv'
  <2>1. ClientOK'
    BY <1>9 DEF CallFails, Returns, ClientOK, client
  <2>2. CallsOK'
    BY <1>9 DEF CallFails, CallsOK, Returns
  <2>3. TasksOK'
    BY <1>9 DEF CallFails, Returns, TasksOK, tasks
  <2>4. WorkerOK'
    BY <1>9 DEF CallFails, WorkerOK, Returns, tasks
  <2>5. Opened'
    BY <1>9 DEF CallFails, Returns, Opened, tasks
  <2>6. Owned'
    BY <1>9 DEF CallFails, Returns, Owned, client
  <2>7. QED
    BY <2>1, <2>2, <2>3, <2>4, <2>5, <2>6 DEF TypeInv, TypeOK
<1>10. ASSUME NEW c \in Calls, WorkerAnswers(c) PROVE TypeInv'
  <2>1. ClientOK'
    BY <1>10 DEF WorkerAnswers, ClientOK, client
  <2>2. CallsOK'
    BY <1>10 DEF WorkerAnswers, CallsOK, calls
  <2>3. TasksOK'
    BY <1>10 DEF WorkerAnswers, TasksOK, tasks
  <2>4. WorkerOK'
    BY <1>10 DEF WorkerAnswers, WorkerOK, tasks
  <2>5. Opened'
    BY <1>10 DEF WorkerAnswers, Opened, tasks
  <2>6. Owned'
    BY <1>10 DEF WorkerAnswers, Owned, client
  <2>7. QED
    BY <2>1, <2>2, <2>3, <2>4, <2>5, <2>6 DEF TypeInv, TypeOK
<1>11. ASSUME NEW s \in Subs, SubscribeStart(s) PROVE TypeInv'
  <2>1. ClientOK'
    BY <1>11 DEF SubscribeStart, ClientOK, client
  <2>2. CallsOK'
    BY <1>11 DEF SubscribeStart, CallsOK, calls
  <2>3. TasksOK'
    BY <1>11, SessionRange DEF SubscribeStart, TasksOK, ClientOK, TaskState, Active, Waiting
  <2>4. WorkerOK'
    <3>1. /\ via' = [via EXCEPT ![s] = connection] /\ connection # 0
          /\ served' = [served EXCEPT ![s] = "asked"]
          /\ UNCHANGED <<link, answered, offered, pipe, events>>
      BY <1>11 DEF SubscribeStart
    <3>2. /\ served' \in [Subs -> {"no", "asked", "open", "finished"}]
          /\ \A k \in Subs : served'[k] # "no" => via'[k] # 0
      BY <3>1 DEF WorkerOK, TasksOK
    <3>3. QED
      BY <3>1, <3>2 DEF WorkerOK
  <2>5. Opened'
    <3>1. /\ task[s] = "off" /\ served[s] = "no"
          /\ task' = [task EXCEPT ![s] = "finishing"]
          /\ via' = [via EXCEPT ![s] = connection]
          /\ served' = [served EXCEPT ![s] = "asked"]
          /\ offered' = offered /\ reads' = reads
      BY <1>11 DEF SubscribeStart, Opened
    <3>2. \A k \in Subs : task'[k] = "off" => served'[k] = "no"
      BY <3>1 DEF Opened, TasksOK, WorkerOK
    <3>3. \A k \in Subs : served[k] \in {"open", "finished"} =>
              served'[k] = served[k] /\ via'[k] = via[k]
      BY <3>1 DEF WorkerOK, TasksOK
    <3>4. ASSUME NEW g \in Sessions, NEW i \in 1..Len(offered[g])
          PROVE  served'[offered[g][i]] \in {"open", "finished"} /\ via'[offered[g][i]] = g
      <4>1. offered[g] \in Seq(Subs)
        BY DEF WorkerOK
      <4>2. offered[g][i] \in Subs
        BY <4>1
      <4>3. QED
        BY <4>2, <3>3 DEF Opened
    <3>5. \A k \in Subs : reads[k] # None => reads[k] \in Subs
      BY DEF TasksOK
    <3>6. \A k \in Subs : reads'[k] # None => served'[reads'[k]] \in {"open", "finished"}
      BY <3>1, <3>3, <3>5 DEF Opened
    <3>7. \A k \in Subs : task'[k] \in {"off", "finishing", "accepting"} => reads'[k] = None
      BY <3>1 DEF Opened, TasksOK
    <3>8. QED
      BY <3>1, <3>2, <3>4, <3>6, <3>7 DEF Opened
  <2>6. Owned'
    BY <1>11 DEF SubscribeStart, Owned, client
  <2>7. QED
    BY <2>1, <2>2, <2>3, <2>4, <2>5, <2>6 DEF TypeInv, TypeOK
<1>12. ASSUME NEW s \in Subs, SubscribeSpawn(s) PROVE TypeInv'
  <2>1. ClientOK'
    BY <1>12 DEF SubscribeSpawn, ClientOK, client
  <2>2. CallsOK'
    BY <1>12 DEF SubscribeSpawn, CallsOK, calls
  <2>3. TasksOK'
    BY <1>12 DEF SubscribeSpawn, TasksOK, TaskState, Active
  <2>4. WorkerOK'
    BY <1>12 DEF SubscribeSpawn, WorkerOK, worker
  <2>5. Opened'
    BY <1>12 DEF SubscribeSpawn, Opened, worker
  <2>6. Owned'
    BY <1>12 DEF SubscribeSpawn, Owned, client, worker
  <2>7. QED
    BY <2>1, <2>2, <2>3, <2>4, <2>5, <2>6 DEF TypeInv, TypeOK
<1>13. ASSUME NEW s \in Subs, TaskAccept(s) PROVE TypeInv'
  <2> DEFINE g == via[s]
  <2>1. /\ task[s] = "accepting" /\ offered[g] # <<>>
        /\ reads' = [reads EXCEPT ![s] = Head(offered[g])]
        /\ offered' = [offered EXCEPT ![g] = Tail(offered[g])]
        /\ task' = [task EXCEPT ![s] = "reading"]
        /\ UNCHANGED <<client, calls, via, hand, given, read, reader, crowded,
                        link, answered, served, pipe, events>>
    BY <1>13 DEF TaskAccept, OwnConnection
  <2>2. g \in Sessions
    BY <2>1, SessionRange DEF TasksOK, Active
  <2>3. offered[g] \in Seq(Subs)
    BY <2>2 DEF WorkerOK
  <2>4. /\ Head(offered[g]) = offered[g][1] /\ 1 \in 1..Len(offered[g])
        /\ offered[g][1] \in Subs
        /\ Tail(offered[g]) \in Seq(Subs)
        /\ \A i \in 1..Len(Tail(offered[g])) :
                i + 1 \in 1..Len(offered[g]) /\ Tail(offered[g])[i] = offered[g][i + 1]
    BY <2>1, <2>3, Front
  <2>5. served[offered[g][1]] \in {"open", "finished"}
    BY <2>2, <2>4 DEF Opened
  <2>6. ClientOK' /\ CallsOK'
    BY <2>1 DEF ClientOK, CallsOK, client, calls
  <2>7. TasksOK'
    BY <2>1, <2>4 DEF TasksOK, TaskState, Active
  <2>8. WorkerOK'
    BY <2>1, <2>4 DEF WorkerOK
  <2>9. Opened'
    <3>1. \A k \in Subs : task'[k] = "off" => served'[k] = "no"
      BY <2>1 DEF Opened, TasksOK
    <3>2. ASSUME NEW h \in Sessions, NEW i \in 1..Len(offered'[h])
          PROVE  served[offered'[h][i]] \in {"open", "finished"} /\ via[offered'[h][i]] = h
      <4>1. CASE h = g
        <5>1. offered'[h] = Tail(offered[g])
          BY <4>1, <2>1, <2>2 DEF WorkerOK
        <5>2. i + 1 \in 1..Len(offered[g]) /\ offered'[h][i] = offered[g][i + 1]
          BY <5>1, <2>4
        <5>3. QED
          BY <4>1, <2>2, <5>2 DEF Opened
      <4>2. CASE h # g
        <5>1. offered'[h] = offered[h]
          BY <4>2, <2>1
        <5>2. QED
          BY <5>1 DEF Opened
      <4>3. QED
        BY <4>1, <4>2
    <3>3. \A k \in Subs : reads'[k] # None => served'[reads'[k]] \in {"open", "finished"}
      <4>1. /\ reads'[s] = offered[g][1]
            /\ \A k \in Subs : k # s => reads'[k] = reads[k]
        BY <2>1, <2>4 DEF TasksOK
      <4>2. \A k \in Subs : reads[k] # None => served[reads[k]] \in {"open", "finished"}
        BY DEF Opened
      <4>3. QED
        BY <2>1, <2>5, <4>1, <4>2
    <3>4. \A k \in Subs : task'[k] \in {"off", "finishing", "accepting"} => reads'[k] = None
      BY <2>1 DEF Opened, TasksOK
    <3>5. QED
      BY <2>1, <3>1, <3>2, <3>3, <3>4 DEF Opened
  <2>10. Owned'
    BY <2>1 DEF Owned, client
  <2>11. QED
    BY <2>6, <2>7, <2>8, <2>9, <2>10 DEF TypeInv, TypeOK
<1>14. ASSUME NEW s \in Subs, TaskAcceptFails(s) PROVE TypeInv'
  <2>1. ClientOK'
    BY <1>14 DEF TaskAcceptFails, ClientOK, client
  <2>2. CallsOK'
    BY <1>14 DEF TaskAcceptFails, CallsOK, calls
  <2>3. TasksOK' /\ WorkerOK' /\ Opened' /\ Owned'
    BY <1>14, EndKeepsTypes DEF TaskAcceptFails
  <2>4. QED
    BY <2>1, <2>2, <2>3 DEF TypeInv, TypeOK
<1>15. ASSUME NEW s \in Subs, TaskRead(s) PROVE TypeInv'
  <2> DEFINE k == reads[s]
  <2>1. /\ task[s] = "reading" /\ pipe[k] # <<>> /\ Head(pipe[k]) # End
        /\ pipe' = [pipe EXCEPT ![k] = Tail(pipe[k])]
        /\ \/ task' = [task EXCEPT ![s] = "forwarding"]
              /\ hand' = [hand EXCEPT ![s] = Head(pipe[k])]
           \/ task' = task /\ hand' = hand
        /\ UNCHANGED <<client, calls, via, reads, given, read, reader, crowded,
                        link, answered, served, offered, events>>
    BY <1>15 DEF TaskRead
  <2>2. k \in Subs
    BY <2>1 DEF TasksOK
  <2>3. pipe[k] \in Seq(Event \cup {End})
    BY <2>2 DEF WorkerOK
  <2>4. Head(pipe[k]) \in Event /\ Tail(pipe[k]) \in Seq(Event \cup {End})
    BY <2>1, <2>3
  <2>5. ClientOK' /\ CallsOK'
    BY <2>1 DEF ClientOK, CallsOK, client, calls
  <2>6. TasksOK'
    <3>1. CASE task' = task /\ hand' = hand
      BY <3>1, <2>1 DEF TasksOK
    <3>2. CASE /\ task' = [task EXCEPT ![s] = "forwarding"]
               /\ hand' = [hand EXCEPT ![s] = Head(pipe[k])]
      <4>1. /\ task' \in [Subs -> TaskState] /\ hand' \in [Subs -> Event \cup {NoEvent}]
            /\ \A t \in Subs : task'[t] = "forwarding" => hand'[t] \in Event
        BY <3>2, <2>4 DEF TasksOK, TaskState, Active
      <4>2. \A t \in Subs : task'[t] \in Active => via[t] # 0
        BY <3>2, <2>1 DEF TasksOK, Active
      <4>3. \A t \in Subs : task'[t] \in {"reading", "forwarding"} => reads[t] # None
        BY <3>2, <2>1 DEF TasksOK
      <4>4. QED
        BY <2>1, <4>1, <4>2, <4>3 DEF TasksOK
    <3>3. QED
      BY <2>1, <3>1, <3>2
  <2>7. WorkerOK'
    BY <2>1, <2>4 DEF WorkerOK
  <2>8. Opened'
    <3>1. \A t \in Subs : task'[t] \in {"off", "finishing", "accepting"} => task'[t] = task[t]
      BY <2>1 DEF TasksOK
    <3>2. QED
      BY <2>1, <3>1 DEF Opened
  <2>9. Owned'
    BY <2>1 DEF Owned, client
  <2>10. QED
    BY <2>5, <2>6, <2>7, <2>8, <2>9 DEF TypeInv, TypeOK
<1>16. ASSUME NEW s \in Subs, TaskReadEnds(s) PROVE TypeInv'
  <2>1. ClientOK'
    BY <1>16 DEF TaskReadEnds, ClientOK, client
  <2>2. CallsOK'
    BY <1>16 DEF TaskReadEnds, CallsOK, calls
  <2>3. TasksOK' /\ WorkerOK' /\ Opened' /\ Owned'
    BY <1>16, EndKeepsTypes DEF TaskReadEnds
  <2>4. QED
    BY <2>1, <2>2, <2>3 DEF TypeInv, TypeOK
<1>17. ASSUME NEW s \in Subs, TaskForward(s) PROVE TypeInv'
  <2>1. ClientOK'
    BY <1>17 DEF TaskForward, ClientOK, client
  <2>2. CallsOK'
    BY <1>17 DEF TaskForward, CallsOK, calls
  <2>3. TasksOK'
    <3>1. /\ task[s] = "forwarding" /\ Len(given[s]) - read[s] < StreamCap
          /\ given' = [given EXCEPT ![s] = Append(given[s], hand[s])]
          /\ hand' = [hand EXCEPT ![s] = NoEvent]
          /\ task' = [task EXCEPT ![s] = "reading"]
          /\ UNCHANGED <<via, reads, read, reader, crowded>>
      BY <1>17 DEF TaskForward, Room
    <3>2. /\ task' \in [Subs -> TaskState] /\ hand' \in [Subs -> Event \cup {NoEvent}]
          /\ \A t \in Subs : task'[t] = "forwarding" => hand'[t] \in Event
      BY <3>1 DEF TasksOK, TaskState, Active
    <3>3. \A t \in Subs : /\ task'[t] \in Active => via[t] # 0
                          /\ task'[t] \in {"reading", "forwarding"} => reads[t] # None
      BY <3>1 DEF TasksOK, Active
    <3>4. /\ given[s] \in Seq(Event) /\ hand[s] \in Event /\ read[s] \in Nat
          /\ read[s] <= Len(given[s])
      BY <3>1 DEF TasksOK
    <3>5. /\ Append(given[s], hand[s]) \in Seq(Event)
          /\ read[s] <= Len(Append(given[s], hand[s]))
          /\ Len(Append(given[s], hand[s])) - read[s] <= StreamCap
      BY <3>1, <3>4
    <3>6. /\ given' \in [Subs -> Seq(Event)]
          /\ \A t \in Subs : read[t] <= Len(given'[t]) /\ Len(given'[t]) - read[t] <= StreamCap
      BY <3>1, <3>5 DEF TasksOK
    <3>7. QED
      BY <3>1, <3>2, <3>3, <3>6 DEF TasksOK
  <2>4. WorkerOK'
    BY <1>17 DEF TaskForward, WorkerOK, worker
  <2>5. Opened'
    BY <1>17 DEF TaskForward, Opened, worker
  <2>6. Owned'
    BY <1>17 DEF TaskForward, Owned, client, worker
  <2>7. QED
    BY <2>1, <2>2, <2>3, <2>4, <2>5, <2>6 DEF TypeInv, TypeOK
<1>18. ASSUME NEW s \in Subs, TaskAbandoned(s) PROVE TypeInv'
  <2>1. ClientOK'
    BY <1>18 DEF TaskAbandoned, ClientOK, client
  <2>2. CallsOK'
    BY <1>18 DEF TaskAbandoned, CallsOK, calls
  <2>3. TasksOK' /\ WorkerOK' /\ Opened' /\ Owned'
    BY <1>18, EndKeepsTypes DEF TaskAbandoned
  <2>4. QED
    BY <2>1, <2>2, <2>3 DEF TypeInv, TypeOK
<1>19. ASSUME NEW s \in Subs, AppRead(s) PROVE TypeInv'
  <2>1. ClientOK'
    BY <1>19 DEF AppRead, ClientOK, client
  <2>2. CallsOK'
    BY <1>19 DEF AppRead, CallsOK, calls
  <2>3. TasksOK'
    BY <1>19 DEF AppRead, TasksOK
  <2>4. WorkerOK'
    BY <1>19 DEF AppRead, WorkerOK, worker
  <2>5. Opened'
    BY <1>19 DEF AppRead, Opened, worker
  <2>6. Owned'
    BY <1>19 DEF AppRead, Owned, client, worker
  <2>7. QED
    BY <2>1, <2>2, <2>3, <2>4, <2>5, <2>6 DEF TypeInv, TypeOK
<1>20. ASSUME NEW s \in Subs, AppDrop(s) PROVE TypeInv'
  <2>1. ClientOK'
    BY <1>20 DEF AppDrop, ClientOK, client
  <2>2. CallsOK'
    BY <1>20 DEF AppDrop, CallsOK, calls
  <2>3. TasksOK'
    BY <1>20 DEF AppDrop, TasksOK
  <2>4. WorkerOK'
    BY <1>20 DEF AppDrop, WorkerOK, worker
  <2>5. Opened'
    BY <1>20 DEF AppDrop, Opened, worker
  <2>6. Owned'
    BY <1>20 DEF AppDrop, Owned, client, worker
  <2>7. QED
    BY <2>1, <2>2, <2>3, <2>4, <2>5, <2>6 DEF TypeInv, TypeOK
<1>21. ASSUME NEW s \in Subs, WorkerOpens(s) PROVE TypeInv'
  <2>1. ClientOK'
    BY <1>21 DEF WorkerOpens, ClientOK, client
  <2>2. CallsOK'
    BY <1>21 DEF WorkerOpens, CallsOK, calls
  <2>3. TasksOK'
    BY <1>21 DEF WorkerOpens, TasksOK, tasks
  <2>4. WorkerOK'
    <3>1. served[s] # "no" /\ via[s] \in Sessions
      <4>1. served[s] = "asked"
        BY <1>21 DEF WorkerOpens
      <4>2. via[s] # 0
        BY <4>1 DEF WorkerOK
      <4>3. QED
        BY <4>1, <4>2, SessionRange DEF TasksOK
    <3>2. Append(offered[via[s]], s) \in Seq(Subs)
      BY <3>1 DEF WorkerOK
    <3>3. offered' \in [Sessions -> Seq(Subs)]
      BY <1>21, <3>1, <3>2 DEF WorkerOpens, WorkerOK
    <3>4. served' = [served EXCEPT ![s] = "open"]
      BY <1>21 DEF WorkerOpens
    <3>5. UNCHANGED <<via, link, answered, pipe, events>>
      BY <1>21 DEF WorkerOpens, tasks
    <3>6. served' \in [Subs -> {"no", "asked", "open", "finished"}]
      BY <3>4 DEF WorkerOK
    <3>7. \A k \in Subs : served'[k] # "no" => via[k] # 0
      BY <3>1, <3>4, SessionRange DEF WorkerOK
    <3>8. QED
      BY <3>3, <3>5, <3>6, <3>7 DEF WorkerOK
  <2>5. Opened'
    <3> DEFINE g == via[s]
    <3>1. /\ served[s] = "asked" /\ served' = [served EXCEPT ![s] = "open"]
          /\ offered' = [offered EXCEPT ![g] = Append(offered[g], s)]
          /\ task' = task /\ via' = via /\ reads' = reads
      BY <1>21 DEF WorkerOpens, tasks
    <3>2. g \in Sessions /\ offered[g] \in Seq(Subs)
      BY <3>1, SessionRange DEF WorkerOK, TasksOK
    <3>3. \A i \in 1..Len(Append(offered[g], s)) :
              \/ i \in 1..Len(offered[g]) /\ Append(offered[g], s)[i] = offered[g][i]
              \/ Append(offered[g], s)[i] = s
      BY <3>2, Back
    <3>4. \A k \in Subs : served[k] \in {"open", "finished"} => served'[k] \in {"open", "finished"}
      BY <3>1 DEF WorkerOK
    <3>5. served'[s] = "open"
      BY <3>1 DEF WorkerOK
    <3>6. ASSUME NEW h \in Sessions, NEW i \in 1..Len(offered[h])
          PROVE  served'[offered[h][i]] \in {"open", "finished"} /\ via[offered[h][i]] = h
      <4>1. offered[h] \in Seq(Subs)
        BY DEF WorkerOK
      <4>2. offered[h][i] \in Subs
        BY <4>1
      <4>3. QED
        BY <3>4, <4>2 DEF Opened
    <3>7. ASSUME NEW h \in Sessions, NEW i \in 1..Len(offered'[h])
          PROVE  served'[offered'[h][i]] \in {"open", "finished"} /\ via'[offered'[h][i]] = h
      <4>1. CASE h = g
        <5>1. offered'[h] = Append(offered[g], s)
          BY <3>1, <3>2, <4>1 DEF WorkerOK
        <5>2. QED
          BY <3>1, <3>3, <3>5, <3>6, <4>1, <5>1
      <4>2. CASE h # g
        <5>1. offered'[h] = offered[h]
          BY <3>1, <4>2
        <5>2. i \in 1..Len(offered[h])
          BY <5>1
        <5>3. served'[offered[h][i]] \in {"open", "finished"} /\ via[offered[h][i]] = h
          BY <3>6, <5>2
        <5>4. QED
          BY <3>1, <5>1, <5>3
      <4>3. QED
        BY <4>1, <4>2
    <3>8. \A k \in Subs : task'[k] = "off" => served'[k] = "no"
      BY <3>1 DEF Opened
    <3>9. \A k \in Subs : reads'[k] # None => served'[reads'[k]] \in {"open", "finished"}
      BY <3>1, <3>4 DEF Opened, TasksOK
    <3>10. QED
      BY <3>1, <3>7, <3>8, <3>9 DEF Opened
  <2>6. Owned'
    BY <1>21 DEF WorkerOpens, Owned, client
  <2>7. QED
    BY <2>1, <2>2, <2>3, <2>4, <2>5, <2>6 DEF TypeInv, TypeOK
<1>22. ASSUME NEW s \in Subs, WorkerSends(s) PROVE TypeInv'
  <2>1. ClientOK'
    BY <1>22 DEF WorkerSends, ClientOK, client
  <2>2. CallsOK'
    BY <1>22 DEF WorkerSends, CallsOK, calls
  <2>3. TasksOK'
    BY <1>22 DEF WorkerSends, TasksOK, tasks
  <2>4. WorkerOK'
    BY <1>22 DEF WorkerSends, WorkerOK, Event, tasks
  <2>5. Opened'
    BY <1>22 DEF WorkerSends, Opened, tasks
  <2>6. Owned'
    BY <1>22 DEF WorkerSends, Owned, client
  <2>7. QED
    BY <2>1, <2>2, <2>3, <2>4, <2>5, <2>6 DEF TypeInv, TypeOK
<1>23. ASSUME NEW s \in Subs, WorkerFinishes(s) PROVE TypeInv'
  <2>1. ClientOK'
    BY <1>23 DEF WorkerFinishes, ClientOK, client
  <2>2. CallsOK'
    BY <1>23 DEF WorkerFinishes, CallsOK, calls
  <2>3. TasksOK'
    BY <1>23 DEF WorkerFinishes, TasksOK, tasks
  <2>4. WorkerOK'
    BY <1>23 DEF WorkerFinishes, WorkerOK, tasks
  <2>5. Opened'
    BY <1>23 DEF WorkerFinishes, Opened, WorkerOK, tasks
  <2>6. Owned'
    BY <1>23 DEF WorkerFinishes, Owned, client
  <2>7. QED
    BY <2>1, <2>2, <2>3, <2>4, <2>5, <2>6 DEF TypeInv, TypeOK
<1>24. ASSUME NEW g \in Sessions, LinkCloses(g) PROVE TypeInv'
  <2>1. ClientOK'
    BY <1>24 DEF LinkCloses, ClientOK, client
  <2>2. CallsOK'
    BY <1>24 DEF LinkCloses, CallsOK, calls
  <2>3. TasksOK'
    BY <1>24 DEF LinkCloses, TasksOK, tasks
  <2>4. WorkerOK'
    BY <1>24 DEF LinkCloses, WorkerOK, tasks
  <2>5. Opened'
    BY <1>24 DEF LinkCloses, Opened, tasks
  <2>6. Owned'
    BY <1>24 DEF LinkCloses, Owned, WorkerOK, client
  <2>7. QED
    BY <2>1, <2>2, <2>3, <2>4, <2>5, <2>6 DEF TypeInv, TypeOK
<1>25. CASE UNCHANGED vars
  <2>1. ClientOK' /\ CallsOK' /\ TasksOK'
    BY <1>25 DEF vars, client, calls, tasks, ClientOK, CallsOK, TasksOK
  <2>2. WorkerOK' /\ Opened' /\ Owned'
    BY <1>25 DEF vars, client, tasks, worker, WorkerOK, Opened, Owned
  <2>3. QED
    BY <2>1, <2>2 DEF TypeInv, TypeOK
<1>26. QED
  BY <1>1, <1>2, <1>3, <1>4, <1>5, <1>6, <1>7, <1>8, <1>9, <1>10, <1>11, <1>12, <1>13, <1>14,
     <1>15, <1>16, <1>17, <1>18, <1>19, <1>20, <1>21, <1>22, <1>23, <1>24, <1>25
     DEF Next, CallStep, TaskStep

\* The types and the capacity bounds of TypeOK hold in every behaviour.
THEOREM Typing == Spec => []TypeInv
<1>1. QED
  BY TypeInvInit, TypeInvStep, PTL DEF Spec

\* Every variable keeps its type and each subscription channel its capacity.
THEOREM TypeCorrect == Spec => []TypeOK
<1>1. TypeInv => TypeOK
  BY DEF TypeInv
<1>2. QED
  BY <1>1, Typing, PTL

\* connect(), which callers repeat, never leaves two connections open, and a
\* connected transport holds one.
THEOREM SingleConnection == Spec => []OneConnection
<1>1. TypeInv => OneConnection
  BY SessionRange DEF TypeInv, Owned, OneConnection
<1>2. QED
  BY <1>1, Typing, PTL
-----------------------------------------------------------------------------
\* Streams of connection g that are asked for or on offer: the ones a
\* subscription that waits on g may get.
Pending(g) ==
    {s \in Subs : \/ served[s] = "asked" /\ via[s] = g
                  \/ \E i \in 1..Len(offered[g]) : offered[g][i] = s}

\* A stream is offered once, and a connection is used once it was dialed.
Offered ==
    /\ \A g \in Sessions : \A i, j \in 1..Len(offered[g]) : offered[g][i] = offered[g][j] => i = j
    /\ \A s \in Subs : via[s] # 0 => link[via[s]] # "unused"

\* On an open connection there is a stream for each subscription that waits, and
\* none beside: a subscription that finds nobody waiting finds nothing to take.
Balanced ==
    \A g \in Sessions : link[g] = "up" => Cardinality(Waiting(g)) = Cardinality(Pending(g))

\* Who waits and never had company is alone, with no stream but its own.
Alone ==
    \A g \in Sessions : \A s \in Waiting(g) \ crowded : Waiting(g) = {s} /\ Pending(g) \subseteq {s}

SoloInv == Offered /\ Balanced /\ Alone /\ AloneGetsOwn

\* Where a subscription waits for its stream.
Early == {"finishing", "accepting"}

\* Subscriptions that wait and streams that are pending are finite sets.
LEMMA FiniteSides ==
    ASSUME NEW g
    PROVE  IsFiniteSet(Waiting(g)) /\ IsFiniteSet(Pending(g))
<1>1. Waiting(g) \in SUBSET Subs /\ Pending(g) \in SUBSET Subs
  BY DEF Waiting, Pending
<1>2. IsFiniteSet(Subs)
  BY ConstantsOK
<1>3. QED
  BY <1>1, <1>2, FS_Subset

\* The invariant holds in a new transport.
LEMMA SoloInit == Init => SoloInv
<1> SUFFICES ASSUME Init PROVE SoloInv
  OBVIOUS
<1>1. Offered
  BY DEF Init, Offered
<1>2. Balanced
  BY DEF Init, Balanced
<1>3. \A g \in Sessions : Waiting(g) = {}
  BY DEF Init, Waiting
<1>4. Alone /\ AloneGetsOwn
  BY <1>3 DEF Init, Alone, AloneGetsOwn
<1>5. QED
  BY <1>1, <1>2, <1>4 DEF SoloInv

\* A step that opens no connection, offers and takes no stream and starts or
\* ends nobody's waiting keeps the invariant.
LEMMA SoloFramed ==
    ASSUME SoloInv,
           \A s \in Subs : task'[s] \in Early <=> task[s] \in Early,
           \A s \in Subs : served'[s] = "asked" <=> served[s] = "asked",
           \A g \in Sessions : link'[g] = "up" => link[g] = "up",
           \A g \in Sessions : link'[g] = "unused" => link[g] = "unused",
           TasksOK,
           UNCHANGED <<via, offered, reads, crowded>>
    PROVE  SoloInv'
<1>1. \A g \in Sessions : Waiting(g)' = Waiting(g)
  BY DEF Waiting, Early
<1>2. \A g \in Sessions : Pending(g)' = Pending(g)
  BY DEF Pending
<1>3. Offered'
  BY SessionRange DEF SoloInv, Offered, TasksOK
<1>4. Balanced'
  BY <1>1, <1>2 DEF SoloInv, Balanced
<1>5. Alone'
  BY <1>1, <1>2 DEF SoloInv, Alone
<1>6. AloneGetsOwn'
  BY DEF SoloInv, AloneGetsOwn
<1>7. QED
  BY <1>3, <1>4, <1>5, <1>6 DEF SoloInv

\* A new connection finds nobody waiting on it and no stream pending.
LEMMA SoloDial ==
    ASSUME TypeInv, SoloInv, ConnectDial
    PROVE  SoloInv'
<1> USE DEF TypeInv, TypeOK
<1>1. PICK g \in Sessions : link[g] = "unused" /\ link' = [link EXCEPT ![g] = "up"]
  BY DEF ConnectDial
<1>2. UNCHANGED <<task, via, reads, crowded, served, offered>>
  BY DEF ConnectDial, tasks
<1>3. \A s \in Subs : via[s] # g
  BY <1>1, SessionRange DEF SoloInv, Offered
<1>4. Waiting(g) = {}
  BY <1>3 DEF Waiting
<1>5. Pending(g) = {}
  <2>1. ASSUME NEW i \in 1..Len(offered[g]) PROVE FALSE
    <3>1. offered[g] \in Seq(Subs)
      BY DEF WorkerOK
    <3>2. offered[g][i] \in Subs
      BY <3>1
    <3>3. QED
      BY <1>3, <3>2 DEF Opened
  <2>2. QED
    BY <1>3, <2>1 DEF Pending
<1>6. \A h \in Sessions : Waiting(h)' = Waiting(h) /\ Pending(h)' = Pending(h)
  BY <1>2 DEF Waiting, Pending
<1>7. Offered'
  BY <1>1, <1>2, SessionRange DEF SoloInv, Offered, TasksOK, WorkerOK
<1>8. Balanced'
  BY <1>1, <1>4, <1>5, <1>6 DEF SoloInv, Balanced, WorkerOK
<1>9. Alone' /\ AloneGetsOwn'
  BY <1>2, <1>6 DEF SoloInv, Alone, AloneGetsOwn
<1>10. QED
  BY <1>7, <1>8, <1>9 DEF SoloInv

\* A new subscription brings its request with it.  When nobody waits, nothing
\* was pending and it is alone; otherwise all of them are crowded.
LEMMA SoloStart ==
    ASSUME TypeInv, SoloInv, NEW s \in Subs, SubscribeStart(s)
    PROVE  SoloInv'
<1> USE DEF TypeInv, TypeOK
<1>0. connection \in Sessions
  BY SessionRange DEF SubscribeStart, ClientOK
<1> PICK g \in Sessions : g = connection
  BY <1>0
<1>1. /\ task[s] = "off" /\ g # 0 /\ link[g] = "up"
      /\ task' = [task EXCEPT ![s] = "finishing"]
      /\ via' = [via EXCEPT ![s] = g]
      /\ served' = [served EXCEPT ![s] = "asked"]
      /\ crowded' = IF Waiting(g) = {} THEN crowded ELSE crowded \cup {s} \cup Waiting(g)
      /\ UNCHANGED <<reads, link, offered>>
  BY DEF SubscribeStart
<1>2. g \in Sessions
  OBVIOUS
<1>3. served[s] = "no" /\ reads[s] = None
  BY <1>1 DEF Opened
<1>4. \A h \in Sessions : s \notin Waiting(h) /\ s \notin Pending(h)
  <2>1. ASSUME NEW h \in Sessions, NEW i \in 1..Len(offered[h]), offered[h][i] = s PROVE FALSE
    BY <1>3, <2>1 DEF Opened
  <2>2. QED
    BY <1>1, <1>3, <2>1 DEF Waiting, Pending
<1>5. Waiting(g)' = Waiting(g) \cup {s}
  BY <1>1 DEF Waiting, TasksOK
<1>6. Pending(g)' = Pending(g) \cup {s}
  BY <1>1 DEF Pending, TasksOK, WorkerOK
<1>7. \A h \in Sessions \ {g} : Waiting(h)' = Waiting(h)
  BY <1>1 DEF Waiting, TasksOK
<1>8. \A h \in Sessions \ {g} : Pending(h)' = Pending(h)
  BY <1>1, <1>3 DEF Pending, TasksOK, WorkerOK
<1>9. Offered'
  BY <1>1, <1>2 DEF SoloInv, Offered, TasksOK, WorkerOK
<1>10. Cardinality(Waiting(g)) = Cardinality(Pending(g))
  BY <1>1, <1>2 DEF SoloInv, Balanced
<1>11. /\ Cardinality(Waiting(g) \cup {s}) = Cardinality(Waiting(g)) + 1
       /\ Cardinality(Pending(g) \cup {s}) = Cardinality(Pending(g)) + 1
  BY <1>2, <1>4, FiniteSides, FS_AddElement
<1>12. Balanced'
  BY <1>1, <1>5, <1>6, <1>7, <1>8, <1>10, <1>11 DEF SoloInv, Balanced
<1>13. Alone'
  <2>1. CASE Waiting(g) = {}
    <3>1. Cardinality(Pending(g)) = 0
      BY <2>1, <1>10, FS_EmptySet
    <3>2. Pending(g) = {}
      BY <3>1, FiniteSides, FS_EmptySet
    <3>3. QED
      BY <1>1, <1>5, <1>6, <1>7, <1>8, <2>1, <3>2 DEF SoloInv, Alone
  <2>2. CASE Waiting(g) # {}
    <3>1. \A t \in Waiting(g)' : t \in crowded'
      BY <1>1, <1>5, <2>2
    <3>2. \A t : t \in crowded => t \in crowded'
      BY <1>1
    <3>3. QED
      BY <1>7, <1>8, <3>1, <3>2 DEF SoloInv, Alone
  <2>3. QED
    BY <2>1, <2>2
<1>14. AloneGetsOwn'
  BY <1>1 DEF SoloInv, AloneGetsOwn
<1>15. QED
  BY <1>9, <1>12, <1>13, <1>14 DEF SoloInv

\* A task that takes a stream leaves the others as many as there are streams
\* left; alone, it took its own.
LEMMA SoloAccept ==
    ASSUME TypeInv, SoloInv, NEW s \in Subs, TaskAccept(s)
    PROVE  SoloInv'
<1> USE DEF TypeInv, TypeOK
<1>0. via[s] \in Sessions
  BY SessionRange DEF TaskAccept, TasksOK, Active
<1> PICK g \in Sessions : g = via[s]
  BY <1>0
<1> DEFINE k == offered[g][1]
<1>1. /\ task[s] = "accepting" /\ offered[g] # <<>>
      /\ reads' = [reads EXCEPT ![s] = Head(offered[g])]
      /\ offered' = [offered EXCEPT ![g] = Tail(offered[g])]
      /\ task' = [task EXCEPT ![s] = "reading"]
      /\ UNCHANGED <<via, crowded, link, served>>
  BY DEF TaskAccept, OwnConnection
<1>2. g \in Sessions
  OBVIOUS
<1>3. offered[g] \in Seq(Subs)
  BY <1>2 DEF WorkerOK
<1>4. /\ Head(offered[g]) = k /\ 1 \in 1..Len(offered[g]) /\ k \in Subs
      /\ Tail(offered[g]) \in Seq(Subs)
      /\ Len(Tail(offered[g])) = Len(offered[g]) - 1
      /\ \A i \in 1..Len(Tail(offered[g])) :
              i + 1 \in 1..Len(offered[g]) /\ Tail(offered[g])[i] = offered[g][i + 1]
  BY <1>1, <1>3
<1>5. offered'[g] = Tail(offered[g]) /\ \A h \in Sessions \ {g} : offered'[h] = offered[h]
  BY <1>1, <1>2 DEF WorkerOK
<1>6. k \in Pending(g) /\ s \in Waiting(g)
  BY <1>1, <1>4 DEF Pending, Waiting
<1>7. Waiting(g)' = Waiting(g) \ {s}
  BY <1>1 DEF Waiting, TasksOK
<1>8. served[k] # "asked"
  BY <1>2, <1>4 DEF Opened
<1>9. Pending(g)' = Pending(g) \ {k}
  <2>1. \A t \in Subs : (\E i \in 1..Len(Tail(offered[g])) : Tail(offered[g])[i] = t)
                        <=> t # k /\ \E i \in 1..Len(offered[g]) : offered[g][i] = t
    <3>1. \A i \in 1..Len(offered[g]) : offered[g][i] = k => i = 1
      BY <1>2, <1>4 DEF SoloInv, Offered
    <3>2. \A i \in 1..Len(offered[g]) : i # 1 =>
              i - 1 \in 1..Len(Tail(offered[g])) /\ Tail(offered[g])[i - 1] = offered[g][i]
      BY <1>3, <1>4
    <3>3. \A i \in 1..Len(Tail(offered[g])) : i + 1 # 1
      BY <1>4
    <3>4. ASSUME NEW t \in Subs, NEW i \in 1..Len(Tail(offered[g])), Tail(offered[g])[i] = t
          PROVE  t # k /\ \E j \in 1..Len(offered[g]) : offered[g][j] = t
      <4>1. i + 1 \in 1..Len(offered[g]) /\ offered[g][i + 1] = t
        BY <1>4, <3>4
      <4>2. QED
        BY <3>1, <3>3, <3>4, <4>1
    <3>5. ASSUME NEW t \in Subs, t # k, NEW j \in 1..Len(offered[g]), offered[g][j] = t
          PROVE  \E i \in 1..Len(Tail(offered[g])) : Tail(offered[g])[i] = t
      <4>1. j # 1
        BY <1>1, <3>5
      <4>2. QED
        BY <3>2, <3>5, <4>1
    <3>6. QED
      BY <3>4, <3>5
  <2>2. Pending(g)' = {t \in Subs : \/ served[t] = "asked" /\ via[t] = g
                                   \/ \E i \in 1..Len(Tail(offered[g])) : Tail(offered[g])[i] = t}
    <3>1. served' = served /\ via' = via /\ offered'[g] = Tail(offered[g])
      BY <1>1, <1>5
    <3>2. QED
      BY <3>1 DEF Pending
  <2>3. QED
    BY <1>8, <2>1, <2>2 DEF Pending
<1>10. \A h \in Sessions \ {g} : Waiting(h)' = Waiting(h)
  BY <1>1 DEF Waiting, TasksOK
<1>11. \A h \in Sessions \ {g} : Pending(h)' = Pending(h)
  BY <1>1, <1>5 DEF Pending
<1>12. Offered'
  <2>1. \A i, j \in 1..Len(offered'[g]) : offered'[g][i] = offered'[g][j] => i = j
    <3>1. \A i, j \in 1..Len(offered[g]) : offered[g][i] = offered[g][j] => i = j
      BY <1>2 DEF SoloInv, Offered
    <3>2. ASSUME NEW i \in 1..Len(Tail(offered[g])), NEW j \in 1..Len(Tail(offered[g])),
                 Tail(offered[g])[i] = Tail(offered[g])[j]
          PROVE  i = j
      <4>1. i + 1 = j + 1
        BY <1>4, <3>1, <3>2
      <4>2. QED
        BY <4>1
    <3>3. QED
      BY <1>5, <3>2
  <2>2. QED
    BY <1>1, <1>5, <2>1 DEF SoloInv, Offered
<1>13. Balanced'
  <2>1. /\ Cardinality(Waiting(g) \ {s}) = Cardinality(Waiting(g)) - 1
        /\ Cardinality(Pending(g) \ {k}) = Cardinality(Pending(g)) - 1
    BY <1>6, FiniteSides, FS_RemoveElement
  <2>2. QED
    BY <1>1, <1>2, <1>7, <1>9, <1>10, <1>11, <2>1 DEF SoloInv, Balanced
<1>14. Alone'
  BY <1>1, <1>2, <1>6, <1>7, <1>10, <1>11 DEF SoloInv, Alone
<1>15. s \notin crowded => k = s
  BY <1>2, <1>6 DEF SoloInv, Alone
<1>16. AloneGetsOwn'
  BY <1>1, <1>4, <1>15 DEF SoloInv, AloneGetsOwn, TasksOK
<1>17. QED
  BY <1>12, <1>13, <1>14, <1>16 DEF SoloInv

\* The worker turns a request into an offer.
LEMMA SoloOpens ==
    ASSUME TypeInv, SoloInv, NEW s \in Subs, WorkerOpens(s)
    PROVE  SoloInv'
<1> USE DEF TypeInv, TypeOK
<1>0. via[s] \in Sessions
  BY SessionRange DEF WorkerOpens, WorkerOK, TasksOK
<1> PICK g \in Sessions : g = via[s]
  BY <1>0
<1>1. /\ served[s] = "asked" /\ served' = [served EXCEPT ![s] = "open"]
      /\ offered' = [offered EXCEPT ![g] = Append(offered[g], s)]
      /\ UNCHANGED <<task, via, reads, crowded, link>>
  BY DEF WorkerOpens, tasks
<1>2. g \in Sessions /\ offered[g] \in Seq(Subs)
  BY DEF WorkerOK
<1>3. /\ \A i \in 1..Len(offered[g]) :
            i \in 1..Len(Append(offered[g], s)) /\ Append(offered[g], s)[i] = offered[g][i]
      /\ Len(offered[g]) + 1 \in 1..Len(Append(offered[g], s))
      /\ Append(offered[g], s)[Len(offered[g]) + 1] = s
      /\ \A i \in 1..Len(Append(offered[g], s)) :
            i \in 1..Len(offered[g]) \/ i = Len(offered[g]) + 1
  BY <1>2, Back
<1>4. offered'[g] = Append(offered[g], s) /\ \A h \in Sessions \ {g} : offered'[h] = offered[h]
  BY <1>1, <1>2 DEF WorkerOK
<1>5. \A i \in 1..Len(offered[g]) : offered[g][i] # s
  BY <1>1, <1>2 DEF Opened
<1>6. \A h \in Sessions : Waiting(h)' = Waiting(h)
  BY <1>1 DEF Waiting
<1>7. Pending(g)' = Pending(g)
  <2>1. \A t \in Subs : (\E i \in 1..Len(Append(offered[g], s)) : Append(offered[g], s)[i] = t)
                        <=> t = s \/ \E i \in 1..Len(offered[g]) : offered[g][i] = t
    <3>1. ASSUME NEW t \in Subs, NEW i \in 1..Len(Append(offered[g], s)),
                 Append(offered[g], s)[i] = t
          PROVE  t = s \/ \E j \in 1..Len(offered[g]) : offered[g][j] = t
      BY <1>3, <3>1
    <3>2. ASSUME NEW t \in Subs, NEW j \in 1..Len(offered[g]), offered[g][j] = t
          PROVE  \E i \in 1..Len(Append(offered[g], s)) : Append(offered[g], s)[i] = t
      BY <1>3, <3>2
    <3>3. \E i \in 1..Len(Append(offered[g], s)) : Append(offered[g], s)[i] = s
      BY <1>3
    <3>4. QED
      BY <3>1, <3>2, <3>3
  <2>2. Pending(g)' = {t \in Subs : \/ served'[t] = "asked" /\ via[t] = g
                                   \/ \E i \in 1..Len(Append(offered[g], s)) :
                                          Append(offered[g], s)[i] = t}
    <3>1. via' = via /\ offered'[g] = Append(offered[g], s)
      BY <1>1, <1>4
    <3>2. QED
      BY <3>1 DEF Pending
  <2>3. \A t \in Subs : served'[t] = "asked" <=> t # s /\ served[t] = "asked"
    BY <1>1 DEF WorkerOK
  <2>4. QED
    BY <1>1, <2>1, <2>2, <2>3 DEF Pending
<1>8. \A h \in Sessions \ {g} : Pending(h)' = Pending(h)
  BY <1>1, <1>4 DEF Pending, WorkerOK
<1>9. Offered'
  <2>1. \A i, j \in 1..Len(offered'[g]) : offered'[g][i] = offered'[g][j] => i = j
    <3>1. \A i, j \in 1..Len(offered[g]) : offered[g][i] = offered[g][j] => i = j
      BY <1>2 DEF SoloInv, Offered
    <3>2. QED
      BY <1>3, <1>4, <1>5, <3>1
  <2>2. QED
    BY <1>1, <1>4, <2>1 DEF SoloInv, Offered
<1>10. Balanced'
  BY <1>1, <1>6, <1>7, <1>8 DEF SoloInv, Balanced
<1>11. Alone' /\ AloneGetsOwn'
  BY <1>1, <1>6, <1>7, <1>8 DEF SoloInv, Alone, AloneGetsOwn
<1>12. QED
  BY <1>9, <1>10, <1>11 DEF SoloInv

\* A task ends while it waits: the connection is closed, and what the others
\* have is not less.
LEMMA SoloEnds ==
    ASSUME TypeInv, SoloInv, NEW s \in Subs, Ends(s),
           task[s] # "accepting" \/ link[via[s]] = "closed",
           task[s] # "finishing",
           UNCHANGED <<via, reads, crowded, offered>>
    PROVE  SoloInv'
<1> USE DEF TypeInv, TypeOK
<1>1. /\ task' = [task EXCEPT ![s] = "ended"]
      /\ \A k \in Subs : served'[k] = IF k = reads[s] THEN "finished" ELSE served[k]
  BY DEF Ends
<1>2. \A h \in Sessions : /\ link'[h] = "up" => link[h] = "up"
                          /\ link'[h] = "unused" => link[h] = "unused"
  BY DEF Ends
<1>3. \A k \in Subs : served'[k] = "asked" <=> served[k] = "asked"
  BY <1>1, ConstantsOK DEF Opened
<1>4. \A h \in Sessions : Pending(h)' = Pending(h)
  BY <1>3 DEF Pending
<1>5. \A h \in Sessions : /\ Waiting(h)' = Waiting(h) \ {s}
                          /\ s \in Waiting(h) => link[h] = "closed"
  BY <1>1 DEF Waiting, TasksOK
<1>6. Offered'
  BY <1>2, SessionRange DEF SoloInv, Offered, TasksOK
<1>7. Balanced'
  <2>1. ASSUME NEW h \in Sessions, link'[h] = "up"
        PROVE  Waiting(h)' = Waiting(h) /\ link[h] = "up"
    BY <1>2, <1>5, <2>1
  <2>2. QED
    BY <1>4, <2>1 DEF SoloInv, Balanced
<1>8. Alone' /\ AloneGetsOwn'
  BY <1>4, <1>5 DEF SoloInv, Alone, AloneGetsOwn
<1>9. QED
  BY <1>6, <1>7, <1>8 DEF SoloInv

\* No step lets a subscription that was alone take another one's stream.
LEMMA SoloStep == TypeInv /\ SoloInv /\ [Next]_vars => SoloInv'
<1> SUFFICES ASSUME TypeInv, SoloInv, [Next]_vars PROVE SoloInv'
  OBVIOUS
<1>0. TasksOK /\ WorkerOK /\ Opened
  BY DEF TypeInv, TypeOK
<1>1. ASSUME ConnectDial PROVE SoloInv'
  BY <1>1, SoloDial
<1>2. ASSUME ConnectAccepted PROVE SoloInv'
  BY <1>0, <1>2, SoloFramed DEF ConnectAccepted, tasks, worker
<1>3. ASSUME ConnectRefused PROVE SoloInv'
  <2>1. \A g \in Sessions : link'[g] = link[g] \/ link'[g] = "closed"
    BY <1>3 DEF ConnectRefused
  <2>2. QED
    BY <1>0, <1>3, <2>1, SoloFramed DEF ConnectRefused, tasks
<1>4. ASSUME Disconnect PROVE SoloInv'
  <2>1. \A g \in Sessions : link'[g] = link[g] \/ link'[g] = "closed"
    BY <1>4 DEF Disconnect
  <2>2. QED
    BY <1>0, <1>4, <2>1, SoloFramed DEF Disconnect, tasks
<1>5. ASSUME DisconnectReturns PROVE SoloInv'
  BY <1>0, <1>5, SoloFramed DEF DisconnectReturns, tasks, worker
<1>6. ASSUME Drop PROVE SoloInv'
  <2>1. \A g \in Sessions : link'[g] = link[g] \/ link'[g] = "closed"
    BY <1>6 DEF Drop
  <2>2. QED
    BY <1>0, <1>6, <2>1, SoloFramed DEF Drop, tasks
<1>7. ASSUME NEW c \in Calls, CallStart(c) PROVE SoloInv'
  BY <1>0, <1>7, SoloFramed DEF CallStart, tasks, worker
<1>8. ASSUME NEW c \in Calls, CallStep(c) PROVE SoloInv'
  BY <1>0, <1>8, SoloFramed DEF CallStep, CallAnswered, CallFails, Returns, tasks
<1>9. ASSUME NEW c \in Calls, WorkerAnswers(c) PROVE SoloInv'
  BY <1>0, <1>9, SoloFramed DEF WorkerAnswers, tasks
<1>10. ASSUME NEW s \in Subs, SubscribeStart(s) PROVE SoloInv'
  BY <1>10, SoloStart
<1>11. ASSUME NEW s \in Subs, SubscribeSpawn(s) PROVE SoloInv'
  <2>1. \A t \in Subs : task'[t] \in Early <=> task[t] \in Early
    BY <1>0, <1>11 DEF SubscribeSpawn, TasksOK, Early
  <2>2. QED
    BY <1>0, <1>11, <2>1, SoloFramed DEF SubscribeSpawn, worker
<1>12. ASSUME NEW s \in Subs, TaskAccept(s) PROVE SoloInv'
  BY <1>12, SoloAccept
<1>13. ASSUME NEW s \in Subs, TaskAcceptFails(s) PROVE SoloInv'
  BY <1>13, SoloEnds DEF TaskAcceptFails
<1>14. ASSUME NEW s \in Subs, TaskRead(s) PROVE SoloInv'
  <2>1. \A t \in Subs : task'[t] \in Early <=> task[t] \in Early
    BY <1>0, <1>14 DEF TaskRead, TasksOK, Early
  <2>2. QED
    BY <1>0, <1>14, <2>1, SoloFramed DEF TaskRead
<1>15. ASSUME NEW s \in Subs, TaskReadEnds(s) PROVE SoloInv'
  BY <1>15, SoloEnds DEF TaskReadEnds
<1>16. ASSUME NEW s \in Subs, TaskForward(s) PROVE SoloInv'
  <2>1. \A t \in Subs : task'[t] \in Early <=> task[t] \in Early
    BY <1>0, <1>16 DEF TaskForward, TasksOK, Early
  <2>2. QED
    BY <1>0, <1>16, <2>1, SoloFramed DEF TaskForward, worker
<1>17. ASSUME NEW s \in Subs, TaskAbandoned(s) PROVE SoloInv'
  BY <1>17, SoloEnds DEF TaskAbandoned
<1>18. ASSUME NEW s \in Subs, AppRead(s) \/ AppDrop(s) PROVE SoloInv'
  BY <1>0, <1>18, SoloFramed DEF AppRead, AppDrop, worker
<1>19. ASSUME NEW s \in Subs, WorkerOpens(s) PROVE SoloInv'
  BY <1>19, SoloOpens
<1>20. ASSUME NEW s \in Subs, WorkerSends(s) PROVE SoloInv'
  BY <1>0, <1>20, SoloFramed DEF WorkerSends, tasks
<1>21. ASSUME NEW s \in Subs, WorkerFinishes(s) PROVE SoloInv'
  <2>1. \A t \in Subs : served'[t] = "asked" <=> served[t] = "asked"
    BY <1>0, <1>21 DEF WorkerFinishes, WorkerOK
  <2>2. QED
    BY <1>0, <1>21, <2>1, SoloFramed DEF WorkerFinishes, tasks
<1>22. ASSUME NEW g \in Sessions, LinkCloses(g) PROVE SoloInv'
  <2>1. \A h \in Sessions : link'[h] = link[h] \/ link'[h] = "closed"
    BY <1>22 DEF LinkCloses
  <2>2. QED
    BY <1>0, <1>22, <2>1, SoloFramed DEF LinkCloses, tasks
<1>23. CASE UNCHANGED vars
  BY <1>0, <1>23, SoloFramed DEF vars, tasks, worker
<1>24. QED
  BY <1>1, <1>2, <1>3, <1>4, <1>5, <1>6, <1>7, <1>8, <1>9, <1>10, <1>11, <1>12, <1>13, <1>14,
     <1>15, <1>16, <1>17, <1>18, <1>19, <1>20, <1>21, <1>22, <1>23 DEF Next, TaskStep

\* A subscription that waited for its stream alone reads the stream the worker
\* opened for it: subscriptions that failed or ended before leave nothing on an
\* open connection that accept_uni() could hand to it.
THEOREM OwnStreamWhenAlone == Spec => []AloneGetsOwn
<1>1. SoloInv => AloneGetsOwn
  BY DEF SoloInv
<1>2. QED
  BY <1>1, SoloInit, SoloStep, Typing, PTL DEF Spec

-----------------------------------------------------------------------------
\* The messages of a stream are later than message n.
Later(n, q) == \A i \in 1..Len(q) : q[i] # End => n < q[i].id

\* They are in the order they were sent.
Ascending(q) == \A i, j \in 1..Len(q) : i < j /\ q[i] # End /\ q[j] # End => q[i].id < q[j].id

\* None of them is later than the last one sent.
Past(q) == \A i \in 1..Len(q) : q[i] # End => q[i].id <= events

PipesOK == \A k \in Subs : Ascending(pipe[k]) /\ Past(pipe[k])

\* What a task has in hand is of its type, was sent before, and is earlier than
\* what its stream still holds.
HandsOK ==
    \A s \in Subs : task[s] = "forwarding" =>
        hand[s].to = StreamOf[s] /\ hand[s].id <= events /\ Later(hand[s].id, pipe[reads[s]])

\* What a task has handed over is earlier than what it has in hand and than
\* what its stream still holds.
GivenOK ==
    \A s \in Subs :
        /\ reads[s] = None => given[s] = <<>>
        /\ \A i \in 1..Len(given[s]) :
            /\ given[s][i].id <= events
            /\ task[s] \in {"reading", "forwarding"} => Later(given[s][i].id, pipe[reads[s]])
            /\ task[s] = "forwarding" => given[s][i].id < hand[s].id

OrderInv == PipesOK /\ HandsOK /\ GivenOK /\ OwnTypeInOrder

\* The invariant holds in a new transport.
LEMMA OrderInit == Init => OrderInv
BY DEF Init, OrderInv, PipesOK, HandsOK, GivenOK, OwnTypeInOrder, Ascending, Past

\* What no step but the worker's sending adds to, a step that shortens pipes at
\* most keeps.
LEMMA OrderFramed ==
    ASSUME OrderInv, TasksOK,
           \A k \in Subs : pipe'[k] = pipe[k] \/ pipe'[k] = <<>>,
           \A s \in Subs : task'[s] \in {"reading", "forwarding"} => task'[s] = task[s],
           \A s \in Subs : task'[s] = "forwarding" => hand'[s] = hand[s],
           UNCHANGED <<reads, given, events>>
    PROVE  OrderInv'
<1>1. PipesOK'
  BY DEF OrderInv, PipesOK, Ascending, Past
<1>2. \A s \in Subs : task'[s] \in {"reading", "forwarding"} =>
          /\ pipe'[reads[s]] = pipe[reads[s]] \/ pipe'[reads[s]] = <<>>
  BY DEF TasksOK
<1>3. \A n, q : q = <<>> => Later(n, q)
  BY DEF Later
<1>4. \A s \in Subs : \A n : task'[s] \in {"reading", "forwarding"} /\ Later(n, pipe[reads[s]]) =>
          Later(n, pipe'[reads[s]])
  BY <1>2, <1>3
<1>6. HandsOK'
  BY <1>4 DEF OrderInv, HandsOK
<1>7. GivenOK'
  BY <1>4 DEF OrderInv, GivenOK
<1>8. OwnTypeInOrder'
  BY DEF OrderInv, OwnTypeInOrder
<1>9. QED
  BY <1>1, <1>6, <1>7, <1>8 DEF OrderInv

\* A message and the marker of a stream's end differ.
LEMMA EndIsNoEvent == End \notin Event /\ \A m \in Event : m.id \in 1..MaxEvents
BY DEF End, Event

\* Taking the first message of a stream.
LEMMA FrontInOrder ==
    ASSUME NEW q \in Seq(Event \cup {End}), q # <<>>, Ascending(q), Past(q)
    PROVE  /\ Ascending(Tail(q)) /\ Past(Tail(q))
           /\ \A n : Later(n, q) => Later(n, Tail(q)) /\ (Head(q) # End => n < Head(q).id)
           /\ Head(q) # End => Later(Head(q).id, Tail(q)) /\ Head(q).id <= events
<1>1. /\ Head(q) = q[1] /\ 1 \in 1..Len(q)
      /\ \A i \in 1..Len(Tail(q)) : i + 1 \in 1..Len(q) /\ Tail(q)[i] = q[i + 1] /\ 1 < i + 1
  BY Front
<1>2. Ascending(Tail(q))
  BY <1>1 DEF Ascending
<1>3. Past(Tail(q)) /\ (Head(q) # End => Head(q).id <= events)
  BY <1>1 DEF Past
<1>4. \A n : Later(n, q) => Later(n, Tail(q)) /\ (Head(q) # End => n < Head(q).id)
  BY <1>1 DEF Later
<1>5. Head(q) # End => Later(Head(q).id, Tail(q))
  BY <1>1 DEF Later, Ascending
<1>6. QED
  BY <1>2, <1>3, <1>4, <1>5

\* A task that takes a stream has handed nothing over.
LEMMA OrderAccept ==
    ASSUME TypeInv, OrderInv, NEW s \in Subs, TaskAccept(s)
    PROVE  OrderInv'
<1> USE DEF TypeInv, TypeOK
<1>1. /\ task[s] = "accepting"
      /\ task' = [task EXCEPT ![s] = "reading"]
      /\ \A t \in Subs : t # s => reads'[t] = reads[t]
      /\ UNCHANGED <<hand, given, pipe, events>>
  BY DEF TaskAccept, TasksOK
<1>2. given[s] = <<>>
  BY <1>1 DEF Opened, OrderInv, GivenOK
<1>3. PipesOK' /\ OwnTypeInOrder'
  BY <1>1 DEF OrderInv, PipesOK, Ascending, Past, OwnTypeInOrder
<1>4. HandsOK'
  BY <1>1 DEF OrderInv, HandsOK, TasksOK
<1>5. GivenOK'
  <2>1. ASSUME NEW t \in Subs, t # s
        PROVE  /\ reads'[t] = None => given'[t] = <<>>
               /\ \A i \in 1..Len(given'[t]) :
                    /\ given'[t][i].id <= events'
                    /\ task'[t] \in {"reading", "forwarding"} =>
                            Later(given'[t][i].id, pipe'[reads'[t]])
                    /\ task'[t] = "forwarding" => given'[t][i].id < hand'[t].id
    <3>1. task'[t] = task[t] /\ reads'[t] = reads[t] /\ hand' = hand /\ given' = given
          /\ pipe' = pipe /\ events' = events
      BY <1>1, <2>1
    <3>2. QED
      BY <3>1 DEF OrderInv, GivenOK
  <2>2. given'[s] = <<>> /\ Len(given'[s]) = 0
    BY <1>1, <1>2
  <2>3. QED
    BY <2>1, <2>2 DEF GivenOK
<1>6. QED
  BY <1>3, <1>4, <1>5 DEF OrderInv

\* A task that reads a message takes the earliest of its stream.
LEMMA OrderRead ==
    ASSUME TypeInv, OrderInv, NEW s \in Subs, TaskRead(s)
    PROVE  OrderInv'
<1> USE DEF TypeInv, TypeOK
<1>0. reads[s] \in Subs
  BY DEF TaskRead, TasksOK
<1> PICK k \in Subs : k = reads[s]
  BY <1>0
<1> DEFINE m == Head(pipe[k])
<1>1. /\ task[s] = "reading" /\ pipe[k] # <<>> /\ m # End
      /\ pipe' = [pipe EXCEPT ![k] = Tail(pipe[k])]
      /\ \/ /\ task' = [task EXCEPT ![s] = "forwarding"]
            /\ hand' = [hand EXCEPT ![s] = m]
            /\ m.to = StreamOf[s]
         \/ task' = task /\ hand' = hand
      /\ UNCHANGED <<reads, given, events>>
  BY DEF TaskRead, Decodes
<1>2. pipe[k] \in Seq(Event \cup {End}) /\ Ascending(pipe[k]) /\ Past(pipe[k])
  BY DEF WorkerOK, OrderInv, PipesOK
<1>3. /\ Ascending(Tail(pipe[k])) /\ Past(Tail(pipe[k]))
      /\ \A n : Later(n, pipe[k]) => Later(n, Tail(pipe[k])) /\ n < m.id
      /\ Later(m.id, Tail(pipe[k])) /\ m.id <= events
  BY <1>1, <1>2, FrontInOrder
<1>4. pipe'[k] = Tail(pipe[k]) /\ \A j \in Subs \ {k} : pipe'[j] = pipe[j]
  BY <1>1 DEF WorkerOK
<1>5. \A j \in Subs : \A n : Later(n, pipe[j]) => Later(n, pipe'[j])
  BY <1>3, <1>4
<1>6. \A j \in Subs : Ascending(pipe'[j]) /\ Past(pipe'[j])
  BY <1>3, <1>4 DEF OrderInv, PipesOK
<1>7. PipesOK'
  BY <1>1, <1>6 DEF PipesOK, Past
<1>8. OwnTypeInOrder'
  BY <1>1 DEF OrderInv, OwnTypeInOrder
<1>9. ASSUME NEW t \in Subs, t # s
      PROVE  task'[t] = task[t] /\ hand'[t] = hand[t]
  <2>1. CASE task' = task /\ hand' = hand
    BY <2>1
  <2>2. CASE task' = [task EXCEPT ![s] = "forwarding"] /\ hand' = [hand EXCEPT ![s] = m]
    BY <1>9, <2>2
  <2>3. QED
    BY <1>1, <2>1, <2>2
<1>10. \A t \in Subs : task[t] \in {"reading", "forwarding"} => reads[t] \in Subs
  BY DEF TasksOK
<1>11. HandsOK'
  <2>1. ASSUME NEW t \in Subs, task'[t] = "forwarding"
        PROVE  /\ hand'[t].to = StreamOf[t] /\ hand'[t].id <= events
               /\ Later(hand'[t].id, pipe'[reads[t]])
    <3>1. CASE t = s
      <4>1. hand'[s] = m /\ m.to = StreamOf[s]
        BY <1>1, <2>1, <3>1 DEF TasksOK
      <4>2. QED
        BY <1>3, <1>4, <3>1, <4>1
    <3>2. CASE t # s
      BY <1>5, <1>9, <1>10, <2>1, <3>2 DEF OrderInv, HandsOK
    <3>3. QED
      BY <3>1, <3>2
  <2>2. QED
    BY <1>1, <2>1 DEF HandsOK
<1>12. GivenOK'
  <2>1. ASSUME NEW t \in Subs, NEW i \in 1..Len(given[t])
        PROVE  /\ given[t][i].id <= events
               /\ task'[t] \in {"reading", "forwarding"} => Later(given[t][i].id, pipe'[reads[t]])
               /\ task'[t] = "forwarding" => given[t][i].id < hand'[t].id
    <3>1. given[t][i].id <= events
      BY DEF OrderInv, GivenOK
    <3>2. CASE t = s
      <4>1. Later(given[s][i].id, pipe[k])
        BY <1>1, <3>2 DEF OrderInv, GivenOK
      <4>2. Later(given[s][i].id, pipe'[k]) /\ given[s][i].id < m.id
        BY <1>3, <1>5, <4>1
      <4>3. task'[s] = "forwarding" => hand'[s] = m
        BY <1>1 DEF TasksOK
      <4>4. QED
        BY <3>1, <3>2, <4>2, <4>3
    <3>3. CASE t # s
      <4>1. task'[t] = task[t] /\ hand'[t] = hand[t]
        BY <1>9, <3>3
      <4>2. QED
        BY <1>5, <1>10, <3>1, <4>1 DEF OrderInv, GivenOK
    <3>4. QED
      BY <3>2, <3>3
  <2>2. \A t \in Subs : reads[t] = None => given[t] = <<>>
    BY DEF OrderInv, GivenOK
  <2>3. QED
    BY <1>1, <2>1, <2>2 DEF GivenOK
<1>13. QED
  BY <1>7, <1>8, <1>11, <1>12 DEF OrderInv

\* A task that hands a message over appends the latest so far.
LEMMA OrderForward ==
    ASSUME TypeInv, OrderInv, NEW s \in Subs, TaskForward(s)
    PROVE  OrderInv'
<1> USE DEF TypeInv, TypeOK
<1> DEFINE m == hand[s]
           new == Append(given[s], m)
<1>1. /\ task[s] = "forwarding"
      /\ given' = [given EXCEPT ![s] = new]
      /\ task' = [task EXCEPT ![s] = "reading"]
      /\ \A t \in Subs : t # s => hand'[t] = hand[t]
      /\ UNCHANGED <<reads, pipe, events>>
  BY DEF TaskForward, worker, TasksOK
<1>2. given[s] \in Seq(Event) /\ m \in Event /\ given'[s] = new
  BY <1>1 DEF TasksOK
<1>3. /\ \A i \in 1..Len(given[s]) : new[i] = given[s][i]
      /\ new[Len(given[s]) + 1] = m
      /\ \A i \in 1..Len(new) : i \in 1..Len(given[s]) \/ i = Len(given[s]) + 1
      /\ Len(given[s]) \in Nat
  BY <1>2, Back
<1>4. /\ m.to = StreamOf[s] /\ m.id <= events /\ Later(m.id, pipe[reads[s]])
      /\ \A i \in 1..Len(given[s]) :
            /\ given[s][i].id <= events /\ given[s][i].id < m.id
            /\ Later(given[s][i].id, pipe[reads[s]])
  BY <1>1 DEF OrderInv, HandsOK, GivenOK
<1>5. PipesOK'
  BY <1>1 DEF OrderInv, PipesOK, Past
<1>6. HandsOK'
  BY <1>1 DEF OrderInv, HandsOK, TasksOK
<1>7. reads[s] # None
  BY <1>1 DEF TasksOK
<1>8. \A i \in 1..Len(new) : new[i].id <= events /\ Later(new[i].id, pipe[reads[s]])
  BY <1>3, <1>4
<1>9. GivenOK'
  <2>1. ASSUME NEW t \in Subs, t # s
        PROVE  /\ reads'[t] = None => given'[t] = <<>>
               /\ \A i \in 1..Len(given'[t]) :
                    /\ given'[t][i].id <= events'
                    /\ task'[t] \in {"reading", "forwarding"} =>
                            Later(given'[t][i].id, pipe'[reads'[t]])
                    /\ task'[t] = "forwarding" => given'[t][i].id < hand'[t].id
    <3>1. /\ task'[t] = task[t] /\ reads' = reads /\ hand'[t] = hand[t] /\ given'[t] = given[t]
          /\ pipe' = pipe /\ events' = events
      BY <1>1, <2>1
    <3>2. QED
      BY <3>1 DEF OrderInv, GivenOK
  <2>2. task'[s] = "reading"
    BY <1>1 DEF TasksOK
  <2>3. QED
    BY <1>1, <1>2, <1>7, <1>8, <2>1, <2>2 DEF GivenOK
<1>10. OwnTypeInOrder'
  <2>1. \A i \in 1..Len(new) : new[i].to = StreamOf[s]
    BY <1>3, <1>4 DEF OrderInv, OwnTypeInOrder
  <2>2. \A i, j \in 1..Len(new) : i < j => new[i].id < new[j].id
    <3>1. \A i, j \in 1..Len(given[s]) : i < j => given[s][i].id < given[s][j].id
      BY DEF OrderInv, OwnTypeInOrder
    <3>2. \A i, j \in 1..Len(new) : i < j => i \in 1..Len(given[s])
      BY <1>3
    <3>3. QED
      BY <1>3, <1>4, <3>1, <3>2
  <2>3. QED
    BY <1>1, <1>2, <2>1, <2>2 DEF OrderInv, OwnTypeInOrder
<1>11. QED
  BY <1>5, <1>6, <1>9, <1>10 DEF OrderInv

\* What the worker puts on a stream, a later message or the end of the stream,
\* keeps the order.
LEMMA OrderSends ==
    ASSUME TypeInv, OrderInv, NEW s \in Subs, NEW m \in Event \cup {End},
           pipe' = [pipe EXCEPT ![s] = Append(pipe[s], m)],
           events' \in Nat, events <= events',
           m # End => events < m.id /\ m.id <= events',
           UNCHANGED tasks
    PROVE  OrderInv'
<1> USE DEF TypeInv, TypeOK
<1> DEFINE new == Append(pipe[s], m)
<1>0. UNCHANGED <<task, reads, hand, given>>
  BY DEF tasks
<1>1. pipe'[s] = new /\ \A k \in Subs \ {s} : pipe'[k] = pipe[k]
  BY DEF WorkerOK
<1>2. /\ pipe[s] \in Seq(Event \cup {End}) /\ events \in Nat
      /\ \A k \in Subs : \A i \in 1..Len(pipe[k]) : pipe[k][i] # End => pipe[k][i].id \in Nat
      /\ m # End => m.id \in Nat
  <2>1. events \in Nat
    BY ConstantsOK DEF WorkerOK
  <2>2. ASSUME NEW k \in Subs, NEW i \in 1..Len(pipe[k]), pipe[k][i] # End
        PROVE  pipe[k][i].id \in Nat
    <3>1. pipe[k] \in Seq(Event \cup {End})
      BY DEF WorkerOK
    <3>2. pipe[k][i] \in Event
      BY <2>2, <3>1
    <3>3. QED
      BY <3>2, ConstantsOK, EndIsNoEvent
  <2>3. m # End => m.id \in Nat
    BY ConstantsOK, EndIsNoEvent
  <2>4. QED
    BY <2>1, <2>2, <2>3 DEF WorkerOK
<1>3. /\ \A i \in 1..Len(pipe[s]) : new[i] = pipe[s][i]
      /\ new[Len(pipe[s]) + 1] = m
      /\ \A i \in 1..Len(new) : i \in 1..Len(pipe[s]) \/ i = Len(pipe[s]) + 1
      /\ Len(pipe[s]) \in Nat
  BY <1>2, Back
<1>4. \A n \in Nat : n <= events /\ Later(n, pipe[s]) => Later(n, new)
  BY <1>2, <1>3 DEF Later
<1>5. \A k \in Subs : \A n \in Nat : n <= events /\ Later(n, pipe[k]) => Later(n, pipe'[k])
  BY <1>1, <1>4
<1>6. PipesOK'
  <2>1. Ascending(new)
    <3>1. ASSUME NEW i \in 1..Len(new), NEW j \in 1..Len(new), i < j, new[i] # End, new[j] # End
          PROVE  new[i].id < new[j].id
      <4>1. i \in 1..Len(pipe[s]) /\ new[i] = pipe[s][i]
        BY <1>3, <3>1
      <4>2. pipe[s][i].id <= events /\ pipe[s][i].id \in Nat
        BY <1>2, <3>1, <4>1 DEF OrderInv, PipesOK, Past
      <4>3. CASE j \in 1..Len(pipe[s])
        BY <1>3, <3>1, <4>1, <4>3 DEF OrderInv, PipesOK, Ascending
      <4>4. CASE j = Len(pipe[s]) + 1
        BY <1>2, <1>3, <3>1, <4>1, <4>2, <4>4
      <4>5. QED
        BY <1>3, <4>3, <4>4
    <3>2. QED
      BY <3>1 DEF Ascending
  <2>2. ASSUME NEW k \in Subs, NEW i \in 1..Len(pipe'[k]), pipe'[k][i] # End
        PROVE  pipe'[k][i].id <= events'
    <3>1. ASSUME NEW j \in 1..Len(pipe[k]), pipe[k][j] # End PROVE pipe[k][j].id <= events'
      <4>1. pipe[k][j].id <= events
        BY <3>1 DEF OrderInv, PipesOK, Past
      <4>2. QED
        BY <1>2, <3>1, <4>1
    <3>2. CASE k = s
      <4>1. pipe'[k] = new
        BY <1>1, <3>2
      <4>2. CASE i \in 1..Len(pipe[s])
        BY <1>3, <2>2, <3>1, <3>2, <4>1, <4>2
      <4>3. CASE i = Len(pipe[s]) + 1
        <5>1. pipe'[k][i] = m
          BY <1>3, <4>1, <4>3
        <5>2. QED
          <6>1. m # End
            BY <2>2, <5>1
          <6>2. m.id <= events'
            BY <6>1
          <6>3. QED
            BY <5>1, <6>2, Zenon
      <4>4. QED
        BY <1>3, <2>2, <4>1, <4>2, <4>3
    <3>3. CASE k # s
      BY <1>1, <2>2, <3>1, <3>3
    <3>4. QED
      BY <3>2, <3>3
  <2>3. \A k \in Subs : Past(pipe[k])'
    BY <2>2 DEF Past
  <2>4. \A k \in Subs : Ascending(pipe'[k])
    <3>1. \A k \in Subs : Ascending(pipe[k])
      BY DEF OrderInv, PipesOK
    <3>2. pipe'[s] = new /\ \A k \in Subs : k # s => pipe'[k] = pipe[k]
      BY <1>1
    <3>3. QED
      BY <2>1, <3>1, <3>2
  <2>5. QED
    BY <2>3, <2>4 DEF PipesOK, Ascending
<1>7. ASSUME NEW t \in Subs, NEW n \in Nat, n <= events
      PROVE  /\ n <= events'
             /\ task[t] \in {"reading", "forwarding"} /\ Later(n, pipe[reads[t]]) =>
                    Later(n, pipe'[reads[t]])
  <2>1. n <= events'
    BY <1>2, <1>7
  <2>2. ASSUME task[t] \in {"reading", "forwarding"}
        PROVE  reads[t] \in Subs
    BY <2>2 DEF TasksOK
  <2>3. \A k \in Subs : Later(n, pipe[k]) => Later(n, pipe'[k])
    BY <1>5, <1>7
  <2>4. ASSUME task[t] \in {"reading", "forwarding"}, Later(n, pipe[reads[t]])
        PROVE  Later(n, pipe'[reads[t]])
    <3>1. reads[t] \in Subs
      BY <2>2, <2>4, Zenon
    <3>2. QED
      BY <2>3, <2>4, <3>1, Zenon
  <2>5. QED
    BY <2>1, <2>4, Zenon
<1>8. HandsOK'
  <2>1. ASSUME NEW t \in Subs, task[t] = "forwarding"
        PROVE  /\ hand[t].to = StreamOf[t] /\ hand[t].id <= events'
               /\ Later(hand[t].id, pipe'[reads[t]])
    <3>1. hand[t] \in Event
      BY <2>1 DEF TasksOK
    <3>2. hand[t].id \in Nat
      BY <3>1, ConstantsOK, EndIsNoEvent
    <3>3. QED
      BY <1>7, <2>1, <3>2 DEF OrderInv, HandsOK
  <2>2. QED
    BY <1>0, <2>1 DEF HandsOK
<1>9. GivenOK'
  <2>1. ASSUME NEW t \in Subs, NEW i \in 1..Len(given[t])
        PROVE  /\ given[t][i].id <= events'
               /\ task[t] \in {"reading", "forwarding"} => Later(given[t][i].id, pipe'[reads[t]])
               /\ task[t] = "forwarding" => given[t][i].id < hand[t].id
    <3>1. given[t] \in Seq(Event)
      BY DEF TasksOK
    <3>2. given[t][i] \in Event
      BY <3>1
    <3>3. given[t][i].id \in Nat
      BY <3>2, ConstantsOK, EndIsNoEvent
    <3>4. QED
      BY <1>7, <3>3 DEF OrderInv, GivenOK
  <2>2. QED
    BY <1>0, <2>1 DEF OrderInv, GivenOK
<1>10. OwnTypeInOrder'
  BY <1>0 DEF OrderInv, OwnTypeInOrder
<1>11. QED
  BY <1>6, <1>8, <1>9, <1>10 DEF OrderInv

\* No step brings a channel a message of another type or out of order.
LEMMA OrderStep == TypeInv /\ OrderInv /\ [Next]_vars => OrderInv'
<1> SUFFICES ASSUME TypeInv, OrderInv, [Next]_vars PROVE OrderInv'
  OBVIOUS
<1>0. TasksOK /\ WorkerOK
  BY DEF TypeInv, TypeOK
<1>1. ASSUME \/ ConnectDial \/ ConnectAccepted \/ ConnectRefused
             \/ Disconnect \/ DisconnectReturns \/ Drop
      PROVE  OrderInv'
  <2>1. UNCHANGED <<task, hand, pipe, reads, given, events>>
    BY <1>1 DEF ConnectDial, ConnectAccepted, ConnectRefused, Disconnect, DisconnectReturns,
                Drop, tasks, worker
  <2>2. QED
    BY <1>0, <2>1, OrderFramed
<1>2. ASSUME NEW c \in Calls, CallStart(c) \/ CallStep(c) \/ WorkerAnswers(c)
      PROVE  OrderInv'
  <2>1. UNCHANGED <<task, hand, pipe, reads, given, events>>
    BY <1>2 DEF CallStart, CallStep, CallAnswered, CallFails, Returns, WorkerAnswers, tasks, worker
  <2>2. QED
    BY <1>0, <2>1, OrderFramed
<1>3. ASSUME NEW s \in Subs, SubscribeStart(s) \/ SubscribeSpawn(s) PROVE OrderInv'
  <2>1. /\ \A t \in Subs : task'[t] \in {"reading", "forwarding"} => task'[t] = task[t]
        /\ UNCHANGED <<hand, pipe, reads, given, events>>
    BY <1>0, <1>3 DEF SubscribeStart, SubscribeSpawn, worker, TasksOK
  <2>2. QED
    BY <1>0, <2>1, OrderFramed
<1>4. ASSUME NEW s \in Subs, TaskAccept(s) PROVE OrderInv'
  BY <1>4, OrderAccept
<1>5. ASSUME NEW s \in Subs, TaskAcceptFails(s) \/ TaskReadEnds(s) \/ TaskAbandoned(s)
      PROVE  OrderInv'
  <2>1. Ends(s) /\ UNCHANGED <<reads, given, events>>
    BY <1>5 DEF TaskAcceptFails, TaskReadEnds, TaskAbandoned
  <2>2. /\ \A k \in Subs : pipe'[k] = pipe[k] \/ pipe'[k] = <<>>
        /\ \A t \in Subs : task'[t] \in {"reading", "forwarding"} => t # s /\ task'[t] = task[t]
        /\ \A t \in Subs : t # s => hand'[t] = hand[t]
    BY <1>0, <2>1 DEF Ends, TasksOK
  <2>3. QED
    BY <1>0, <2>1, <2>2, OrderFramed
<1>6. ASSUME NEW s \in Subs, TaskRead(s) PROVE OrderInv'
  BY <1>6, OrderRead
<1>7. ASSUME NEW s \in Subs, TaskForward(s) PROVE OrderInv'
  BY <1>7, OrderForward
<1>8. ASSUME NEW s \in Subs, AppRead(s) \/ AppDrop(s) \/ WorkerOpens(s) PROVE OrderInv'
  <2>1. UNCHANGED <<task, hand, pipe, reads, given, events>>
    BY <1>8 DEF AppRead, AppDrop, WorkerOpens, tasks, worker
  <2>2. QED
    BY <1>0, <2>1, OrderFramed
<1>9. ASSUME NEW s \in Subs, WorkerSends(s) PROVE OrderInv'
  <2> DEFINE m == [to |-> StreamOf[s], id |-> events + 1]
  <2>1. /\ events < MaxEvents /\ events' = events + 1 /\ UNCHANGED tasks
        /\ pipe' = [pipe EXCEPT ![s] = Append(pipe[s], m)]
    BY <1>9 DEF WorkerSends
  <2>2. events \in Nat /\ events + 1 \in 1..MaxEvents
    BY <1>0, <2>1, ConstantsOK DEF WorkerOK
  <2>3. m \in Event \cup {End}
    BY <2>2, ConstantsOK DEF Event
  <2>4. /\ events' \in Nat /\ events <= events'
        /\ m # End => events < m.id /\ m.id <= events'
    BY <2>1, <2>2
  <2>5. QED
    BY <2>1, <2>3, <2>4, OrderSends
<1>10. ASSUME NEW s \in Subs, WorkerFinishes(s) PROVE OrderInv'
  <2>1. /\ events' = events /\ UNCHANGED tasks
        /\ pipe' = [pipe EXCEPT ![s] = Append(pipe[s], End)]
    BY <1>10 DEF WorkerFinishes
  <2>2. /\ events' \in Nat /\ events <= events'
        /\ End \in Event \cup {End}
    BY <1>0, <2>1, ConstantsOK DEF WorkerOK
  <2>3. QED
    BY <2>1, <2>2, OrderSends
<1>11. ASSUME NEW g \in Sessions, LinkCloses(g) PROVE OrderInv'
  <2>1. UNCHANGED <<task, hand, pipe, reads, given, events>>
    BY <1>11 DEF LinkCloses, tasks
  <2>2. QED
    BY <1>0, <2>1, OrderFramed
<1>12. CASE UNCHANGED vars
  <2>1. UNCHANGED <<task, hand, pipe, reads, given, events>>
    BY <1>12 DEF vars, tasks, worker
  <2>2. QED
    BY <1>0, <2>1, OrderFramed
<1>13. QED
  BY <1>1, <1>2, <1>3, <1>4, <1>5, <1>6, <1>7, <1>8, <1>9, <1>10, <1>11, <1>12 DEF Next, TaskStep

\* A subscription's channel carries messages of its own type only, in the order
\* the worker sent them, whichever stream its task took with accept_uni().
THEOREM OwnTypeOrdered == Spec => []OwnTypeInOrder
<1>1. OrderInv => OwnTypeInOrder
  BY DEF OrderInv
<1>2. QED
  BY <1>1, OrderInit, OrderStep, Typing, PTL DEF Spec

=============================================================================
