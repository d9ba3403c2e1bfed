-------------------------- MODULE StreamTransports_proofs --------------------------
(***************************************************************************)
(* Proofs about StreamTransports, for every value of its constants: its      *)
(* types, and that it keeps the promise of Subscriptions.                   *)
(***************************************************************************)
EXTENDS StreamTransports, SequenceTheorems, TLAPS

\* The bounds are numbers, and a subscription has one of the stream types.
LEMMA Bounds ==
    /\ StreamCap \in Nat \ {0} /\ MaxEvents \in Nat
    /\ \A s \in Subs : StreamOf[s] \in Streams
BY ConstantsOK DEF ConstantsOK

-----------------------------------------------------------------------------
(* The invariant.  Everything it says of the tasks it says of each alone.    *)

TasksTyped ==
    /\ task \in [Subs -> TaskState]
    /\ cursor \in [Subs -> 0..MaxEvents] /\ hand \in [Subs -> 0..MaxEvents]
    /\ given \in [Subs -> Seq(1..MaxEvents)]
    /\ reader \in [Subs -> BOOLEAN]
    /\ read \in [Subs -> Nat]

ChannelOK(s) ==
    /\ read[s] \in 0..Len(given[s]) /\ Len(given[s]) - read[s] <= StreamCap
    /\ cursor[s] <= published[StreamOf[s]]
    /\ task[s] = "sending" <=> hand[s] # 0

\* A gRPC task neither polls nor sleeps, and there are no messages before the
\* subscription is open.
StageOK(s) ==
    /\ kind = "grpc" => task[s] \notin {"polling", "sleeping"}
    /\ task[s] \in {"off", "asking"} => given[s] = <<>>

\* The message at hand is the one at the cursor.  The last one given is at the
\* cursor, or before that at hand; over HTTP some may have been passed over.
FlowOK(s) ==
    /\ hand[s] # 0 => hand[s] = cursor[s]
    /\ given[s] # <<>> /\ task[s] # "ended" =>
        /\ hand[s] = 0 => Latest(s) <= cursor[s] /\ (kind = "grpc" => Latest(s) = cursor[s])
        /\ hand[s] # 0 => Latest(s) < cursor[s] /\ (kind = "grpc" => Latest(s) + 1 = cursor[s])

SubOK(s) == ChannelOK(s) /\ StageOK(s) /\ FlowOK(s)

StreamInv == TransportOK /\ TasksTyped /\ \A s \in Subs : SubOK(s)

\* The invariant has the types.
LEMMA InvTyped == StreamInv => TypeOK
BY DEF StreamInv, TypeOK, TasksOK, TasksTyped, SubOK, ChannelOK

\* The invariant holds of a new transport.
LEMMA InvInit == Init => StreamInv
<1> SUFFICES ASSUME Init PROVE StreamInv
  OBVIOUS
<1>1. TransportOK
  <2>1. call \in [Calls -> {"idle", "requesting", "streaming"}]
    BY DEF Init
  <2>2. published \in [Streams -> 0..MaxEvents]
    BY Bounds DEF Init
  <2>3. kind \in {"grpc", "http"} /\ connected \in BOOLEAN /\ orphans \subseteq Subs
    BY DEF Init
  <2>4. QED
    BY <2>1, <2>2, <2>3 DEF TransportOK
<1>2. TasksTyped
  <2>1. <<>> \in Seq(1..MaxEvents)
    OBVIOUS
  <2>2. QED
    BY <2>1, Bounds DEF Init, TasksTyped, TaskState
<1>3. ASSUME NEW s \in Subs PROVE SubOK(s)
  <2>1. /\ task[s] = "off" /\ cursor[s] = 0 /\ hand[s] = 0 /\ given[s] = <<>>
        /\ read[s] = 0 /\ published[StreamOf[s]] = 0
    BY Bounds DEF Init
  <2>2. Len(given[s]) = 0
    BY <2>1
  <2>3. QED
    BY <2>1, <2>2, Bounds DEF SubOK, ChannelOK, StageOK, FlowOK
<1>4. QED
  BY <1>1, <1>2, <1>3 DEF StreamInv

\* A step of the task, or of the channel, of one subscription keeps the invariant
\* if it keeps what this says of that subscription.
LEMMA OneSub ==
    ASSUME StreamInv, NEW s \in Subs, UNCHANGED <<transport, published>>,
           TasksTyped', SubOK(s)',
           \A d \in Subs : d # s =>
                /\ task'[d] = task[d] /\ cursor'[d] = cursor[d] /\ hand'[d] = hand[d]
                /\ given'[d] = given[d] /\ read'[d] = read[d]
    PROVE  StreamInv'
<1>1. TransportOK'
  BY DEF StreamInv, TransportOK, transport
<1>2. ASSUME NEW d \in Subs, d # s PROVE SubOK(d)'
  BY <1>2 DEF StreamInv, SubOK, ChannelOK, StageOK, FlowOK, Latest, transport
<1>3. QED
  BY <1>1, <1>2 DEF StreamInv

\* The tasks are what they were.
LEMMA TasksStay ==
    ASSUME StreamInv, UNCHANGED <<kind, tasks, app, published>>
    PROVE  TasksTyped' /\ \A s \in Subs : SubOK(s)'
<1>1. UNCHANGED <<kind, task, cursor, hand, given, read, reader, published>>
  BY DEF tasks, app
<1>2. QED
  BY <1>1 DEF StreamInv, TasksTyped, SubOK, ChannelOK, StageOK, FlowOK, Latest

\* A step of the transport itself.
LEMMA TransportKeeps ==
    ASSUME StreamInv,
           Connect \/ Disconnect
             \/ \E c \in Calls : CallStart(c) \/ CallStreams(c) \/ CallReturns(c)
    PROVE  StreamInv' /\ UNCHANGED <<kind, tasks, app, published>>
<1>1. CASE Connect
  BY <1>1, TasksStay DEF Connect, StreamInv, TransportOK
<1>2. CASE Disconnect
  BY <1>2, TasksStay DEF Disconnect, StreamInv, TransportOK
<1>3. ASSUME NEW c \in Calls, CallStart(c)
      PROVE  StreamInv' /\ UNCHANGED <<kind, tasks, app, published>>
  BY <1>3, TasksStay DEF CallStart, StreamInv, TransportOK
<1>4. ASSUME NEW c \in Calls, CallStreams(c)
      PROVE  StreamInv' /\ UNCHANGED <<kind, tasks, app, published>>
  BY <1>4, TasksStay DEF CallStreams, StreamInv, TransportOK
<1>5. ASSUME NEW c \in Calls, CallReturns(c)
      PROVE  StreamInv' /\ UNCHANGED <<kind, tasks, app, published>>
  BY <1>5, TasksStay DEF CallReturns, StreamInv, TransportOK
<1>6. QED
  BY <1>1, <1>2, <1>3, <1>4, <1>5

-----------------------------------------------------------------------------
(* Each step of a subscription.                                             *)

\* A subscription is asked for; over HTTP, it polls.
LEMMA SubscribeKeeps ==
    ASSUME StreamInv, NEW s \in Subs, Subscribe(s) PROVE StreamInv'
<1> USE DEF Subscribe, app
<1>1. TasksTyped'
  BY DEF StreamInv, TasksTyped, TaskState
<1>2. task'[s] = (IF kind = "grpc" THEN "asking" ELSE "polling") /\ task[s] = "off"
  BY DEF StreamInv, TasksTyped
<1>3. hand[s] = 0 /\ given[s] = <<>> /\ SubOK(s)
  BY <1>2 DEF StreamInv, SubOK, ChannelOK, StageOK
<1>4. SubOK(s)'
  BY <1>2, <1>3 DEF SubOK, ChannelOK, StageOK, FlowOK, transport
<1>5. QED
  BY <1>1, <1>4, OneSub DEF StreamInv, TasksTyped

\* The worker refuses the subscription.
LEMMA SubscribeFailsKeeps ==
    ASSUME StreamInv, NEW s \in Subs, SubscribeFails(s) PROVE StreamInv'
<1> USE DEF SubscribeFails, app
<1>1. TasksTyped'
  BY DEF StreamInv, TasksTyped, TaskState
<1>2. task'[s] = "off" /\ task[s] = "asking"
  BY DEF StreamInv, TasksTyped
<1>3. hand[s] = 0 /\ given[s] = <<>> /\ SubOK(s)
  BY <1>2 DEF StreamInv, SubOK, ChannelOK, StageOK
<1>4. SubOK(s)'
  BY <1>2, <1>3 DEF SubOK, ChannelOK, StageOK, FlowOK, transport
<1>5. QED
  BY <1>1, <1>4, OneSub DEF StreamInv, TasksTyped

\* The stream is open, anywhere in what the worker has.
LEMMA SubscribeOpensKeeps ==
    ASSUME StreamInv, NEW s \in Subs, SubscribeOpens(s) PROVE StreamInv'
<1> USE DEF SubscribeOpens, app
<1>1. PICK n \in 0..published[StreamOf[s]] : cursor' = [cursor EXCEPT ![s] = n]
  OBVIOUS
<1>2. n \in 0..MaxEvents
  BY <1>1, Bounds DEF StreamInv, TransportOK
<1>3. TasksTyped'
  BY <1>1, <1>2 DEF StreamInv, TasksTyped, TaskState
<1>4. task'[s] = "reading" /\ task[s] = "asking" /\ cursor'[s] = n
  BY <1>1 DEF StreamInv, TasksTyped
<1>5. hand[s] = 0 /\ given[s] = <<>> /\ SubOK(s)
  BY <1>4 DEF StreamInv, SubOK, ChannelOK, StageOK
<1>6. n <= published[StreamOf[s]]
  BY <1>1
<1>7. SubOK(s)'
  BY <1>4, <1>5, <1>6 DEF SubOK, ChannelOK, StageOK, FlowOK, transport
<1>8. QED
  BY <1>1, <1>3, <1>7, OneSub DEF StreamInv, TasksTyped

\* A task has received message n, which comes after those it had, over gRPC just
\* after.
LEMMA ReceivedKeeps ==
    ASSUME StreamInv, NEW s \in Subs, NEW n \in 1..published[StreamOf[s]],
           task[s] \in {"reading", "polling"}, task' = [task EXCEPT ![s] = "sending"],
           n > cursor[s], kind = "grpc" => n = cursor[s] + 1, Holds(s, n),
           UNCHANGED <<transport, given, app, published>>
    PROVE  StreamInv'
<1> USE DEF Holds, app
<1>1. n \in 1..MaxEvents /\ n <= published[StreamOf[s]]
  BY Bounds DEF StreamInv, TransportOK
<1>2. TasksTyped'
  BY <1>1 DEF StreamInv, TasksTyped, TaskState
<1>3. task'[s] = "sending" /\ cursor'[s] = n /\ hand'[s] = n
  BY DEF StreamInv, TasksTyped
<1>4. hand[s] = 0 /\ SubOK(s) /\ cursor[s] \in Nat
  BY DEF StreamInv, SubOK, ChannelOK, TasksTyped
<1>5. given[s] # <<>> => Latest(s) <= cursor[s] /\ (kind = "grpc" => Latest(s) = cursor[s])
  BY <1>4 DEF SubOK, FlowOK
<1>6. given[s] # <<>> => Latest(s) \in Nat
  <2>1. given[s] \in Seq(1..MaxEvents)
    BY DEF StreamInv, TasksTyped
  <2>2. given[s] # <<>> => Len(given[s]) \in 1..Len(given[s])
    BY <2>1
  <2>3. given[s] # <<>> => given[s][Len(given[s])] \in 1..MaxEvents
    BY <2>1, <2>2, ElementOfSeq
  <2>4. QED
    BY <2>3, Bounds DEF Latest
<1>7. given[s] # <<>> => Latest(s)' = Latest(s)
  BY DEF Latest
<1>8. ChannelOK(s)' /\ StageOK(s)'
  BY <1>1, <1>3, <1>4 DEF SubOK, ChannelOK, StageOK, transport
<1>9. FlowOK(s)'
  BY <1>3, <1>4, <1>5, <1>6, <1>7 DEF FlowOK, transport
<1>10. QED
  BY <1>2, <1>8, <1>9, OneSub DEF StreamInv, TasksTyped, SubOK

\* The next message of a stream.
LEMMA StreamReadKeeps ==
    ASSUME StreamInv, NEW s \in Subs, StreamRead(s) PROVE StreamInv'
<1>1. cursor[s] \in Nat /\ published[StreamOf[s]] \in Nat
  BY Bounds DEF StreamInv, TasksTyped, TransportOK
<1>2. cursor[s] + 1 \in 1..published[StreamOf[s]]
  BY <1>1 DEF StreamRead
<1>3. /\ task[s] \in {"reading", "polling"} /\ task' = [task EXCEPT ![s] = "sending"]
      /\ Holds(s, cursor[s] + 1) /\ UNCHANGED <<transport, given, app, published>>
  BY DEF StreamRead, Moves
<1>4. cursor[s] + 1 > cursor[s]
  BY <1>1
<1>5. QED
  BY <1>2, <1>3, <1>4, ReceivedKeeps

\* A later message, by a poll.
LEMMA PollAnsweredKeeps ==
    ASSUME StreamInv, NEW s \in Subs, PollAnswered(s) PROVE StreamInv'
<1>1. cursor[s] \in Nat /\ published[StreamOf[s]] \in Nat
  BY Bounds DEF StreamInv, TasksTyped, TransportOK
<1>2. PICK n \in Later(s) : Holds(s, n)
  BY DEF PollAnswered
<1>3. n \in 1..published[StreamOf[s]] /\ n > cursor[s]
  BY <1>1, <1>2 DEF Later
<1>4. kind # "grpc"
  BY DEF StreamInv, SubOK, StageOK, PollAnswered, Moves
<1>5. QED
  BY <1>2, <1>3, <1>4, ReceivedKeeps DEF PollAnswered, Moves

\* A step that moves only the task, with nothing at hand.
LEMMA MovesKeeps ==
    ASSUME StreamInv, NEW s \in Subs, NEW from, NEW to \in TaskState, Moves(s, from, to),
           from \in {"reading", "polling", "sleeping"},
           to \in {"ended", "polling", "sleeping"}, from = "reading" => to = "ended",
           UNCHANGED <<transport, cursor, hand, given, app, published>>
    PROVE  StreamInv'
<1> USE DEF Moves, app
<1>1. TasksTyped'
  BY DEF StreamInv, TasksTyped
<1>2. task'[s] = to /\ task[s] = from
  BY DEF StreamInv, TasksTyped
<1>3. hand[s] = 0 /\ SubOK(s)
  BY <1>2 DEF StreamInv, SubOK, ChannelOK
<1>4. Latest(s)' = Latest(s)
  BY DEF Latest
<1>5. ChannelOK(s)'
  BY <1>2, <1>3 DEF SubOK, ChannelOK
<1>6. StageOK(s)'
  BY <1>2, <1>3 DEF SubOK, StageOK, transport
<1>7. FlowOK(s)'
  BY <1>2, <1>3, <1>4 DEF SubOK, FlowOK, transport
<1>8. QED
  BY <1>1, <1>5, <1>6, <1>7, OneSub DEF StreamInv, TasksTyped, SubOK

\* What comes after a send, by the transport.
LEMMA AfterSendIs ==
    ASSUME StreamInv
    PROVE  AfterSend \in {"reading", "sleeping"} /\ (kind = "grpc" => AfterSend = "reading")
BY DEF AfterSend

\* The message at hand goes into the channel.
LEMMA ForwardKeeps ==
    ASSUME StreamInv, NEW s \in Subs, Forward(s) PROVE StreamInv'
<1> USE DEF Forward, app
<1>1. /\ task[s] = "sending" /\ task' = [task EXCEPT ![s] = AfterSend]
      /\ AfterSend \in {"reading", "sleeping"} /\ (kind = "grpc" => AfterSend = "reading")
  BY AfterSendIs DEF Moves
<1>2. SubOK(s) /\ hand[s] # 0 /\ hand[s] = cursor[s] /\ hand[s] \in 1..MaxEvents
  BY <1>1 DEF StreamInv, SubOK, ChannelOK, FlowOK, TasksTyped
<1>3. given[s] \in Seq(1..MaxEvents)
  BY DEF StreamInv, TasksTyped
<1>4. /\ Append(given[s], hand[s]) \in Seq(1..MaxEvents)
      /\ Len(Append(given[s], hand[s])) = Len(given[s]) + 1
      /\ Append(given[s], hand[s])[Len(given[s]) + 1] = hand[s]
  BY <1>2, <1>3
<1>5. TasksTyped'
  <2>1. task' \in [Subs -> TaskState]
    BY <1>1 DEF StreamInv, TasksTyped, TaskState
  <2>2. given' \in [Subs -> Seq(1..MaxEvents)]
    BY <1>4 DEF StreamInv, TasksTyped
  <2>3. hand' \in [Subs -> 0..MaxEvents]
    BY Bounds DEF StreamInv, TasksTyped
  <2>4. QED
    BY <2>1, <2>2, <2>3 DEF StreamInv, TasksTyped
<1>6. task'[s] = AfterSend /\ hand'[s] = 0 /\ given'[s] = Append(given[s], hand[s])
  BY <1>1 DEF StreamInv, TasksTyped
<1>7. ChannelOK(s)'
  <2>1. read[s] \in Nat /\ read[s] <= Len(given[s]) /\ Len(given[s]) \in Nat
    BY <1>2, <1>3 DEF SubOK, ChannelOK
  <2>2. Len(given[s]) + 1 - read[s] <= StreamCap
    BY <2>1, Bounds DEF Room
  <2>3. Len(given'[s]) = Len(given[s]) + 1
    BY <1>4, <1>6
  <2>4. read'[s] \in 0..Len(given'[s]) /\ Len(given'[s]) - read'[s] <= StreamCap
    BY <2>1, <2>2, <2>3
  <2>5. QED
    BY <1>1, <1>2, <1>6, <2>4 DEF SubOK, ChannelOK
<1>8. StageOK(s)'
  BY <1>1, <1>6 DEF StageOK, transport
<1>9. FlowOK(s)'
  <2>1. given'[s] # <<>>
    <3>1. Len(given[s]) \in Nat
      BY <1>3
    <3>2. Len(given'[s]) # 0
      BY <1>4, <1>6, <3>1
    <3>3. QED
      BY <3>2
  <2>2. Latest(s)' = given'[s][Len(given'[s])]
    BY <2>1 DEF Latest
  <2>5. Latest(s)' = cursor[s]
    BY <1>2, <1>4, <1>6, <2>2
  <2>3. cursor[s] \in Nat /\ cursor'[s] = cursor[s]
    BY DEF StreamInv, TasksTyped
  <2>4. QED
    BY <1>6, <2>3, <2>5 DEF FlowOK
<1>10. QED
  BY <1>1, <1>5, <1>7, <1>8, <1>9, OneSub DEF StreamInv, TasksTyped, SubOK

\* The message at hand is of no use any more.
LEMMA AbandonedKeeps ==
    ASSUME StreamInv, NEW s \in Subs, Abandoned(s) PROVE StreamInv'
<1> USE DEF Abandoned, Stops, Moves, app
<1>1. TasksTyped'
  BY Bounds DEF StreamInv, TasksTyped, TaskState
<1>2. task'[s] = "ended" /\ hand'[s] = 0 /\ SubOK(s)
  BY DEF StreamInv, TasksTyped
<1>3. ChannelOK(s)' /\ StageOK(s)' /\ FlowOK(s)'
  BY <1>2 DEF SubOK, ChannelOK, StageOK, FlowOK
<1>4. QED
  BY <1>1, <1>3, OneSub DEF StreamInv, TasksTyped, SubOK

\* The application takes a message.
LEMMA AppReadKeeps ==
    ASSUME StreamInv, NEW s \in Subs, AppRead(s) PROVE StreamInv'
<1> USE DEF AppRead, tasks
<1>1. read'[s] = read[s] + 1 /\ SubOK(s) /\ given[s] \in Seq(1..MaxEvents)
  BY DEF StreamInv, TasksTyped
<1>2. TasksTyped'
  BY DEF StreamInv, TasksTyped
<1>3. Len(given[s]) \in Nat /\ read[s] \in Nat
  BY <1>1 DEF SubOK, ChannelOK
<1>4. ChannelOK(s)'
  <2>1. read'[s] \in 0..Len(given[s]) /\ Len(given[s]) - read'[s] <= StreamCap
    BY <1>1, <1>3, Bounds DEF SubOK, ChannelOK
  <2>2. QED
    BY <1>1, <2>1 DEF SubOK, ChannelOK
<1>5. StageOK(s)' /\ FlowOK(s)'
  BY <1>1 DEF SubOK, StageOK, FlowOK, Latest, transport
<1>6. QED
  BY <1>2, <1>4, <1>5, OneSub DEF StreamInv, TasksTyped, SubOK

\* The application drops the channel.
LEMMA AppDropKeeps ==
    ASSUME StreamInv, NEW s \in Subs, AppDrop(s) PROVE StreamInv'
<1> USE DEF AppDrop, tasks
<1>1. TasksTyped'
  BY DEF StreamInv, TasksTyped
<1>2. SubOK(s)'
  BY DEF StreamInv, SubOK, ChannelOK, StageOK, FlowOK, Latest, transport
<1>3. QED
  BY <1>1, <1>2, OneSub DEF StreamInv, TasksTyped

\* The worker has one message more.
LEMMA PublishKeeps ==
    ASSUME StreamInv, NEW k \in Streams, Publish(k) PROVE StreamInv'
<1> USE DEF Publish, transport, tasks, app
<1>1. published[k] + 1 \in 0..MaxEvents
  BY Bounds DEF StreamInv, TransportOK
<1>2. TransportOK'
  BY <1>1 DEF StreamInv, TransportOK
<1>3. TasksTyped'
  BY DEF StreamInv, TasksTyped
<1>4. ASSUME NEW s \in Subs PROVE SubOK(s)'
  <2>1. published'[StreamOf[s]] >= published[StreamOf[s]] /\ published[StreamOf[s]] \in Nat
    BY <1>1, Bounds DEF StreamInv, TransportOK
  <2>2. published'[StreamOf[s]] \in Nat /\ cursor[s] \in Nat
    BY <1>2, Bounds DEF StreamInv, TransportOK, TasksTyped
  <2>3. ChannelOK(s)'
    BY <2>1, <2>2 DEF StreamInv, SubOK, ChannelOK
  <2>4. StageOK(s)' /\ FlowOK(s)'
    BY DEF StreamInv, SubOK, StageOK, FlowOK, Latest
  <2>5. QED
    BY <2>3, <2>4 DEF SubOK
<1>5. QED
  BY <1>2, <1>3, <1>4 DEF StreamInv

\* Every step keeps the invariant.
LEMMA InvStep == StreamInv /\ [Next]_vars => StreamInv'
<1> SUFFICES ASSUME StreamInv, [Next]_vars PROVE StreamInv'
  OBVIOUS
<1>1. CASE Connect \/ Disconnect
             \/ \E c \in Calls : CallStart(c) \/ CallStreams(c) \/ CallReturns(c)
  BY <1>1, TransportKeeps
<1>2. ASSUME NEW s \in Subs, Subscribe(s) \/ SubscribeFails(s) \/ SubscribeOpens(s)
      PROVE  StreamInv'
  BY <1>2, SubscribeKeeps, SubscribeFailsKeeps, SubscribeOpensKeeps
<1>3. ASSUME NEW s \in Subs, StreamEnds(s) PROVE StreamInv'
  BY <1>3, MovesKeeps DEF StreamEnds, TaskState
<1>4. ASSUME NEW s \in Subs, PollFails(s) PROVE StreamInv'
  BY <1>4, MovesKeeps DEF PollFails, Sleeps, TaskState
<1>5. ASSUME NEW s \in Subs, Wake(s) PROVE StreamInv'
  BY <1>5, MovesKeeps DEF Wake, TaskState
<1>6. ASSUME NEW s \in Subs, StreamRead(s) \/ PollAnswered(s) PROVE StreamInv'
  BY <1>6, StreamReadKeeps, PollAnsweredKeeps
<1>7. ASSUME NEW s \in Subs, Forward(s) \/ Abandoned(s) PROVE StreamInv'
  BY <1>7, ForwardKeeps, AbandonedKeeps
<1>8. ASSUME NEW s \in Subs, AppRead(s) \/ AppDrop(s) PROVE StreamInv'
  BY <1>8, AppReadKeeps, AppDropKeeps
<1>9. ASSUME NEW k \in Streams, Publish(k) PROVE StreamInv'
  BY <1>9, PublishKeeps
<1>10. CASE UNCHANGED vars
  <2>1. UNCHANGED <<kind, tasks, app, published>> /\ TransportOK'
    BY <1>10 DEF vars, transport, StreamInv, TransportOK
  <2>2. QED
    BY <2>1, TasksStay DEF StreamInv
<1>11. QED
  BY <1>1, <1>2, <1>3, <1>4, <1>5, <1>6, <1>7, <1>8, <1>9, <1>10, Zenon DEF Next, TaskStep

\* The invariant holds in every reachable state.
LEMMA InvHolds == Spec => []StreamInv
BY InvInit, InvStep, PTL DEF Spec

\* Every variable has its type, no channel is overfull, and a message is at hand
\* just while it is being sent.
THEOREM TypeCorrect == Spec => []TypeOK
BY InvTyped, InvHolds, PTL
-----------------------------------------------------------------------------
(* The promise of a subscription.                                           *)

\* What the mapping makes of a subscription's state.
LEMMA StateIs ==
    ASSUME StreamInv, NEW s \in Subs
    PROVE  /\ task[s] \in {"off", "asking"} => StateOf(s) = "new"
           /\ task[s] \in {"reading", "polling", "sending", "sleeping"} => StateOf(s) = "open"
           /\ task[s] = "ended" => StateOf(s) = "over"
BY DEF StateOf

\* A step that leaves the channel's state, the messages given and those published
\* as they are is one the promise does not see.
LEMMA Unseen ==
    ASSUME UNCHANGED <<kind, given, published>>, \A s \in Subs : StateOf(s)' = StateOf(s)
    PROVE  UNCHANGED Promised!vars
BY DEF Promised!vars

\* Where the task stays is open, or is not open.
LEMMA UnseenMove ==
    ASSUME StreamInv, StreamInv', NEW s \in Subs, NEW from, NEW to, Moves(s, from, to),
           \/ {from, to} \subseteq {"off", "asking"}
           \/ {from, to} \subseteq {"reading", "polling", "sending", "sleeping"},
           UNCHANGED <<kind, given, published>>
    PROVE  UNCHANGED Promised!vars
<1>1. /\ task[s] = from /\ task'[s] = to
      /\ \A d \in Subs : d # s => task'[d] = task[d]
  BY DEF Moves, StreamInv, TasksTyped
<1>2. \A d \in Subs : StateOf(d)' = StateOf(d)
  BY <1>1 DEF StateOf
<1>3. QED
  BY <1>2, Unseen

\* The only subscription whose state changes.
LEMMA MappedState ==
    ASSUME StreamInv, NEW s \in Subs, NEW from, NEW to, Moves(s, from, to)
    PROVE  /\ [d \in Subs |-> StateOf(d)]'
                = [[d \in Subs |-> StateOf(d)] EXCEPT ![s] = StateOf(s)']
           /\ [d \in Subs |-> StateOf(d)][s] = StateOf(s)
<1>1. \A d \in Subs : d # s => task'[d] = task[d]
  BY DEF Moves, StreamInv, TasksTyped
<1>2. \A d \in Subs : d # s => StateOf(d)' = StateOf(d)
  BY <1>1 DEF StateOf
<1>3. QED
  BY <1>2

\* A subscription that leaves the worker's answer behind it is open.
LEMMA Opens ==
    ASSUME StreamInv, NEW s \in Subs, NEW from \in {"off", "asking"},
           NEW to \in {"reading", "polling"}, Moves(s, from, to),
           UNCHANGED <<kind, given, published>>
    PROVE  Promised!Open(s)
<1>1. StateOf(s) = "new" /\ StateOf(s)' = "open"
  BY DEF Moves, StateOf, StreamInv, TasksTyped
<1>2. QED
  BY <1>1, MappedState DEF Promised!Open

\* One whose task ends is over.
LEMMA Finishes ==
    ASSUME StreamInv, NEW s \in Subs, NEW from \in {"reading", "sending"},
           Moves(s, from, "ended"), UNCHANGED <<kind, given, published>>
    PROVE  Promised!Finish(s)
<1>1. StateOf(s) = "open" /\ StateOf(s)' = "over"
  BY DEF Moves, StateOf, StreamInv, TasksTyped
<1>2. QED
  BY <1>1, MappedState DEF Promised!Finish

\* The message that is forwarded may come next.
LEMMA Delivers ==
    ASSUME StreamInv, StreamInv', NEW s \in Subs, Forward(s)
    PROVE  Promised!Deliver(s, hand[s]) /\ hand[s] \in 1..published[StreamOf[s]]
<1>1. task[s] = "sending" /\ task' = [task EXCEPT ![s] = AfterSend]
      /\ AfterSend \in {"reading", "sleeping"}
  BY AfterSendIs DEF Forward, Moves
<1>2. SubOK(s) /\ hand[s] # 0 /\ hand[s] = cursor[s]
  BY <1>1 DEF StreamInv, SubOK, ChannelOK, FlowOK
<1>3. hand[s] \in 1..published[StreamOf[s]]
  <2>1. hand[s] \in Nat /\ published[StreamOf[s]] \in Nat
    BY Bounds DEF StreamInv, TasksTyped, TransportOK
  <2>2. QED
    BY <1>2, <2>1 DEF SubOK, ChannelOK
<1>4. Promised!Follows(hand[s], given[s])
  <2> SUFFICES ASSUME given[s] # <<>>
               PROVE  IF kind = "grpc" THEN hand[s] = given[s][Len(given[s])] + 1
                                       ELSE hand[s] > given[s][Len(given[s])]
    BY DEF Promised!Follows
  <2>1. Latest(s) = given[s][Len(given[s])]
    BY DEF Latest
  <2>2. Latest(s) < hand[s] /\ (kind = "grpc" => Latest(s) + 1 = hand[s])
    BY <1>1, <1>2 DEF SubOK, FlowOK
  <2>3. QED
    BY <2>1, <2>2
<1>5. UNCHANGED <<kind, published>> /\ given' = [given EXCEPT ![s] = Append(given[s], hand[s])]
  BY DEF Forward, transport
<1>6. StateOf(s) = "open" /\ StateOf(s)' = "open"
  BY <1>1 DEF StateOf, StreamInv, TasksTyped
<1>7. [d \in Subs |-> StateOf(d)]' = [d \in Subs |-> StateOf(d)]
  BY <1>6, MappedState DEF Forward
<1>8. QED
  BY <1>3, <1>4, <1>5, <1>6, <1>7 DEF Promised!Deliver

\* Each step is one of the promise, or one it does not see.
LEMMA StepIsPromised ==
    StreamInv /\ StreamInv' /\ [Next]_vars => [Promised!Next]_(Promised!vars)
<1> SUFFICES ASSUME StreamInv, StreamInv', [Next]_vars
             PROVE  Promised!Next \/ UNCHANGED Promised!vars
  OBVIOUS
<1> USE DEF transport, tasks
<1>1. CASE Connect \/ Disconnect
             \/ \E c \in Calls : CallStart(c) \/ CallStreams(c) \/ CallReturns(c)
  <2>1. UNCHANGED <<kind, task, given, published>>
    BY <1>1, TransportKeeps
  <2>2. QED
    BY <2>1, Unseen DEF StateOf
<1>2. ASSUME NEW s \in Subs, Subscribe(s) PROVE Promised!Next \/ UNCHANGED Promised!vars
  <2>1. CASE kind = "grpc"
    BY <1>2, <2>1, UnseenMove DEF Subscribe, Moves
  <2>2. CASE kind # "grpc"
    <3>1. Promised!Open(s)
      BY <1>2, <2>2, Opens DEF Subscribe, Moves
    <3>2. QED
      BY <3>1 DEF Promised!Next
  <2>3. QED
    BY <2>1, <2>2
<1>3. ASSUME NEW s \in Subs, SubscribeFails(s) PROVE UNCHANGED Promised!vars
  BY <1>3, UnseenMove DEF SubscribeFails, Moves
<1>4. ASSUME NEW s \in Subs, SubscribeOpens(s) PROVE Promised!Next
  <2>1. Promised!Open(s)
    BY <1>4, Opens DEF SubscribeOpens, Moves
  <2>2. QED
    BY <2>1 DEF Promised!Next
<1>5. ASSUME NEW s \in Subs, StreamEnds(s) PROVE Promised!Next
  <2>1. Promised!Finish(s)
    BY <1>5, Finishes DEF StreamEnds
  <2>2. QED
    BY <2>1 DEF Promised!Next
<1>6. ASSUME NEW s \in Subs, Abandoned(s) PROVE Promised!Next
  <2>1. Promised!Finish(s)
    BY <1>6, Finishes DEF Abandoned, Stops
  <2>2. QED
    BY <2>1 DEF Promised!Next
<1>7. ASSUME NEW s \in Subs, StreamRead(s) PROVE UNCHANGED Promised!vars
  BY <1>7, UnseenMove DEF StreamRead
<1>8. ASSUME NEW s \in Subs, PollAnswered(s) PROVE UNCHANGED Promised!vars
  BY <1>8, UnseenMove DEF PollAnswered
<1>9. ASSUME NEW s \in Subs, PollFails(s) PROVE UNCHANGED Promised!vars
  BY <1>9, UnseenMove DEF PollFails, Sleeps
<1>10. ASSUME NEW s \in Subs, Wake(s) PROVE UNCHANGED Promised!vars
  BY <1>10, UnseenMove DEF Wake
<1>11. ASSUME NEW s \in Subs, Forward(s) PROVE Promised!Next
  BY <1>11, Delivers DEF Promised!Next
<1>12. ASSUME NEW s \in Subs, AppRead(s) \/ AppDrop(s) PROVE UNCHANGED Promised!vars
  <2>1. UNCHANGED <<kind, task, given, published>>
    BY <1>12 DEF AppRead, AppDrop
  <2>2. QED
    BY <2>1, Unseen DEF StateOf
<1>13. ASSUME NEW k \in Streams, Publish(k) PROVE Promised!Next
  <2>1. UNCHANGED <<kind, task, given>> /\ published' = [published EXCEPT ![k] = published[k] + 1]
    BY <1>13 DEF Publish
  <2>2. Promised!Publish(k)
    BY <2>1 DEF Promised!Publish, StateOf
  <2>3. QED
    BY <2>2 DEF Promised!Next
<1>14. CASE UNCHANGED vars
  <2>1. UNCHANGED <<kind, task, given, published>>
    BY <1>14 DEF vars
  <2>2. QED
    BY <2>1, Unseen DEF StateOf
<1>15. QED
  BY <1>1, <1>2, <1>3, <1>4, <1>5, <1>6, <1>7, <1>8, <1>9, <1>10, <1>11, <1>12, <1>13, <1>14,
     Zenon DEF Next, TaskStep

\* Both transports implement the promise: a subscription is given messages the
\* worker has published, none twice and none out of order, and over gRPC none is
\* missing in between.
THEOREM ImplementsSubscriptions == Spec => KeepsPromise
<1>1. Init => Promised!Init
  BY DEF Init, Promised!Init, StateOf
<1>2. QED
  BY <1>1, StepIsPromised, InvHolds, PTL DEF Spec, KeepsPromise, Promised!Spec
=============================================================================
