------------------------------ MODULE WsTransport ------------------------------
(***************************************************************************)
(* The WebSocket transport of the SDK (connection/websocket.rs): one        *)
(* object, one socket per connect(), a receiver task per socket that feeds  *)
(* a single bounded channel, and any number of submit calls and             *)
(* subscription tasks that take messages off that one channel, each holding *)
(* the lock on its receiving end (message_rx) while it waits.               *)
(*                                                                          *)
(* The peer (worker) and the network are the environment.  A call of        *)
(* submit_transaction is a member of Submits, the task a subscribe_* call   *)
(* spawns a member of Subs; both are used once (a request id is a fresh     *)
(* UUID).  MaxSessions and MaxEvents bound the sockets opened and the       *)
(* stream events sent.                                                      *)
(***************************************************************************)
EXTENDS Naturals, Sequences

CONSTANTS
    Submits,      \* calls of submit_transaction, named by their request id
    Subs,         \* subscription tasks
    Streams,      \* stream types a task can subscribe to
    StreamOf,     \* the stream type of each subscription task
    Says,         \* what the worker may answer to each submission
    QueueCap,     \* capacity of the message channel (256 in the code)
    StreamCap,    \* capacity of a subscription's channel (32 in the code)
    Heartbeats,   \* does the worker send heartbeats
    MaxSessions,  \* bound: sockets opened
    MaxEvents     \* bound: stream events the worker sends

\* The server messages about a submission, updates named by their status text.
AllSays == {"accepted", "pending", "processing", "sent", "unknown",
            "update_confirmed", "update_failed", "confirmed", "failed"}

\* The replies after which the response loop of submit_transaction ends.
Final == {"update_confirmed", "update_failed", "confirmed", "failed"}

Connector == "connect"                  \* connect() when it needs message_rx
Consumers == Submits \cup Subs \cup {Connector}
Sessions  == 1..MaxSessions

ASSUME ConstantsOK ==
    /\ Submits \cap Subs = {}
    /\ Connector \notin Submits \cup Subs
    /\ StreamOf \in [Subs -> Streams]
    /\ Says \in [Submits -> SUBSET AllSays]
    /\ QueueCap \in Nat \ {0}
    /\ StreamCap \in Nat \ {0}
    /\ Heartbeats \in BOOLEAN
    /\ MaxSessions \in Nat
    /\ MaxEvents \in Nat

Reply     == [kind : {"reply"}, via : Sessions, to : Submits, says : AllSays, nth : Nat]
Event     == [kind : {"event"}, via : Sessions, to : Streams, id : 1..MaxEvents]
Control   == [kind : {"connected", "error", "heartbeat"}, via : Sessions]
Message   == Reply \cup Event \cup Control

NoEvent == [kind |-> "none"]

Status == {"pending", "processing", "sent", "confirmed", "failed"}

VARIABLES
    sink,       \* session the sink writes to, 0 when it is None
    connected,  \* the AtomicBool is_connected() reads
    chan,       \* session whose channel message_rx holds, 0 when it is None
    queue,      \* messages in that channel
    lock,       \* tasks holding (head) or awaiting message_rx, in order
    receiver,   \* receiver task of each session
    conn,       \* program counter of connect()
    dropped,    \* the transport object was dropped
    call,       \* program counter of each submit call
    late,       \* has the deadline of a submit call passed
    status,     \* the local variable status of a submit call
    task,       \* program counter of each subscription task
    hand,       \* the event a subscription task forwards, NoEvent before any
    given,      \* events a task has put in its channel so far
    read,       \* how many of them the application has taken
    reader,     \* does the application still hold the channel
    wire,       \* messages on their way from the worker, per session
    link,       \* state of each socket
    greeted,    \* how the worker answered Connect, per session
    taken,      \* session on which the worker took each submission, 0: none
    said,       \* what the worker has said about each submission, in order
    streaming,  \* <<session, stream>> pairs the worker streams on
    events      \* number of stream events sent

client == <<sink, connected, chan, queue, lock, receiver, conn, dropped>>
calls  == <<call, late, status>>
tasks  == <<task, hand, given, read, reader>>
worker == <<wire, link, greeted, taken, said, streaming, events>>
vars   == <<client, calls, tasks, worker>>

InCall == {"looping", "waiting"}
Active == {"looping", "waiting", "forwarding"}

Init ==
    /\ sink = 0 /\ connected = FALSE /\ chan = 0 /\ queue = <<>> /\ lock = <<>>
    /\ receiver = [g \in Sessions |-> "none"]
    /\ conn = "idle" /\ dropped = FALSE
    /\ call = [r \in Submits |-> "idle"]
    /\ late = [r \in Submits |-> FALSE]
    /\ status = [r \in Submits |-> "pending"]
    /\ task = [s \in Subs |-> "off"]
    /\ hand = [s \in Subs |-> NoEvent]
    /\ given = [s \in Subs |-> <<>>]
    /\ read = [s \in Subs |-> 0]
    /\ reader = [s \in Subs |-> TRUE]
    /\ wire = [g \in Sessions |-> <<>>]
    /\ link = [g \in Sessions |-> "unused"]
    /\ greeted = [g \in Sessions |-> "no"]
    /\ taken = [r \in Submits |-> 0]
    /\ said = [r \in Submits |-> <<>>]
    /\ streaming = {} /\ events = 0

-----------------------------------------------------------------------------
(* The channel behind message_rx and its lock.  Definitions marked "Mutant"  *)
(* are wrong on purpose: a property has to fail when one of them stands in.  *)

Holds(c) == lock # <<>> /\ Head(lock) = c
Enqueue(c) == lock' = Append(lock, c)

Kept == UNCHANGED lock                       \* Mutant: the guard outlives recv()
Release == lock' = Tail(lock)

Unbounded == TRUE                            \* Mutant: an unbounded channel
Room == Len(queue) < QueueCap

Reused == UNCHANGED queue                    \* Mutant: connect() keeps the channel
FreshChannel == queue' = <<>>

-----------------------------------------------------------------------------
(* connect(), disconnect() and drop take the transport by &mut self or by    *)
(* value: no submit or subscribe call is in progress then.                  *)
Exclusive ==
    /\ ~dropped
    /\ conn = "idle"
    /\ \A r \in Submits : call[r] \notin InCall

\* Calls by &self: no connect(), disconnect() or drop is in progress.
Shared == ~dropped /\ conn = "idle"

\* connect() up to the lock: the dial succeeded (when it does not, nothing
\* changes), the new sink replaces the old one and the new sender the one the
\* transport kept of the old channel.  It then queues for message_rx, which it
\* takes no time limit on.
ConnectDial ==
    /\ Exclusive
    /\ \E g \in Sessions :
        /\ link[g] = "unused"
        /\ \A h \in 1..(g - 1) : link[h] # "unused"
        /\ sink' = g
        /\ link' = [link EXCEPT ![g] = "up"]
    /\ conn' = "installing"
    /\ Enqueue(Connector)
    /\ UNCHANGED <<connected, chan, queue, receiver, dropped, calls, tasks,
                   wire, greeted, taken, said, streaming, events>>

\* With the lock: the fresh channel replaces the old one, the receiver task
\* starts and Connect is sent (no answer comes when the socket is down).
ConnectInstall ==
    /\ conn = "installing"
    /\ Holds(Connector)
    /\ chan' = sink
    /\ FreshChannel
    /\ Release
    /\ receiver' = [receiver EXCEPT ![sink] = "running"]
    /\ greeted' = [greeted EXCEPT ![sink] = IF link[sink] = "up" THEN "asked" ELSE "no"]
    /\ \/ conn' = "greeting"
       \/ link[sink] # "up" /\ conn' = "idle"      \* the send failed
    /\ UNCHANGED <<sink, connected, dropped, calls, tasks,
                   wire, link, taken, said, streaming, events>>

\* connect() queues for message_rx again, now to wait for the answer.
ConnectAwait ==
    /\ conn = "greeting"
    /\ conn' = "awaiting"
    /\ Enqueue(Connector)
    /\ UNCHANGED <<sink, connected, chan, queue, receiver, dropped, calls, tasks, worker>>

\* The first message to arrive decides: Connected sets the flag, Error and any
\* other message make connect() fail and leave everything else in place.
ConnectAnswer ==
    /\ conn = "awaiting"
    /\ Holds(Connector)
    /\ queue # <<>>
    /\ connected' = (connected \/ Head(queue).kind = "connected")
    /\ queue' = Tail(queue)
    /\ Release
    /\ conn' = "idle"
    /\ UNCHANGED <<sink, chan, receiver, dropped, calls, tasks, worker>>

\* Mutant: connect() waits for its answer without a limit.
ConnectWaits == FALSE

\* Five seconds without a message.
ConnectTimeout ==
    /\ conn = "awaiting"
    /\ Holds(Connector)
    /\ queue = <<>>
    /\ Release
    /\ conn' = "idle"
    /\ UNCHANGED <<sink, connected, chan, queue, receiver, dropped, calls, tasks, worker>>

\* Mutant: the flag is left set.
DisconnectKeepsFlag ==
    /\ Exclusive
    /\ sink # 0
    /\ sink' = 0
    /\ link' = [link EXCEPT ![sink] = "down"]
    /\ UNCHANGED <<connected, chan, queue, lock, receiver, conn, dropped, calls, tasks,
                   wire, greeted, taken, said, streaming, events>>

\* disconnect(): clears the flag, closes and removes the sink.  The channel,
\* its sender and the receiver task stay.
Disconnect ==
    /\ Exclusive
    /\ sink # 0
    /\ connected' = FALSE
    /\ sink' = 0
    /\ link' = [link EXCEPT ![sink] = "down"]
    /\ UNCHANGED <<chan, queue, lock, receiver, conn, dropped, calls, tasks,
                   wire, greeted, taken, said, streaming, events>>

\* The transport is dropped (its owner replaced it): message_tx goes with it.
Drop ==
    /\ Exclusive
    /\ chan # 0
    /\ dropped' = TRUE
    /\ UNCHANGED <<sink, connected, chan, queue, lock, receiver, conn, calls, tasks, worker>>

-----------------------------------------------------------------------------
(* The receiver task of a session.                                          *)

\* The receiving end of session g's channel still exists: message_rx holds it
\* and the transport or a subscription task holds message_rx.
RxAlive(g) ==
    /\ chan = g
    /\ ~dropped \/ \E s \in Subs : task[s] \in Active

\* A heartbeat (or ping) is answered, or an unreadable text skipped: the
\* message does not enter the channel.
ReceiveHeartbeat(g) ==
    /\ receiver[g] = "running"
    /\ wire[g] # <<>> /\ Head(wire[g]).kind = "heartbeat"
    /\ wire' = [wire EXCEPT ![g] = Tail(@)]
    /\ UNCHANGED <<client, calls, tasks, link, greeted, taken, said, streaming, events>>

\* Any other message is sent to the channel: the task blocks while it is full.
ReceiveMessage(g) ==
    /\ receiver[g] = "running"
    /\ wire[g] # <<>> /\ Head(wire[g]).kind # "heartbeat"
    /\ RxAlive(g)
    /\ Room
    /\ queue' = Append(queue, Head(wire[g]))
    /\ wire' = [wire EXCEPT ![g] = Tail(@)]
    /\ UNCHANGED <<sink, connected, chan, lock, receiver, conn, dropped, calls, tasks,
                   link, greeted, taken, said, streaming, events>>

\* The send fails because nobody can receive any more: the task ends, and its
\* half of the socket with it.
ReceiverDetached(g) ==
    /\ receiver[g] = "running"
    /\ wire[g] # <<>> /\ Head(wire[g]).kind # "heartbeat"
    /\ ~RxAlive(g)
    /\ receiver' = [receiver EXCEPT ![g] = "ended"]
    /\ link' = [link EXCEPT ![g] = "down"]
    /\ UNCHANGED <<sink, connected, chan, queue, lock, conn, dropped, calls, tasks,
                   wire, greeted, taken, said, streaming, events>>

\* Close frame, error or end of stream: the task ends.  It does not touch
\* connected, sink or the channel.
ReceiverEnd(g) ==
    /\ receiver[g] = "running"
    /\ link[g] = "down"
    /\ receiver' = [receiver EXCEPT ![g] = "ended"]
    /\ UNCHANGED <<sink, connected, chan, queue, lock, conn, dropped, calls, tasks, worker>>

-----------------------------------------------------------------------------
(* submit_transaction                                                       *)

\* The worker receives a message sent on the current sink.
Reaches == link[sink] = "up" /\ greeted[sink] = "yes"

SubmitRefused(r) ==
    /\ Shared /\ call[r] = "idle"
    /\ ~connected
    /\ call' = [call EXCEPT ![r] = "not_connected"]
    /\ UNCHANGED <<client, late, status, tasks, worker>>

\* SubmitTransaction is sent and the response loop entered; on a broken socket
\* the send fails or is lost without an error.
SubmitSend(r) ==
    /\ Shared /\ call[r] = "idle"
    /\ connected
    /\ \/ call' = [call EXCEPT ![r] = "looping"]
       \/ link[sink] = "down" /\ call' = [call EXCEPT ![r] = "send_failed"]
    /\ taken' = [taken EXCEPT ![r] = IF Reaches THEN sink ELSE 0]
    /\ UNCHANGED <<client, late, status, tasks, wire, link, greeted, said, streaming, events>>

\* timeout_ms have passed since the send.
Deadline(r) ==
    /\ call[r] \in InCall
    /\ ~late[r]
    /\ late' = [late EXCEPT ![r] = TRUE]
    /\ UNCHANGED <<client, call, status, tasks, worker>>

\* Head of the loop: give up when no time remains, else queue for message_rx.
SubmitPoll(r) ==
    /\ call[r] = "looping"
    /\ ~late[r]
    /\ call' = [call EXCEPT ![r] = "waiting"]
    /\ Enqueue(r)
    /\ UNCHANGED <<sink, connected, chan, queue, receiver, conn, dropped, late, status,
                   tasks, worker>>

SubmitGiveUp(r) ==
    /\ call[r] = "looping"
    /\ late[r]
    /\ call' = [call EXCEPT ![r] = "timed_out"]
    /\ UNCHANGED <<client, late, status, tasks, worker>>

\* The status the loop holds after a reply of its own: the two updates that
\* end the loop leave it as it was.
StatusAfter(old, says) ==
    IF says \in Status THEN says
    ELSE IF says \in {"update_confirmed", "update_failed"} THEN old
    ELSE "processing"

AnyReply(m, r) == m.kind = "reply"           \* Mutant: no test of the request id
OwnReply(m, r) == m.kind = "reply" /\ m.to = r

\* The holder of message_rx takes the next message and releases the lock.  A
\* message that is not a reply to this request is discarded.
SubmitRecv(r) ==
    /\ call[r] = "waiting"
    /\ Holds(r)
    /\ queue # <<>>
    /\ \/ /\ OwnReply(Head(queue), r)
          /\ status' = [status EXCEPT ![r] = StatusAfter(@, Head(queue).says)]
          /\ call' = [call EXCEPT ![r] =
                        IF Head(queue).says \in Final THEN "returned" ELSE "looping"]
       \/ /\ ~OwnReply(Head(queue), r)
          /\ call' = [call EXCEPT ![r] = "looping"]
          /\ UNCHANGED status
    /\ queue' = Tail(queue)
    /\ Release
    /\ UNCHANGED <<sink, connected, chan, receiver, conn, dropped, late, tasks, worker>>

\* Mutant: recv() without a timeout.
SubmitRecvWaits(r) == FALSE

\* The timer on recv(), started once the lock was held, fires.
SubmitRecvTimeout(r) ==
    /\ call[r] = "waiting"
    /\ Holds(r)
    /\ queue = <<>>
    /\ late[r]
    /\ call' = [call EXCEPT ![r] = "timed_out"]
    /\ Release
    /\ UNCHANGED <<sink, connected, chan, queue, receiver, conn, dropped, late, status,
                   tasks, worker>>

-----------------------------------------------------------------------------
(* subscribe_*: five copies of one operation, told apart by their stream.   *)

SubscribeRefused(s) ==
    /\ Shared /\ task[s] = "off"
    /\ connected => link[sink] = "down"      \* or the send fails
    /\ task' = [task EXCEPT ![s] = "refused"]
    /\ UNCHANGED <<client, calls, hand, given, read, reader, worker>>

\* Subscribe is sent and the forwarding task spawned.
Subscribe(s) ==
    /\ Shared /\ task[s] = "off"
    /\ connected
    /\ task' = [task EXCEPT ![s] = "looping"]
    /\ streaming' = IF Reaches THEN streaming \cup {<<sink, StreamOf[s]>>} ELSE streaming
    /\ UNCHANGED <<client, calls, hand, given, read, reader,
                   wire, link, greeted, taken, said, events>>

\* The task queues for message_rx.
TaskPoll(s) ==
    /\ task[s] = "looping"
    /\ task' = [task EXCEPT ![s] = "waiting"]
    /\ Enqueue(s)
    /\ UNCHANGED <<sink, connected, chan, queue, receiver, conn, dropped, calls,
                   hand, given, read, reader, worker>>

AnyEvent(m, s) == m.kind = "event"           \* Mutant: no test of the stream
OwnEvent(m, s) == m.kind = "event" /\ m.to = StreamOf[s]

\* Mutant: messages for others are left at the head of the channel.
TaskRecvOwn(s) ==
    /\ task[s] = "waiting"
    /\ Holds(s)
    /\ queue # <<>> /\ OwnEvent(Head(queue), s)
    /\ task' = [task EXCEPT ![s] = "forwarding"]
    /\ hand' = [hand EXCEPT ![s] = Head(queue)]
    /\ queue' = Tail(queue)
    /\ Release
    /\ UNCHANGED <<sink, connected, chan, receiver, conn, dropped, calls,
                   given, read, reader, worker>>

\* With the lock it waits for a message without a time limit, releases the
\* lock, and discards what is not an event of its stream.
TaskRecv(s) ==
    /\ task[s] = "waiting"
    /\ Holds(s)
    /\ queue # <<>>
    /\ \/ /\ OwnEvent(Head(queue), s)
          /\ task' = [task EXCEPT ![s] = "forwarding"]
          /\ hand' = [hand EXCEPT ![s] = Head(queue)]
       \/ /\ ~OwnEvent(Head(queue), s)
          /\ task' = [task EXCEPT ![s] = "looping"]
          /\ UNCHANGED hand
    /\ queue' = Tail(queue)
    /\ Release
    /\ UNCHANGED <<sink, connected, chan, receiver, conn, dropped, calls,
                   given, read, reader, worker>>

\* Mutant: the end of the channel is not taken for an end.
TaskIgnoresClose(s) == FALSE

\* Every sender of the channel is gone: the transport's, with the transport or
\* since a connect() under way has replaced it, and the receiver task's.
NoSender == (dropped \/ conn = "installing") /\ chan # 0 /\ receiver[chan] = "ended"

\* recv() returns None then, and the task ends.
TaskClosed(s) ==
    /\ task[s] = "waiting"
    /\ Holds(s)
    /\ queue = <<>>
    /\ NoSender
    /\ task' = [task EXCEPT ![s] = "ended"]
    /\ Release
    /\ UNCHANGED <<sink, connected, chan, queue, receiver, conn, dropped, calls,
                   hand, given, read, reader, worker>>

\* The event goes to the subscription's channel, when there is room.
TaskForward(s) ==
    /\ task[s] = "forwarding"
    /\ reader[s]
    /\ Len(given[s]) - read[s] < StreamCap
    /\ given' = [given EXCEPT ![s] = Append(@, hand[s])]
    /\ task' = [task EXCEPT ![s] = "looping"]
    /\ UNCHANGED <<client, calls, hand, read, reader, worker>>

\* The application dropped the channel: the send fails and the task ends.
TaskAbandoned(s) ==
    /\ task[s] = "forwarding"
    /\ ~reader[s]
    /\ task' = [task EXCEPT ![s] = "ended"]
    /\ UNCHANGED <<client, calls, hand, given, read, reader, worker>>

\* The application takes an event, or drops its end of the channel.
AppRead(s) ==
    /\ reader[s] /\ read[s] < Len(given[s])
    /\ read' = [read EXCEPT ![s] = @ + 1]
    /\ UNCHANGED <<client, calls, task, hand, given, reader, worker>>

AppDrop(s) ==
    /\ reader[s] /\ task[s] \in Active
    /\ reader' = [reader EXCEPT ![s] = FALSE]
    /\ UNCHANGED <<client, calls, task, hand, given, read, worker>>

-----------------------------------------------------------------------------
(* The worker and the network (external).                                   *)

Deliver(g, m) == wire' = [wire EXCEPT ![g] = Append(@, m)]

WorkerGreets(g) ==
    /\ link[g] = "up" /\ greeted[g] = "asked"
    /\ \/ /\ greeted' = [greeted EXCEPT ![g] = "yes"]
          /\ Deliver(g, [kind |-> "connected", via |-> g])
       \/ /\ greeted' = [greeted EXCEPT ![g] = "refused"]
          /\ Deliver(g, [kind |-> "error", via |-> g])
    /\ UNCHANGED <<client, calls, tasks, link, taken, said, streaming, events>>

\* The replies to a submission so far.
Said(r) == {said[r][i] : i \in 1..Len(said[r])}

\* At most one reply of each sort per submission, and none after a final one.
WorkerReplies(r) ==
    /\ taken[r] # 0 /\ link[taken[r]] = "up"
    /\ Said(r) \cap Final = {}
    /\ \E what \in Says[r] \ Said(r) :
        /\ said' = [said EXCEPT ![r] = Append(@, what)]
        /\ Deliver(taken[r], [kind |-> "reply", via |-> taken[r], to |-> r, says |-> what,
                              nth |-> Len(said[r]) + 1])
    /\ UNCHANGED <<client, calls, tasks, link, greeted, taken, streaming, events>>

WorkerStreams ==
    /\ events < MaxEvents
    /\ \E x \in streaming :
        /\ link[x[1]] = "up"
        /\ Deliver(x[1], [kind |-> "event", via |-> x[1], to |-> x[2], id |-> events + 1])
    /\ events' = events + 1
    /\ UNCHANGED <<client, calls, tasks, link, greeted, taken, said, streaming>>

\* One heartbeat in flight at a time.
WorkerBeats(g) ==
    /\ Heartbeats
    /\ link[g] = "up" /\ greeted[g] = "yes"
    /\ \A i \in 1..Len(wire[g]) : wire[g][i].kind # "heartbeat"
    /\ Deliver(g, [kind |-> "heartbeat", via |-> g])
    /\ UNCHANGED <<client, calls, tasks, link, greeted, taken, said, streaming, events>>

LinkDrops(g) ==
    /\ link[g] = "up"
    /\ link' = [link EXCEPT ![g] = "down"]
    /\ UNCHANGED <<client, calls, tasks, wire, greeted, taken, said, streaming, events>>

-----------------------------------------------------------------------------
ConnectStep == ConnectInstall \/ ConnectAwait \/ ConnectAnswer \/ ConnectTimeout

ReceiverStep(g) ==
    ReceiveHeartbeat(g) \/ ReceiveMessage(g) \/ ReceiverDetached(g) \/ ReceiverEnd(g)

SubmitStep(r) ==
    SubmitPoll(r) \/ SubmitGiveUp(r) \/ SubmitRecv(r) \/ SubmitRecvTimeout(r)

TaskStep(s) ==
    TaskPoll(s) \/ TaskRecv(s) \/ TaskClosed(s) \/ TaskForward(s) \/ TaskAbandoned(s)

Next ==
    \/ ConnectDial \/ ConnectStep \/ Disconnect \/ Drop
    \/ \E g \in Sessions :
        ReceiverStep(g) \/ WorkerGreets(g) \/ WorkerBeats(g) \/ LinkDrops(g)
    \/ \E r \in Submits :
        SubmitRefused(r) \/ SubmitSend(r) \/ Deadline(r) \/ SubmitStep(r) \/ WorkerReplies(r)
    \/ \E s \in Subs :
        \/ SubscribeRefused(s) \/ Subscribe(s) \/ TaskStep(s)
        \/ AppRead(s) \/ AppDrop(s)
    \/ WorkerStreams

Spec == Init /\ [][Next]_vars

\* Tokio runs every task that can run, timers fire, and the application keeps
\* reading a channel it has not dropped.  Nothing is assumed of the worker, the
\* network or the application's decisions to call, disconnect or drop.
Fairness ==
    /\ WF_vars(ConnectStep)
    /\ \A g \in Sessions : WF_vars(ReceiverStep(g))
    /\ \A r \in Submits : WF_vars(SubmitStep(r)) /\ WF_vars(Deadline(r))
    /\ \A s \in Subs : WF_vars(TaskStep(s)) /\ WF_vars(AppRead(s))

FairSpec == Spec /\ Fairness
-----------------------------------------------------------------------------
(* Properties.                                                              *)

ClientOK ==
    /\ sink \in 0..MaxSessions /\ chan \in 0..MaxSessions
    /\ connected \in BOOLEAN /\ dropped \in BOOLEAN
    /\ queue \in Seq(Message) /\ Len(queue) <= QueueCap
    /\ lock \in Seq(Consumers)
    /\ receiver \in [Sessions -> {"none", "running", "ended"}]
    /\ conn \in {"idle", "installing", "greeting", "awaiting"}

CallState == {"idle", "looping", "waiting", "returned", "timed_out", "not_connected",
              "send_failed"}

CallsOK ==
    /\ call \in [Submits -> CallState]
    /\ late \in [Submits -> BOOLEAN]
    /\ status \in [Submits -> Status]

TaskState == {"off", "refused", "looping", "waiting", "forwarding", "ended"}

TasksOK ==
    /\ task \in [Subs -> TaskState]
    /\ hand \in [Subs -> Event \cup {NoEvent}]
    /\ given \in [Subs -> Seq(Event)]
    /\ read \in [Subs -> Nat]
    /\ \A s \in Subs : read[s] <= Len(given[s]) /\ Len(given[s]) - read[s] <= StreamCap
    /\ reader \in [Subs -> BOOLEAN]

WorkerOK ==
    /\ wire \in [Sessions -> Seq(Message)]
    /\ link \in [Sessions -> {"unused", "up", "down"}]
    /\ greeted \in [Sessions -> {"no", "asked", "yes", "refused"}]
    /\ taken \in [Submits -> 0..MaxSessions]
    /\ said \in [Submits -> Seq(AllSays)]
    /\ streaming \subseteq Sessions \X Streams
    /\ events \in 0..MaxEvents

\* Every variable has its type, and the message channel and the subscription
\* channels stay within their capacities.
TypeOK == ClientOK /\ CallsOK /\ TasksOK /\ WorkerOK

InLock(c) == \E i \in 1..Len(lock) : lock[i] = c

\* The lock on message_rx is held only across one recv(): who holds or awaits
\* it is exactly who is at that await, once each.  A task that forwards an
\* event, and so may block on a full channel, never sits on the lock
\* (the inner block that scopes rx_guard in every loop).
LockOnlyToReceive ==
    /\ \A i, j \in 1..Len(lock) : lock[i] = lock[j] => i = j
    /\ InLock(Connector) <=> conn \in {"installing", "awaiting"}
    /\ \A r \in Submits : InLock(r) <=> call[r] = "waiting"
    /\ \A s \in Subs : InLock(s) <=> task[s] = "waiting"

\* The status a submit call has reached is one the worker gave for that very
\* request, and the call returns only after a final reply of its own: replies
\* to other requests on the shared channel never decide it (the guards
\* rid == request_id).
AnswerIsOwn ==
    \A r \in Submits :
        /\ status[r] = "pending" \/ \E x \in Said(r) : StatusAfter("pending", x) = status[r]
        /\ status[r] = "confirmed" => "confirmed" \in Said(r)
        /\ call[r] = "returned" => Said(r) \cap Final # {}

\* A submission as its caller sees it, and the replies to it that are on the
\* wires or in the channel, by their numbers.
Stage(r) ==
    CASE call[r] = "idle"     -> "new"
      [] call[r] \in InCall   -> "open"
      [] call[r] = "returned" -> "answered"
      [] OTHER                -> "failed"

RepliesTo(q, r) ==
    {q[i].nth : i \in {k \in 1..Len(q) : q[k].kind = "reply" /\ q[k].to = r}}

Coming(r) == RepliesTo(queue, r) \cup UNION {RepliesTo(wire[g], r) : g \in Sessions}

Exchange == INSTANCE RequestReply WITH
    Requests <- Submits, Answers <- AllSays, Start <- "pending", After <- StatusAfter,
    stage <- [r \in Submits |-> Stage(r)], result <- status, told <- said,
    coming <- [r \in Submits |-> Coming(r)]

\* Submissions that share one channel, its lock and its socket with each other,
\* with connect() and with subscriptions see what RequestReply promises: replies
\* of their own only, in order, each at most once, and none after a final one.
RepliesKeepPromise == Exchange!Spec

\* Messages of an earlier socket never reach a caller after a new connect():
\* what the installed channel holds came over the session it was made for.
OnlyThisSession ==
    \A i \in 1..Len(queue) : queue[i].via = chan

\* A subscription's channel carries events of its own stream, in the order the
\* worker sent them and without repetition, whichever tasks took turns at the
\* shared channel.
StreamsInOrder ==
    \A s \in Subs :
        /\ \A i \in 1..Len(given[s]) : given[s][i].to = StreamOf[s]
        /\ \A i, j \in 1..Len(given[s]) : i < j => given[s][i].id < given[s][j].id

\* The flag is set only on a transport whose sink and channel are in place and,
\* between calls of connect(), belong to one and the same session: a call that
\* passed the is_connected() guard never finds the sink or message_rx empty.
ConnectedIsWired ==
    connected => sink # 0 /\ chan # 0 /\ (conn = "idle" => chan = sink)

\* Once wired, a transport that says it is connected has a session the worker
\* accepted.
ConnectedIsAccepted ==
    connected /\ conn = "idle" => greeted[sink] = "yes"

\* What a submit call returns is the outcome the worker reported.
ResultIsOutcome ==
    \A r \in Submits : call[r] = "returned" => status[r] \in {"confirmed", "failed"}

\* Takes(c): the consumer c takes a message off the channel in this step.
Takes(c) ==
    Holds(c) /\ queue # <<>> /\ queue' = Tail(queue) /\ Release

\* An event of a stream with an attentive subscriber is not thrown away by
\* another consumer of the channel.
EventsReachSubscriber ==
    [][\A c \in Submits \cup Subs : Takes(c) /\ Head(queue).kind = "event" =>
        \/ c \in Subs /\ StreamOf[c] = Head(queue).to
        \/ ~\E s \in Subs : /\ StreamOf[s] = Head(queue).to
                            /\ task[s] \in Active /\ reader[s]]_vars

\* Some subscription task holds message_rx over an empty channel: nothing
\* limits its recv() but a message or the end of every sender.
BehindQuiet == queue = <<>> /\ \E s \in Subs : Holds(s)

\* A submit call returns, with an answer, an error or a timeout, unless it is
\* behind a quiet subscription: while some call never returns, from some time on
\* a subscription task holds message_rx over an empty channel for ever (the
\* lock is taken outside the limit of the call).
EverySubmitReturns ==
    <>[](\E r \in Submits : call[r] \in InCall) => <>[]BehindQuiet

\* connect() returns, unless it is behind a quiet subscription in the same way.
ConnectReturns == <>[](conn # "idle") => <>[]BehindQuiet

HeartbeatWaits(g) ==
    receiver[g] = "running" /\ \E i \in 1..Len(wire[g]) : wire[g][i].kind = "heartbeat"

\* A heartbeat does not wait behind a full channel for ever as long as some
\* subscription is being read.
HeartbeatAnswered ==
    \A g \in Sessions : HeartbeatWaits(g) ~>
        ~HeartbeatWaits(g) \/ ~\E s \in Subs : task[s] \in Active /\ reader[s]

\* After the transport was dropped and its socket is gone, every subscription
\* channel closes, so that the application can tell and subscribe again
\* (health.rs:124-126 relies on it).
ClosedOnceDropped ==
    dropped /\ chan # 0 /\ receiver[chan] = "ended" ~> \A s \in Subs : task[s] \notin Active
=============================================================================
