---------------------------- MODULE StreamTransports ----------------------------
(***************************************************************************)
(* The gRPC transport (connection/grpc.rs) and the HTTP transport            *)
(* (connection/http.rs).  Neither shares anything between its subscriptions: *)
(* the task behind one reads a response stream of its own (gRPC), or polls   *)
(* the worker with the id of the last message it has seen (HTTP).  The tasks *)
(* hold clones of the client and know nothing of the transport any more, so  *)
(* they go on after disconnect() or a second connect().                      *)
(*                                                                          *)
(* The worker and the network are the environment: they publish events,      *)
(* answer or fail requests, and end streams.  The messages of a type are     *)
(* numbered as they are published; MaxEvents bounds them.                    *)
(***************************************************************************)
EXTENDS Naturals, Sequences

CONSTANTS
    Calls,        \* calls of submit_transaction and ping
    Subs,         \* subscriptions
    Streams,      \* stream types
    StreamOf,     \* the stream type of each subscription
    StreamCap,    \* capacity of a subscription's channel (32 in the code)
    MaxEvents     \* bound: messages of a type

ASSUME ConstantsOK ==
    /\ StreamOf \in [Subs -> Streams]
    /\ StreamCap \in Nat \ {0} /\ MaxEvents \in Nat

VARIABLES
    kind,         \* which of the two transports this is
    connected,    \* the AtomicBool is_connected() reads
    call,         \* program counter of each submission or ping
    task,         \* program counter of each subscription
    cursor,       \* the last message its task has seen (last_id), 0 before the first
    hand,         \* the message it is about to send, 0 for none
    given,        \* messages sent to its channel so far
    read,         \* how many of them the application has taken
    reader,       \* does the application still hold the channel
    published,    \* messages the worker has of each type
    \* what happened, for the properties
    orphans       \* subscriptions that were open at a disconnect()

transport == <<kind, connected, call, orphans>>
tasks     == <<task, cursor, hand, given>>
app       == <<read, reader>>
vars      == <<transport, tasks, app, published>>

Init ==
    /\ kind \in {"grpc", "http"}
    /\ connected = FALSE /\ orphans = {}
    /\ call = [c \in Calls |-> "idle"]
    /\ task = [s \in Subs |-> "off"]
    /\ cursor = [s \in Subs |-> 0]
    /\ hand = [s \in Subs |-> 0]
    /\ given = [s \in Subs |-> <<>>]
    /\ read = [s \in Subs |-> 0]
    /\ reader = [s \in Subs |-> TRUE]
    /\ published = [k \in Streams |-> 0]

-----------------------------------------------------------------------------
(* connect() and disconnect() take the transport by &mut self, the others,   *)
(* which read its flag once, when they start, by &self.                      *)

Exclusive ==
    /\ \A c \in Calls : call[c] = "idle"
    /\ \A s \in Subs : task[s] # "asking"

\* The worker accepts.  It may be a second connect(); one that fails changes
\* nothing, not the flag either.
Connect ==
    /\ Exclusive
    /\ connected' = TRUE
    /\ UNCHANGED <<kind, call, orphans, tasks, app, published>>

\* The channels and tasks of the subscriptions are left as they are.
Disconnect ==
    /\ Exclusive
    /\ connected' = FALSE
    /\ orphans' = orphans \cup {s \in Subs : task[s] \notin {"off", "ended"}}
    /\ UNCHANGED <<kind, call, tasks, app, published>>

-----------------------------------------------------------------------------
(* submit_transaction, and the HTTP transport's ping.  One that finds the    *)
(* transport not connected fails at once and changes nothing.                *)

CallStart(c) ==
    /\ connected
    /\ call[c] = "idle"
    /\ call' = [call EXCEPT ![c] = "requesting"]
    /\ UNCHANGED <<kind, connected, orphans, tasks, app, published>>

\* gRPC: the response's headers are there, the stream's first message is not.
CallStreams(c) ==
    /\ kind = "grpc"
    /\ call[c] = "requesting"
    /\ call' = [call EXCEPT ![c] = "streaming"]
    /\ UNCHANGED <<kind, connected, orphans, tasks, app, published>>

\* The worker answers, or the request or the stream fails, at the latest after the
\* 30 s of both clients' timeouts: those of an HTTP request, or of a gRPC one up
\* to its response's headers.  Nothing limits the wait for a gRPC stream's first
\* message.
CallReturns(c) ==
    /\ call[c] # "idle"
    /\ call' = [call EXCEPT ![c] = "idle"]
    /\ UNCHANGED <<kind, connected, orphans, tasks, app, published>>

-----------------------------------------------------------------------------
(* The five subscribe_* operations.                                         *)

\* HTTP: the task is spawned at once and polls.  gRPC: the request for the
\* stream is awaited.
Subscribe(s) ==
    /\ connected
    /\ task[s] = "off"
    /\ task' = [task EXCEPT ![s] = IF kind = "grpc" THEN "asking" ELSE "polling"]
    /\ UNCHANGED <<transport, cursor, hand, given, app, published>>

\* The request fails, and the call with it.
SubscribeFails(s) ==
    /\ task[s] = "asking"
    /\ task' = [task EXCEPT ![s] = "off"]
    /\ UNCHANGED <<transport, cursor, hand, given, app, published>>

\* The worker opens the stream, with whichever of its messages it begins.
SubscribeOpens(s) ==
    /\ task[s] = "asking"
    /\ task' = [task EXCEPT ![s] = "reading"]
    /\ \E n \in 0..published[StreamOf[s]] : cursor' = [cursor EXCEPT ![s] = n]
    /\ UNCHANGED <<transport, hand, given, app, published>>

-----------------------------------------------------------------------------
(* The task of a subscription.                                              *)

Moves(s, from, to) == task[s] = from /\ task' = [task EXCEPT ![s] = to]

\* Message n has been received.
Holds(s, n) ==
    /\ hand' = [hand EXCEPT ![s] = n]
    /\ cursor' = [cursor EXCEPT ![s] = n]

\* stream.message() is Ok(Some): the stream's next message.
StreamRead(s) ==
    /\ Moves(s, "reading", "sending")
    /\ cursor[s] < published[StreamOf[s]]
    /\ Holds(s, cursor[s] + 1)
    /\ UNCHANGED <<transport, given, app, published>>

\* Ok(None) or Err: the worker ended the stream, or the connection is lost.
StreamEnds(s) ==
    /\ Moves(s, "reading", "ended")
    /\ UNCHANGED <<transport, cursor, hand, given, app, published>>

\* Mutant: lastId is not sent.
Anything(s) == 1..published[StreamOf[s]]

\* What the worker answers with lastId: a later message, not always the next.
Later(s) == (cursor[s] + 1)..published[StreamOf[s]]

PollAnswered(s) ==
    /\ Moves(s, "polling", "sending")
    /\ \E n \in Later(s) : Holds(s, n)
    /\ UNCHANGED <<transport, given, app, published>>

\* Mutant: a failed poll ends the task.
GivesUp(s) == Moves(s, "polling", "ended")

Sleeps(s) == Moves(s, "polling", "sleeping")

\* The poll yields nothing: no data, a status or a body that is no message, an
\* error, or the 30 s that the worker may hold it back and that the client waits
\* at most.  A message that was on its way is lost; the cursor stays.
PollFails(s) ==
    /\ Sleeps(s)
    /\ UNCHANGED <<transport, cursor, hand, given, app, published>>

Wake(s) ==
    /\ Moves(s, "sleeping", "polling")
    /\ UNCHANGED <<transport, cursor, hand, given, app, published>>

AfterSend == IF kind = "grpc" THEN "reading" ELSE "sleeping"

Unbounded(s) == TRUE                            \* Mutant: an unbounded channel
Room(s) == Len(given[s]) - read[s] < StreamCap

Forward(s) ==
    /\ Moves(s, "sending", AfterSend)
    /\ reader[s]
    /\ Room(s)
    /\ given' = [given EXCEPT ![s] = Append(@, hand[s])]
    /\ hand' = [hand EXCEPT ![s] = 0]
    /\ UNCHANGED <<transport, cursor, app, published>>

\* Mutant: the result of send is ignored.
GoesOn(s) == Moves(s, "sending", AfterSend)

Stops(s) == Moves(s, "sending", "ended")

\* The application dropped the channel: the send fails.
Abandoned(s) ==
    /\ ~reader[s]
    /\ Stops(s)
    /\ hand' = [hand EXCEPT ![s] = 0]
    /\ UNCHANGED <<transport, cursor, given, app, published>>

-----------------------------------------------------------------------------
(* The application and the worker.                                          *)

AppRead(s) ==
    /\ reader[s] /\ read[s] < Len(given[s])
    /\ read' = [read EXCEPT ![s] = @ + 1]
    /\ UNCHANGED <<transport, tasks, reader, published>>

AppDrop(s) ==
    /\ reader[s] /\ task[s] \notin {"off", "asking"}
    /\ reader' = [reader EXCEPT ![s] = FALSE]
    /\ UNCHANGED <<transport, tasks, read, published>>

Publish(k) ==
    /\ published[k] < MaxEvents
    /\ published' = [published EXCEPT ![k] = @ + 1]
    /\ UNCHANGED <<transport, tasks, app>>

TaskStep(s) ==
    \/ StreamRead(s) \/ PollFails(s) \/ Wake(s) \/ Forward(s) \/ Abandoned(s)

Next ==
    \/ Connect \/ Disconnect
    \/ \E c \in Calls : CallStart(c) \/ CallStreams(c) \/ CallReturns(c)
    \/ \E s \in Subs :
        \/ Subscribe(s) \/ SubscribeFails(s) \/ SubscribeOpens(s)
        \/ StreamEnds(s) \/ PollAnswered(s) \/ TaskStep(s)
        \/ AppRead(s) \/ AppDrop(s)
    \/ \E k \in Streams : Publish(k)

Spec == Init /\ [][Next]_vars

\* Sleeps and polls end.  The runtime schedules the tasks; a gRPC stream
\* brings what was published or breaks; of a subscription's polls, not all fail.
\* The application reads its channel while it holds it.
FairSpec ==
    /\ Spec
    /\ \A s \in Subs :
        WF_vars(TaskStep(s)) /\ SF_vars(PollAnswered(s)) /\ WF_vars(AppRead(s))
-----------------------------------------------------------------------------
(* Properties.                                                              *)

TaskState == {"off", "asking", "reading", "polling", "sending", "sleeping", "ended"}

TransportOK ==
    /\ kind \in {"grpc", "http"} /\ connected \in BOOLEAN /\ orphans \subseteq Subs
    /\ call \in [Calls -> {"idle", "requesting", "streaming"}]
    /\ published \in [Streams -> 0..MaxEvents]

TasksOK ==
    /\ task \in [Subs -> TaskState]
    /\ cursor \in [Subs -> 0..MaxEvents] /\ hand \in [Subs -> 0..MaxEvents]
    /\ given \in [Subs -> Seq(1..MaxEvents)]
    /\ reader \in [Subs -> BOOLEAN]
    /\ read \in [Subs -> Nat]
    /\ \A s \in Subs :
        /\ read[s] \in 0..Len(given[s]) /\ Len(given[s]) - read[s] <= StreamCap
        /\ cursor[s] <= published[StreamOf[s]]
        /\ task[s] = "sending" <=> hand[s] # 0

\* Every variable has its type, no channel holds more than it has room for, and
\* a message is at hand just while it is sent.
TypeOK == TransportOK /\ TasksOK

\* A subscription, seen from its channel.
StateOf(s) == CASE task[s] \in {"off", "asking"} -> "new"
                [] task[s] = "ended" -> "over"
                [] OTHER -> "open"

Promised == INSTANCE Subscriptions WITH
                exact <- kind = "grpc",
                state <- [s \in Subs |-> StateOf(s)],
                delivered <- given

\* Both transports keep the promise of a subscription: whatever polls fail, are
\* answered late or again, and however slowly the application reads, it is given
\* messages that the worker has published, none twice and none out of order, and
\* over gRPC none is missing in between.
KeepsPromise == Promised!Spec

Latest(s) == IF given[s] = <<>> THEN 0 ELSE given[s][Len(given[s])]

\* The worker has published something that a held subscription, whose transport
\* was not disconnected since it was opened, has not been given: neither that
\* message nor a later one.  A gRPC stream may begin after the message, or break,
\* which ends the channel.
Owed(s) ==
    /\ StateOf(s) # "new" /\ reader[s] /\ s \notin orphans
    /\ Latest(s) < published[StreamOf[s]]
    /\ kind = "grpc" =>
        task[s] # "ended" /\ (cursor[s] < published[StreamOf[s]] \/ hand[s] # 0)

\* What is published arrives: no subscription is owed something for ever, once
\* the worker publishes no more (which MaxEvents sees to).
NewsArrive == \A s \in Subs : []<>~Owed(s)

\* The channels of a transport close once it is disconnected.
OrphansClose ==
    \A s \in Subs : s \in orphans ~> StateOf(s) = "over"

\* The task of an abandoned subscription ends with the next message it sees.
\* (Without one, it goes on: an HTTP task polls for ever.)
AbandonedStops ==
    \A s \in Subs :
        ~reader[s] /\ published[StreamOf[s]] > cursor[s] ~> task[s] = "ended"
=============================================================================
