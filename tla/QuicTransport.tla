----------------------------- MODULE QuicTransport -----------------------------
(***************************************************************************)
(* The QUIC transport of the SDK (connection/quic.rs).  A submission or a   *)
(* ping has a bidirectional stream of its own.  A subscription asks with a  *)
(* stream of its own, too, but the worker answers on a stream the worker    *)
(* opens, and the task behind the subscription takes it with accept_uni():  *)
(* the oldest stream nobody has taken yet, whomever it was opened for.      *)
(*                                                                          *)
(* The worker and the network are the environment.  A stream the worker     *)
(* opens is named by the subscription it answers; that name is history only *)
(* properties read, except for the type its messages carry.  MaxSessions    *)
(* and MaxEvents bound the connections dialed and the messages sent.        *)
(***************************************************************************)
EXTENDS Naturals, Sequences, FiniteSets

CONSTANTS
    Calls,        \* calls of submit_transaction and ping
    Subs,         \* subscriptions
    Streams,      \* stream types
    StreamOf,     \* the stream type of each subscription
    StreamCap,    \* capacity of a subscription's channel (32 in the code)
    MaxSessions,  \* bound: connections dialed
    MaxEvents,    \* bound: messages the worker sends on its streams
    None          \* no stream

Sessions == 1..MaxSessions

ASSUME ConstantsOK ==
    /\ IsFiniteSet(Subs)
    /\ StreamOf \in [Subs -> Streams]
    /\ StreamCap \in Nat \ {0}
    /\ MaxSessions \in Nat
    /\ MaxEvents \in Nat
    /\ None \notin Subs

Event == [to : Streams, id : 1..MaxEvents]

\* The end of a stream: the worker finished it, or sent a length of zero or
\* beyond 4096, which the reading task treats alike.
End     == [to |-> None, id |-> 0]
NoEvent == [to |-> None, id |-> 0]

VARIABLES
    connected,   \* the AtomicBool is_connected() reads
    connection,  \* the connection the transport holds, 0 when it is None
    session,     \* the connection session_id was derived from, 0 when it is None
    dialing,     \* the connection connect() authenticates, 0 when it does not run
    draining,    \* disconnect() waits for the endpoint to become idle
    dropped,     \* the transport object was dropped
    call,        \* program counter of each submission or ping
    on,          \* the connection it cloned
    task,        \* program counter of each subscription
    via,         \* the connection it cloned
    reads,       \* the worker's stream its task accepted, None before that
    hand,        \* the message it is about to hand over
    given,       \* messages handed over so far
    read,        \* how many of them the application has taken
    reader,      \* does the application still hold the channel
    crowded,     \* history: subscriptions that waited for a stream together
    link,        \* state of each connection
    answered,    \* calls the worker has answered
    served,      \* what the worker did about each subscription
    offered,     \* streams the worker opened that no task has taken, per connection
    pipe,        \* messages on their way on each of the worker's streams
    events       \* number of messages sent

client == <<connected, connection, session, dialing, draining, dropped>>
calls  == <<call, on>>
tasks  == <<task, via, reads, hand, given, read, reader, crowded>>
worker == <<link, answered, served, offered, pipe, events>>
vars   == <<client, calls, tasks, worker>>

Init ==
    /\ connected = FALSE /\ connection = 0 /\ session = 0
    /\ dialing = 0 /\ draining = FALSE /\ dropped = FALSE
    /\ call = [c \in Calls |-> "idle"]
    /\ on = [c \in Calls |-> 0]
    /\ task = [s \in Subs |-> "off"]
    /\ via = [s \in Subs |-> 0]
    /\ reads = [s \in Subs |-> None]
    /\ hand = [s \in Subs |-> NoEvent]
    /\ given = [s \in Subs |-> <<>>]
    /\ read = [s \in Subs |-> 0]
    /\ reader = [s \in Subs |-> TRUE]
    /\ crowded = {}
    /\ link = [g \in Sessions |-> "unused"]
    /\ answered = {}
    /\ served = [s \in Subs |-> "no"]
    /\ offered = [g \in Sessions |-> <<>>]
    /\ pipe = [s \in Subs |-> <<>>]
    /\ events = 0

\* A subscription whose call or task holds the connection.
Active == {"finishing", "accepting", "reading", "forwarding"}

\* Subscriptions of connection g that have asked and have no stream yet.
Waiting(g) == {s \in Subs : task[s] \in {"finishing", "accepting"} /\ via[s] = g}

-----------------------------------------------------------------------------
(* connect(), disconnect() and drop take the transport by &mut self or by    *)
(* value; everything else by &self.                                         *)

Shared == ~dropped /\ dialing = 0 /\ ~draining

Exclusive ==
    /\ Shared
    /\ \A c \in Calls : call[c] = "idle"
    /\ \A s \in Subs : task[s] # "finishing"

AnyConnect == TRUE                           \* Mutant: connect() has no guard

\* A connected transport is reused: connect() returns at once.
NeedsConnect == ~connected

\* The connection is up and authentication starts.  (When the dial fails
\* nothing changes.)
ConnectDial ==
    /\ Exclusive
    /\ NeedsConnect
    /\ \E g \in Sessions :
        /\ link[g] = "unused"
        /\ \A h \in 1..(g - 1) : link[h] # "unused"
        /\ dialing' = g
        /\ link' = [link EXCEPT ![g] = "up"]
    /\ UNCHANGED <<connected, connection, session, draining, dropped, calls, tasks,
                   answered, served, offered, pipe, events>>

\* The worker accepts the key: connection, session and flag are set.
ConnectAccepted ==
    /\ dialing # 0 /\ link[dialing] = "up"
    /\ connection' = dialing /\ session' = dialing /\ connected' = TRUE
    /\ dialing' = 0
    /\ UNCHANGED <<draining, dropped, calls, tasks, worker>>

\* The key is refused or the connection lost: the only handle is dropped, and
\* the connection with it.
ConnectRefused ==
    /\ dialing # 0
    /\ link' = [link EXCEPT ![dialing] = "closed"]
    /\ dialing' = 0
    /\ UNCHANGED <<connected, connection, session, draining, dropped, calls, tasks,
                   answered, served, offered, pipe, events>>

\* disconnect() up to wait_idle(): flag, connection and session are cleared and
\* the connection closed, under whatever tasks still use it.
Disconnect ==
    /\ Exclusive
    /\ connection # 0
    /\ connected' = FALSE /\ connection' = 0 /\ session' = 0
    /\ link' = [link EXCEPT ![connection] = "closed"]
    /\ draining' = TRUE
    /\ UNCHANGED <<dialing, dropped, calls, tasks, answered, served, offered, pipe, events>>

\* The endpoint is idle.
DisconnectReturns ==
    /\ draining
    /\ draining' = FALSE
    /\ UNCHANGED <<connected, connection, session, dialing, dropped, calls, tasks, worker>>

\* The transport is dropped without disconnect().  The connection outlives it
\* while the task of a subscription holds a handle.
Drop ==
    /\ Exclusive
    /\ connection # 0
    /\ dropped' = TRUE
    /\ link' = [link EXCEPT ![connection] =
                  IF \E s \in Subs : task[s] \in Active /\ via[s] = connection
                  THEN @ ELSE "closed"]
    /\ UNCHANGED <<connected, connection, session, dialing, draining, calls, tasks,
                   answered, served, offered, pipe, events>>

-----------------------------------------------------------------------------
(* submit_transaction and ping: a stream of its own for every call.          *)

\* The connection is cloned, a stream opened, the frame written and finished.
\* Without a connection, or on a closed one, the call fails at once and changes
\* nothing; one that is lost before the answer came, CallFails.
CallStart(c) ==
    /\ Shared /\ call[c] = "idle"
    /\ connected /\ connection # 0
    /\ link[connection] = "up"
    /\ call' = [call EXCEPT ![c] = "waiting"]
    /\ on' = [on EXCEPT ![c] = connection]
    /\ UNCHANGED <<client, tasks, worker>>

\* The call returns, with whatever outcome; its streams and handle are dropped.
Returns(c) ==
    /\ call' = [call EXCEPT ![c] = "idle"]
    /\ on' = [on EXCEPT ![c] = 0]
    /\ answered' = answered \ {c}
    /\ UNCHANGED <<client, tasks, link, served, offered, pipe, events>>

\* The answer is read and returned, or found too short or too long.
CallAnswered(c) ==
    /\ call[c] = "waiting"
    /\ c \in answered
    /\ Returns(c)

\* The connection is gone before the answer came.
CallFails(c) ==
    /\ call[c] = "waiting"
    /\ link[on[c]] = "closed" /\ c \notin answered
    /\ Returns(c)

-----------------------------------------------------------------------------
(* subscribe_stream, called by the five subscribe_* operations.             *)

\* The connection is cloned and the request written on a stream of its own; the
\* worker may see it before the call is any further.  Without a connection, or
\* on a closed one, the call fails and changes nothing.
SubscribeStart(s) ==
    /\ Shared /\ task[s] = "off"
    /\ connected /\ connection # 0
    /\ link[connection] = "up"
    /\ task' = [task EXCEPT ![s] = "finishing"]
    /\ via' = [via EXCEPT ![s] = connection]
    /\ served' = [served EXCEPT ![s] = "asked"]
    /\ crowded' = IF Waiting(connection) = {} THEN crowded
                  ELSE crowded \cup {s} \cup Waiting(connection)
    /\ UNCHANGED <<client, calls, reads, hand, given, read, reader,
                   link, answered, offered, pipe, events>>

\* finish() returned, with an error or without: the task is spawned.
SubscribeSpawn(s) ==
    /\ task[s] = "finishing"
    /\ task' = [task EXCEPT ![s] = "accepting"]
    /\ UNCHANGED <<client, calls, via, reads, hand, given, read, reader, crowded, worker>>

-----------------------------------------------------------------------------
(* The task of a subscription.  Definitions marked "Mutant" are wrong on     *)
(* purpose: a property has to fail when one of them stands in.              *)

\* The task ends.  Its stream is dropped, which stops the worker's sending, and
\* so is its handle on the connection.
Ends(s) ==
    /\ task' = [task EXCEPT ![s] = "ended"]
    /\ hand' = [hand EXCEPT ![s] = NoEvent]
    /\ pipe' = [k \in Subs |-> IF k = reads[s] THEN <<>> ELSE pipe[k]]
    /\ served' = [k \in Subs |-> IF k = reads[s] THEN "finished" ELSE served[k]]
    /\ link' = [g \in Sessions |->
                  IF g = via[s] /\ dropped
                     /\ ~\E t \in Subs \ {s} : task[t] \in Active /\ via[t] = g
                  THEN "closed" ELSE link[g]]

\* Mutant: the transport's current connection is asked for a stream.
CurrentConnection(s) == IF connection = 0 THEN via[s] ELSE connection

\* The connection cloned by the call that spawned the task.
OwnConnection(s) == via[s]

\* accept_uni(): the oldest stream nobody has taken, whatever its type, also
\* one that came before the connection was closed.
TaskAccept(s) ==
    LET g == OwnConnection(s) IN
    /\ task[s] = "accepting"
    /\ offered[g] # <<>>
    /\ reads' = [reads EXCEPT ![s] = Head(offered[g])]
    /\ offered' = [offered EXCEPT ![g] = Tail(@)]
    /\ task' = [task EXCEPT ![s] = "reading"]
    /\ UNCHANGED <<client, calls, via, hand, given, read, reader, crowded,
                   link, answered, served, pipe, events>>

\* Mutant: a closed connection is waited on.
TaskAcceptWaits(s) == FALSE

TaskAcceptFails(s) ==
    /\ task[s] = "accepting"
    /\ link[via[s]] = "closed" /\ offered[via[s]] = <<>>
    /\ Ends(s)
    /\ UNCHANGED <<client, calls, via, reads, given, read, reader, crowded,
                   answered, offered, events>>

\* Mutant: the first byte of a message is not compared with the stream type.
AnyMessage(m, s) == TRUE
Decodes(m, s) == m.to = StreamOf[s]

\* A message of the subscription's type is to be handed over, another one is
\* skipped: the decoder returns None for it.
TaskRead(s) ==
    /\ task[s] = "reading"
    /\ pipe[reads[s]] # <<>> /\ Head(pipe[reads[s]]) # End
    /\ pipe' = [pipe EXCEPT ![reads[s]] = Tail(@)]
    /\ IF Decodes(Head(pipe[reads[s]]), s)
       THEN /\ task' = [task EXCEPT ![s] = "forwarding"]
            /\ hand' = [hand EXCEPT ![s] = Head(pipe[reads[s]])]
       ELSE UNCHANGED <<task, hand>>
    /\ UNCHANGED <<client, calls, via, reads, given, read, reader, crowded,
                   link, answered, served, offered, events>>

\* The stream ended, or the connection (then what was on its way may be lost).
TaskReadEnds(s) ==
    /\ task[s] = "reading"
    /\ \/ pipe[reads[s]] # <<>> /\ Head(pipe[reads[s]]) = End
       \/ link[via[s]] = "closed"
    /\ Ends(s)
    /\ UNCHANGED <<client, calls, via, reads, given, read, reader, crowded,
                   answered, offered, events>>

Unbounded(s) == TRUE                         \* Mutant: an unbounded channel
Room(s) == Len(given[s]) - read[s] < StreamCap

TaskForward(s) ==
    /\ task[s] = "forwarding"
    /\ reader[s]
    /\ Room(s)
    /\ given' = [given EXCEPT ![s] = Append(@, hand[s])]
    /\ hand' = [hand EXCEPT ![s] = NoEvent]
    /\ task' = [task EXCEPT ![s] = "reading"]
    /\ UNCHANGED <<client, calls, via, reads, read, reader, crowded, worker>>

\* The application dropped the channel: the send fails.
TaskAbandoned(s) ==
    /\ task[s] = "forwarding"
    /\ ~reader[s]
    /\ Ends(s)
    /\ UNCHANGED <<client, calls, via, reads, given, read, reader, crowded,
                   answered, offered, events>>

\* The application takes a message, or drops its end of the channel.
AppRead(s) ==
    /\ reader[s] /\ read[s] < Len(given[s])
    /\ read' = [read EXCEPT ![s] = @ + 1]
    /\ UNCHANGED <<client, calls, task, via, reads, hand, given, reader, crowded, worker>>

AppDrop(s) ==
    /\ reader[s] /\ task[s] \in Active
    /\ reader' = [reader EXCEPT ![s] = FALSE]
    /\ UNCHANGED <<client, calls, task, via, reads, hand, given, read, crowded, worker>>

-----------------------------------------------------------------------------
(* The worker and the network (external).                                   *)

WorkerAnswers(c) ==
    /\ call[c] = "waiting" /\ c \notin answered
    /\ link[on[c]] = "up"
    /\ answered' = answered \cup {c}
    /\ UNCHANGED <<client, calls, tasks, link, served, offered, pipe, events>>

\* One stream per request, opened in any order.
WorkerOpens(s) ==
    /\ served[s] = "asked" /\ link[via[s]] = "up"
    /\ served' = [served EXCEPT ![s] = "open"]
    /\ offered' = [offered EXCEPT ![via[s]] = Append(@, s)]
    /\ UNCHANGED <<client, calls, tasks, link, answered, pipe, events>>

WorkerSends(s) ==
    /\ served[s] = "open" /\ link[via[s]] = "up"
    /\ events < MaxEvents
    /\ events' = events + 1
    /\ pipe' = [pipe EXCEPT ![s] = Append(@, [to |-> StreamOf[s], id |-> events + 1])]
    /\ UNCHANGED <<client, calls, tasks, link, answered, served, offered>>

WorkerFinishes(s) ==
    /\ served[s] = "open" /\ link[via[s]] = "up"
    /\ served' = [served EXCEPT ![s] = "finished"]
    /\ pipe' = [pipe EXCEPT ![s] = Append(@, End)]
    /\ UNCHANGED <<client, calls, tasks, link, answered, offered, events>>

\* The worker closes the connection, or nothing was heard of it for 30 s.
LinkCloses(g) ==
    /\ link[g] = "up"
    /\ link' = [link EXCEPT ![g] = "closed"]
    /\ UNCHANGED <<client, calls, tasks, answered, served, offered, pipe, events>>

-----------------------------------------------------------------------------
CallStep(c) == CallAnswered(c) \/ CallFails(c)

TaskStep(s) ==
    \/ SubscribeSpawn(s) \/ TaskAccept(s) \/ TaskAcceptFails(s) \/ TaskRead(s) \/ TaskReadEnds(s)
    \/ TaskForward(s) \/ TaskAbandoned(s)

Next ==
    \/ ConnectDial \/ ConnectAccepted \/ ConnectRefused
    \/ Disconnect \/ DisconnectReturns \/ Drop
    \/ \E c \in Calls : CallStart(c) \/ CallStep(c) \/ WorkerAnswers(c)
    \/ \E s \in Subs :
        \/ SubscribeStart(s) \/ TaskStep(s)
        \/ AppRead(s) \/ AppDrop(s)
        \/ WorkerOpens(s) \/ WorkerSends(s) \/ WorkerFinishes(s)
    \/ \E g \in Sessions : LinkCloses(g)

Spec == Init /\ [][Next]_vars

\* Tokio runs every task that can run, the QUIC stack reports a closed
\* connection to whoever waits on it, and the application keeps reading a
\* channel it has not dropped.  Nothing is assumed of the worker.
Fairness ==
    /\ \A c \in Calls : WF_vars(CallStep(c))
    /\ \A s \in Subs : WF_vars(TaskStep(s)) /\ WF_vars(AppRead(s))

FairSpec == Spec /\ Fairness

-----------------------------------------------------------------------------
(* Properties.                                                              *)

ClientOK ==
    /\ connected \in BOOLEAN /\ draining \in BOOLEAN /\ dropped \in BOOLEAN
    /\ connection \in 0..MaxSessions /\ session \in 0..MaxSessions
    /\ dialing \in 0..MaxSessions

CallsOK ==
    /\ call \in [Calls -> {"idle", "waiting"}]
    /\ on \in [Calls -> 0..MaxSessions]
    /\ \A c \in Calls : call[c] = "waiting" => on[c] # 0

TaskState == {"off", "ended"} \cup Active

TasksOK ==
    /\ task \in [Subs -> TaskState]
    /\ via \in [Subs -> 0..MaxSessions]
    /\ \A s \in Subs : task[s] \in Active => via[s] # 0
    /\ reads \in [Subs -> Subs \cup {None}]
    /\ \A s \in Subs : task[s] \in {"reading", "forwarding"} => reads[s] # None
    /\ hand \in [Subs -> Event \cup {NoEvent}]
    /\ \A s \in Subs : task[s] = "forwarding" => hand[s] \in Event
    /\ given \in [Subs -> Seq(Event)]
    /\ read \in [Subs -> Nat]
    /\ \A s \in Subs : read[s] <= Len(given[s]) /\ Len(given[s]) - read[s] <= StreamCap
    /\ reader \in [Subs -> BOOLEAN]
    /\ crowded \subseteq Subs

WorkerOK ==
    /\ link \in [Sessions -> {"unused", "up", "closed"}]
    /\ answered \subseteq Calls
    /\ served \in [Subs -> {"no", "asked", "open", "finished"}]
    /\ \A s \in Subs : served[s] # "no" => via[s] # 0
    /\ offered \in [Sessions -> Seq(Subs)]
    /\ pipe \in [Subs -> Seq(Event \cup {End})]
    /\ events \in 0..MaxEvents

\* Every variable has its type; calls and tasks hold a connection, and the
\* subscription channels stay within their capacity.
TypeOK == ClientOK /\ CallsOK /\ TasksOK /\ WorkerOK

\* One connection at a time: a repeated connect(), which the fallback chain's
\* callers make (client.rs:237), never leaves a second one open beside the
\* first, and a transport that says it is connected holds a connection.
OneConnection ==
    /\ \A g, h \in Sessions : link[g] = "up" /\ link[h] = "up" => g = h
    /\ connected => connection # 0 /\ session = connection

\* A subscription's channel carries messages of its own type only, in the order
\* the worker sent them, even when its task reads the stream of another
\* subscription (the test of data[0] in each decoder).
OwnTypeInOrder ==
    \A s \in Subs :
        /\ \A i \in 1..Len(given[s]) : given[s][i].to = StreamOf[s]
        /\ \A i, j \in 1..Len(given[s]) : i < j => given[s][i].id < given[s][j].id

\* A subscription that had no other beside it while it waited for its stream
\* reads the stream the worker opened for it: older connections and tasks that
\* ended before it leave nothing behind that it could take instead.
AloneGetsOwn ==
    \A s \in Subs \ crowded : reads[s] \in {s, None}

\* The task of a subscription reads the stream the worker opened for it.
GetsOwnType ==
    \A s \in Subs : reads[s] # None => StreamOf[reads[s]] = StreamOf[s]

\* When the connection is closed - by disconnect(), the worker or the idle
\* timeout - a call in progress on it returns, and the task of a subscription
\* ends and closes its channel, wherever it waits.
ClosedReleasesAll ==
    /\ \A c \in Calls :
        (call[c] = "waiting" /\ link[on[c]] = "closed") ~> call[c] = "idle"
    /\ \A s \in Subs :
        (task[s] \in Active /\ link[via[s]] = "closed") ~> task[s] \notin Active
=============================================================================
