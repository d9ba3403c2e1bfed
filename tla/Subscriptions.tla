----------------------------- MODULE Subscriptions -----------------------------
(***************************************************************************)
(* What a subscription promises to the application that holds its channel,   *)
(* whatever the transport (trait Transport, connection/mod.rs): the events   *)
(* of its type, each at most once and in the order the worker published      *)
(* them, from when it was opened until it is over.  An exact one has no      *)
(* gaps, either.  Events of a type are numbered as they are published.       *)
(***************************************************************************)
EXTENDS Naturals, Sequences

CONSTANTS
    Subs,         \* subscriptions
    Streams,      \* stream types
    StreamOf      \* the stream type of each subscription

VARIABLES
    exact,        \* does no event get lost between two that are delivered
    published,    \* the events of each type that exist
    state,        \* of each subscription: "new", "open", "over"
    delivered     \* the events put into its channel

vars == <<exact, published, state, delivered>>

Init ==
    /\ exact \in BOOLEAN
    /\ published = [k \in Streams |-> 0]
    /\ state = [s \in Subs |-> "new"]
    /\ delivered = [s \in Subs |-> <<>>]

\* An event of type k comes into being.
Publish(k) ==
    /\ published' = [published EXCEPT ![k] = @ + 1]
    /\ UNCHANGED <<exact, state, delivered>>

Open(s) ==
    /\ state[s] = "new"
    /\ state' = [state EXCEPT ![s] = "open"]
    /\ UNCHANGED <<exact, published, delivered>>

\* Event n may come next: it exists, and the one before it was an earlier one,
\* if exact the one just before it.
Follows(n, seq) ==
    seq # <<>> => IF exact THEN n = seq[Len(seq)] + 1 ELSE n > seq[Len(seq)]

Deliver(s, n) ==
    /\ state[s] = "open"
    /\ n \in 1..published[StreamOf[s]]
    /\ Follows(n, delivered[s])
    /\ delivered' = [delivered EXCEPT ![s] = Append(@, n)]
    /\ UNCHANGED <<exact, published, state>>

Finish(s) ==
    /\ state[s] = "open"
    /\ state' = [state EXCEPT ![s] = "over"]
    /\ UNCHANGED <<exact, published, delivered>>

Next ==
    \/ \E k \in Streams : Publish(k)
    \/ \E s \in Subs :
        \/ Open(s) \/ Finish(s)
        \/ \E n \in 1..published[StreamOf[s]] : Deliver(s, n)

Spec == Init /\ [][Next]_vars
=============================================================================
