----------------------------- MODULE TransportCell -----------------------------
(***************************************************************************)
(* What the client's slot promises to those who use it (the field transport  *)
(* of SlipstreamClient and its clones in finish_connect): each use, from its *)
(* begin to its end, is of one transport, the one in the slot; who closes it *)
(* has it alone; and only a closed transport that nobody uses is replaced,   *)
(* by a new one that is usable.  There is no lock and no monitor here.       *)
(* Transports are numbered as they come into the slot.                      *)
(***************************************************************************)
EXTENDS Naturals

CONSTANT Users           \* those who use the transport

VARIABLES
    cell,                \* the transport in the slot
    usable,              \* the transports that were in it and are connected
    using,               \* the transport each user has at hand, 0 if none
    closing              \* who has it to close it

vars == <<cell, usable, using, closing>>

Init ==
    /\ cell = 1 /\ usable = {1}
    /\ using = [u \in Users |-> 0]
    /\ closing = {}

Begin(u) ==
    /\ using[u] = 0
    /\ closing = {}
    /\ using' = [using EXCEPT ![u] = cell]
    /\ UNCHANGED <<cell, usable, closing>>

End(u) ==
    /\ using[u] # 0
    /\ u \notin closing
    /\ using' = [using EXCEPT ![u] = 0]
    /\ UNCHANGED <<cell, usable, closing>>

Unused == \A u \in Users : using[u] = 0

BeginClose(u) ==
    /\ Unused
    /\ using' = [using EXCEPT ![u] = cell]
    /\ closing' = {u}
    /\ UNCHANGED <<cell, usable>>

EndClose(u) ==
    /\ closing = {u}
    /\ using' = [using EXCEPT ![u] = 0]
    /\ closing' = {}
    /\ usable' = usable \ {cell}
    /\ UNCHANGED cell

Replace ==
    /\ Unused
    /\ cell \notin usable
    /\ cell' = cell + 1
    /\ usable' = usable \cup {cell + 1}
    /\ UNCHANGED <<using, closing>>

Next ==
    \/ \E u \in Users : Begin(u) \/ End(u) \/ BeginClose(u) \/ EndClose(u)
    \/ Replace

Spec == Init /\ [][Next]_vars
=============================================================================
