--------------------------- MODULE MCStreamTransports ---------------------------
(* A small instance of StreamTransports for TLC.                            *)
EXTENDS StreamTransports

CONSTANTS c1, s1, s2, hints     \* model values: calls, subscriptions, stream types

MCCalls    == {c1}
MCSubs     == {s1, s2}
MCStreams  == {hints}
MCStreamOf == [s \in MCSubs |-> hints]
=============================================================================
