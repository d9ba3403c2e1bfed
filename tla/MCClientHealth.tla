----------------------------- MODULE MCClientHealth -----------------------------
(* Small instances of ClientHealth for TLC.                                 *)
EXTENDS ClientHealth

CONSTANTS c1, c2, s1                   \* model values: callers, a stream

MCCallers2 == {c1, c2}
MCCaller1  == {c1}
MCStream1  == {s1}
MCNone     == {}
=============================================================================
