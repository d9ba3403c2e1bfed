---------------------------- MODULE MCQuicTransport ----------------------------
(* Small instances of QuicTransport for TLC.                                *)
EXTENDS QuicTransport

CONSTANTS c1                           \* model value: a submission or ping

MCCalls == {c1}
MCNoCalls == {}
MCSubs == {"hints", "slots"}
MCStreams == {"hint", "slot"}
MCStreamOf == [s \in Subs |-> IF s = "hints" THEN "hint" ELSE "slot"]
=============================================================================
