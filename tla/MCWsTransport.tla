----------------------------- MODULE MCWsTransport -----------------------------
(* Small instances of WsTransport for TLC.                                  *)
EXTENDS WsTransport

CONSTANTS r1, r2                       \* model values: submit calls

MCSubmits2 == {r1, r2}
MCSubmit1  == {r1}
MCNone     == {}

\* The worker answers r1, at most twice, and is silent on r2; it may give every
\* answer that ends a call; it answers nothing.
MCSaysOne  == [r \in Submits |-> IF r = r1 THEN {"accepted", "confirmed"} ELSE {}]
MCSaysEnds == [r \in Submits |-> {"accepted", "sent"} \cup Final]
MCSaysNone == [r \in Submits |-> {}]

\* Subscriptions: one to each stream, or a single one.
MCSubs2 == {"hints", "slots"}
MCSub1  == {"slots"}
MCStreams == {"hint", "slot"}
MCOwnStreams == [s \in Subs |-> IF s = "hints" THEN "hint" ELSE "slot"]
MCOneStream  == [s \in Subs |-> "slot"]
=============================================================================
