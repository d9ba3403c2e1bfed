------------------------------ MODULE MCConnecting ------------------------------
(* Small instances of Connecting for TLC.                                   *)
EXTENDS Connecting

\* Two workers in one region, a third alone in the other.
MCWorkers == 1..3
MCHome == <<"us", "us", "eu">>

\* What discovery gives: always QUIC and gRPC.  One has HTTP, no WebSocket, and
\* old ports of both while it migrates.
MCAdverts == {[offers |-> {"quic", "grpc", "http"}, legacy |-> {"quic", "grpc"}],
              [offers |-> {"quic", "grpc"}, legacy |-> {}]}
=============================================================================
