------------------------ MODULE MCWebSocketBenchmark ------------------------
(* An instance of WebSocketBenchmark for TLC: two requests, of which the   *)
(* second is sent in two pieces.                                           *)
EXTENDS WebSocketBenchmark

MCMessage == {0, 1}
MCPieces  == [m \in MCMessage |-> m + 1]
=============================================================================
