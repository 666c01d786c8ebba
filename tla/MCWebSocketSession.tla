------------------------- MODULE MCWebSocketSession -------------------------
(* Instances of WebSocketSession for TLC: a message the stream sends in    *)
(* one piece and one that takes two.                                       *)
EXTENDS WebSocketSession

CONSTANTS short, long

MCMessage == {short, long}
MCPieces  == [m \in MCMessage |-> IF m = long THEN 2 ELSE 1]
=============================================================================
