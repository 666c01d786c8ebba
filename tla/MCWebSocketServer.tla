------------------------- MODULE MCWebSocketServer -------------------------
(* An instance of WebSocketServer for TLC. *)
EXTENDS WebSocketServer

CONSTANTS c1, c2

MCConnection == {c1, c2}
=============================================================================
