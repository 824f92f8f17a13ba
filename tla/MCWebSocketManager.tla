-------------------------- MODULE MCWebSocketManager --------------------------
(* Two connections, of one user or of two, and one task that notifies.        *)
EXTENDS WebSocketManager, TLC
===============================================================================
