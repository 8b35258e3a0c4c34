----------------------------- MODULE MCWebSocket -----------------------------
(* WebSocketSessions for TLC: endpoints of both kinds, and two tasks. *)
EXTENDS WebSocketSessions

CONSTANTS t1, t2

=============================================================================
