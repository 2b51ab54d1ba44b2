------------------------ MODULE MCCodexWebSocketPool ------------------------
(* A small instance of CodexWebSocketPool for TLC. *)
EXTENDS CodexWebSocketPool
=============================================================================
