---------------------------- MODULE MCRefreshers ----------------------------
(* A small instance of Refreshers for TLC. *)
EXTENDS Refreshers
=============================================================================
