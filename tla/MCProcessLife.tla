--------------------------- MODULE MCProcessLife ---------------------------
(* A small instance of ProcessLife for TLC. *)
EXTENDS ProcessLife
=============================================================================
