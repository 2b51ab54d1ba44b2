------------------------ MODULE MCCodexTokenRefresh ------------------------
(* Small instances of CodexTokenRefresh for TLC. *)
EXTENDS CodexTokenRefresh

AllEvents == Events
NoEvents == {}
=============================================================================
