-------------------------- MODULE MCProxyResources --------------------------
(* Small instances of ProxyResources for TLC. *)
EXTENDS ProxyResources, TLC

Steps == <<1, 2>>
NoEvents == {}
LateChange == {"late_change"}
ClientSymmetry == Permutations(Clients) \cup Permutations(Keys)
=============================================================================
