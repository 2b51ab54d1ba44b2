------------------------ MODULE MCRoutingStrategies ------------------------
(* A small instance of Routing for TLC. *)
EXTENDS MCAccountRouting, Routing

Sees(standing, known, unlimited, amount, reset) ==
    [standing |-> standing, known |-> known, unlimited |-> unlimited,
     amount |-> amount, reset |-> reset]

Sights ==
    {Sees("regular", TRUE, FALSE, 1, 0), Sees("regular", TRUE, FALSE, 2, 1),
     Sees("recovering", TRUE, TRUE, 1, 2), Sees("blocked", FALSE, FALSE, 0, 0),
     Sees("elsewhere", FALSE, FALSE, 0, 0)}

RoutingSymmetry == RequestSymmetry \union Permutations(IDs)
=============================================================================
