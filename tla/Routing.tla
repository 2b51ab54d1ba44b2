------------------------------- MODULE Routing -------------------------------
(* Both halves of selectAccountWithMode (router.go): AccountRouting says which *)
(* accounts may be chosen and what follows, RoutingStrategies which of them    *)
(* is taken.  They share no variable, so a behaviour is one of the first or   *)
(* one of the second, and the other stays as it was.                          *)
EXTENDS AccountRouting

CONSTANTS
    IDs,        \* the accounts of the strategies
    BatchSize, Views, MaxAssigned   \* see RoutingStrategies

VARIABLES
    subject,    \* which of the two moves: "outcomes" or "strategies"
    strategy, list, cursor, batch, assigned, skipped, ahead, outdone

Order == INSTANCE RoutingStrategies WITH Accounts <- IDs, None <- NoOne

ASSUME StrategiesAssumption ==
    /\ NoOne \notin IDs /\ IsFiniteSet(IDs)
    /\ {BatchSize, MaxAssigned} \subseteq Nat \ {0}
    /\ Views \subseteq Order!View

choiceVars == <<strategy, list, cursor, batch, assigned, skipped, ahead, outdone>>

\* What does not move begins without an account to route to.
RoutingInit ==
    /\ subject \in {"outcomes", "strategies"}
    /\ Init /\ Order!Init
    /\ subject = "outcomes" => strategy = "priority" /\ list = <<>>

RoutingNext ==
    /\ UNCHANGED subject
    /\ \/ subject = "outcomes" /\ Next /\ UNCHANGED choiceVars
       \/ subject = "strategies" /\ Order!Next /\ UNCHANGED vars

RoutingSpec == RoutingInit /\ [][RoutingNext]_<<subject, vars, choiceVars>>

\* See RoutingStrategies.
EveryoneGetsATurn == Order!EveryoneGetsATurn
UseIsCompared == Order!UseIsCompared
FirstIsTaken == Order!FirstIsTaken
=============================================================================
