----------------------------- MODULE ByteBudget -----------------------------
(***************************************************************************)
(* The memory that request bodies may take (byteBudget in proxy.go).  A    *)
(* request that does not fit waits on the channel that the next release    *)
(* closes: "parked" holds those whose channel is still open.               *)
(***************************************************************************)
EXTENDS Integers

CONSTANT Limit      \* maxProxyBody

ASSUME BudgetAssumption == Limit \in Nat \ {0}

VARIABLES used, parked

budget == <<used, parked>>

BudgetInit == used = 0 /\ parked = {}

Fits(size) == size <= Limit - used

\* Faulty: tryAcquire without looking.
TakeBytesUnchecked(size) == used' = used + size /\ UNCHANGED parked

\* acquire that succeeds at once, and tryAcquire.
TakeBytes(size) == Fits(size) /\ used' = used + size /\ UNCHANGED parked

\* acquire that does not.
Park(c) == parked' = parked \cup {c} /\ UNCHANGED used

\* Faulty: changed is not closed.
ReturnSilently(c, size) == used' = used - size /\ parked' = parked \ {c}

\* release by request c, which is not waiting any more: whoever waits looks again.
Return(c, size) ==
    /\ used' = used - size
    /\ parked' = IF size > 0 THEN {} ELSE parked \ {c}

=============================================================================
