-------------------------- MODULE MCAccountRouting --------------------------
(* Small instances of AccountRouting for TLC. *)
EXTENDS AccountRouting, TLC

\* 10s, 30s, 5m, 15m in the same order as each other and as the other two
\* durations: the second step is the soft-probe cap, the third the reset.
Steps == <<1, 2, 3>>

RequestSymmetry == Permutations(Requests)

OutcomeEvents ==
    {"failure", "quota", "rate_limit", "restricted", "incompatible", "status",
     "gone", "gate", "write_failure", "crash"}
AdminEvents ==
    {"failure", "quota", "rekey", "toggle", "usage", "balance", "wake"}
RestartEvents ==
    {"unauthorized", "restricted", "touch", "crash", "write_failure"}
ProbeEvents == {"failure", "quota"}
=============================================================================
