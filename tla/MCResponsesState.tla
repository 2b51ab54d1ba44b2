-------------------------- MODULE MCResponsesState --------------------------
(* A small instance of ResponsesState for TLC. *)
EXTENDS ResponsesState, TLC

Replies == {<<"created", "completed">>, <<"created", "quota">>,
            <<"created", "failed">>, <<"created", "quota_output">>}

ClientSymmetry == Permutations(Requests) \union Permutations(Ids)
                      \union Permutations(Tokens)
=============================================================================
