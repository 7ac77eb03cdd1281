----------------------------- MODULE MCOpEngine -----------------------------
(* Small instances of the task engine for TLC. *)
EXTENDS OpEngine, TLC

\* The requests may carry no policy, or one that retries everything the
\* whitelist allows once.
TwoAttempts == [maxAttempts |-> 2, codes |-> {}]
MCPolicies  == {NoPolicy, TwoAttempts}

\* A policy that retries only the command's own failure, up to three attempts.
OwnFailures == [maxAttempts |-> 3, codes |-> {"EXEC_EXIT_NONZERO"}]
MCChainPolicies == {NoPolicy, TwoAttempts, OwnFailures}

MCSymmetry == Permutations(Workers) \cup Permutations(Resources)
=============================================================================
