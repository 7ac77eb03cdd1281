------------------------------- MODULE MCDeploy -------------------------------
(* Small instances of Deploy for TLC. *)
EXTENDS Deploy, TLC

MCSymmetry == Permutations(Materializes) \union Permutations(Releases \ Materializes)
=============================================================================
