------------------------------ MODULE MCBackups ------------------------------
(* Small instances of Backups for TLC. *)
EXTENDS Backups, TLC

CONSTANTS byNumber, byDays

\* One policy keeps its last backup, the other one those of the last day.
MCKeepLast == byNumber :> 1 @@ byDays :> 0
MCKeepDays == byNumber :> 0 @@ byDays :> 1

MCSymmetry == Permutations(Jobs) \union Permutations(Pruners)
=============================================================================
