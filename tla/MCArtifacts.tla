----------------------------- MODULE MCArtifacts -----------------------------
(* Small instances of Artifacts for TLC. *)
EXTENDS Artifacts, TLC

CONSTANTS a, b, c

\* One content larger than the other, so that a quota can fit either or both.
MCSize == a :> 1 @@ b :> 2 @@ c :> 1

MCSymmetry == Permutations(Handlers)
=============================================================================
