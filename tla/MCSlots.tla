-------------------------------- MODULE MCSlots --------------------------------
(* Small instances of Slots for TLC. *)
EXTENDS Slots, TLC

MCSymmetry == Permutations(Releases \ Renumbered)
=============================================================================
