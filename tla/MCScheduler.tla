----------------------------- MODULE MCScheduler -----------------------------
(* Small instances of the scheduler for TLC. *)
EXTENDS Scheduler, TLC

MCRules == {[trigger |-> "cron", policy |-> "skip"], [trigger |-> "cron", policy |-> "runOnce"],
            [trigger |-> "interval", policy |-> "runOnce"]}

MCSymmetry == Permutations(Schedules)
=============================================================================
