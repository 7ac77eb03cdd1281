----------------------------- MODULE OneAtATime -----------------------------
(***************************************************************************)
(* What the task engine promises about one resource: at most one           *)
(* operation is queued or executing on it, an operation starts only from   *)
(* the queue, and what follows it on the same resource is either nothing   *)
(* or one queued next attempt.  This is the contract the comments of       *)
(* hasIncompleteOperation and ClaimNextPending (adapters/sqlite/store.go)  *)
(* state, with no tables, workers, locks or retries in it.                 *)
(***************************************************************************)
CONSTANT Resources

VARIABLE lane    \* lane[r]: what the engine is doing with resource r

LaneStates == {"free", "queued", "busy"}

Init == lane = [r \in Resources |-> "free"]

\* A request (or a manual retry) is accepted only on a free resource.
Submit(r) == lane[r] = "free" /\ lane' = [lane EXCEPT ![r] = "queued"]

\* The queued operation is withdrawn before it started.
Withdraw(r) == lane[r] = "queued" /\ lane' = [lane EXCEPT ![r] = "free"]

\* The queued operation starts executing.
Begin(r) == lane[r] = "queued" /\ lane' = [lane EXCEPT ![r] = "busy"]

\* The executing operation ends, leaving nothing or its next attempt behind.
End(r) == /\ lane[r] = "busy"
          /\ \E s \in {"free", "queued"} : lane' = [lane EXCEPT ![r] = s]

\* A restart ends every executing operation at once and disturbs no other.
Restart == /\ lane' \in [Resources -> LaneStates]
           /\ \A r \in Resources :
                 IF lane[r] = "busy" THEN lane'[r] # "busy"
                                     ELSE lane'[r] = lane[r]

Next == \/ \E r \in Resources : Submit(r) \/ Withdraw(r) \/ Begin(r) \/ End(r)
        \/ Restart

Spec == Init /\ [][Next]_lane
=============================================================================
