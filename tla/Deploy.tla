-------------------------------- MODULE Deploy --------------------------------
(***************************************************************************)
(* Deployment and rollback of one single-slot application                  *)
(* (internal/application/deploy.go): the release rows in SQLite, the       *)
(* release directories and the current pointer on disk, the unit file and  *)
(* the process of the application, and the steps of DeployService.apply    *)
(* with its compensation.                                                  *)
(*                                                                         *)
(* The task engine runs at most one operation per application (OpEngine),  *)
(* so there is one apply at a time.  Each call to the database, the disk   *)
(* or systemd is one action; it can fail, and once the context of the      *)
(* operation is cancelled every further call with that context fails.      *)
(* A release stands for its version, its artifact and its own manifest.    *)
(***************************************************************************)
EXTENDS ReleaseRows

CONSTANTS
  Materializes,  \* those whose manifest unpacks an artifact (Spec.Materializes)
  MaxRequests,   \* bound: deploy, rollback and retry requests
  MaxFailures,   \* bound: calls that fail by themselves
  MaxCancels,    \* bound: cancelled operations
  MaxCrashes     \* bound: crashes of the daemon

ASSUME DeployAssumption ==
  /\ Materializes \subseteq Releases
  /\ {MaxRequests, MaxFailures, MaxCancels, MaxCrashes} \subseteq Nat

VARIABLES
  dirs,         \* release directories on disk
  current,      \* where the current pointer points
  unit,         \* the manifest the unit and environment files were written from
  running,      \* the process: what it was started from, or Stopped
  wanted,       \* requests that passed their checks and wait for the engine
  op,           \* the operation that runs or ran last
  cancelled,    \* the context of op is done
  requests, failures, cancels, crashes

disk == <<dirs, current>>
bounds == <<requests, failures, cancels, crashes>>
vars == <<status, directory, activatedAt, dirs, current, unit, running, wanted,
          op, cancelled, requests, failures, cancels, crashes>>

Stopped == [bin |-> None, conf |-> None]

\* The process release r should be: its own files with its own manifest.
ProcessOf(r) == [bin |-> r, conf |-> r]

Steps == {"prepare", "stop", "materialize", "activate", "start", "ready", "record",
          "prune", "pruned", "undoStop", "undoActivate", "undoPrepare", "undoStart",
          "teardownStop", "teardownPointer", "remove", "fail", "ended"}

Outcomes == {"none", "succeeded", "rolledBack", "untouched", "broken", "crashed"}

Init ==
  /\ RowsInit
  /\ dirs = {} /\ current = None /\ unit = None /\ running = Stopped
  /\ wanted = {}
  /\ op = [kind |-> "deploy", rel |-> None, prev |-> None, step |-> "ended", switched |-> FALSE,
           stopped |-> FALSE, undone |-> FALSE, stuck |-> FALSE, todo |-> {},
           outcome |-> "none"]
  /\ cancelled = FALSE
  /\ requests = 0 /\ failures = 0 /\ cancels = 0 /\ crashes = 0

-----------------------------------------------------------------------------
\* Requests.  Their checks run before the operation exists, outside its lock.
Ask(kind, r) ==
  /\ requests < MaxRequests
  /\ requests' = requests + 1
  /\ wanted' = wanted \union {[kind |-> kind, rel |-> r]}
  /\ UNCHANGED <<disk, unit, running, op, cancelled, failures, cancels, crashes>>

\* A version that is active already is a no-op; a new one gets its row.
PrepareDeploy(r) ==
  /\ status[r] # "active"
  /\ CreateRelease(r)
  /\ Ask("deploy", r)

\* The target is named, or the newest superseded version.
PrepareRollback(r) ==
  /\ status[r] \in Rollbackable
  /\ r # Active
  /\ Ask("rollback", r)
  /\ UNCHANGED rows

\* A manual or automatic retry names the release of the ended operation again.
Retry ==
  /\ op.step = "ended" /\ op.outcome \notin {"none", "succeeded"}
  /\ Ask(op.kind, op.rel)
  /\ UNCHANGED rows

\* The engine refuses a request whose application has an incomplete operation.
Refused ==
  /\ \E q \in wanted : wanted' = wanted \ {q}
  /\ op.step # "ended"
  /\ UNCHANGED <<rows, disk, unit, running, op, cancelled, bounds>>

Cancel ==
  /\ op.step # "ended" /\ ~cancelled /\ cancels < MaxCancels
  /\ cancelled' = TRUE
  /\ cancels' = cancels + 1
  /\ UNCHANGED <<rows, disk, unit, running, wanted, op,
                 requests, failures, crashes>>

-----------------------------------------------------------------------------
\* One call of apply, tried with the context of the operation.
At(step) == op.step = step /\ UNCHANGED <<wanted, cancelled, requests, cancels, crashes>>

Works == ~cancelled /\ UNCHANGED failures

Breaks ==
  /\ cancelled \/ failures < MaxFailures
  /\ failures' = IF cancelled THEN failures ELSE failures + 1

Go(step) == op' = [op EXCEPT !.step = step]

\* fail: whether something online has to be undone, and how.
FailStep ==
  IF (op.switched \/ op.stopped) /\ op.prev # None THEN "undoStop"
  ELSE IF op.switched THEN "teardownStop" ELSE "remove"

GoFail == Breaks /\ Go(FailStep)

\* The worker takes the operation: read the release and the active one, mark.
ApplyBegin(q) ==
  /\ op.step = "ended"
  /\ q \in wanted
  /\ wanted' = wanted \ {q}
  /\ MarkReleaseDeploying(q.rel)
  /\ op' = [kind |-> q.kind, rel |-> q.rel, prev |-> Active, step |-> "prepare",
            switched |-> FALSE, stopped |-> FALSE, undone |-> FALSE, stuck |-> FALSE,
            todo |-> {}, outcome |-> "none"]
  /\ cancelled' = FALSE
  /\ UNCHANGED <<disk, unit, running, bounds>>

AfterStop == IF op.rel \in Materializes THEN "materialize" ELSE "start"

\* runtime.Prepare writes environment files and unit for this manifest.  When it
\* fails, the files may have been rewritten already.
Prepare ==
  /\ At("prepare")
  /\ \/ /\ Works /\ unit' = op.rel
        /\ Go(IF op.prev # None THEN "stop" ELSE AfterStop)
     \/ unit' \in {unit, op.rel} /\ GoFail
  /\ UNCHANGED <<rows, disk, running>>

StopPrevious_Skipped ==
  /\ At("stop")
  /\ Works /\ Go(AfterStop)
  /\ UNCHANGED <<rows, disk, unit, running>>

\* runtime.Stop of the previous version; a failing systemctl stop may have
\* stopped it all the same.
StopPrevious ==
  /\ At("stop")
  /\ \/ /\ Works /\ running' = Stopped
        /\ op' = [op EXCEPT !.step = AfterStop, !.stopped = TRUE]
     \/ running' \in {running, Stopped} /\ GoFail
  /\ UNCHANGED <<rows, disk, unit>>

\* materializeIfMissing: unpack into a staging directory and rename, unless the
\* directory is there.
Materialize ==
  /\ At("materialize")
  /\ \/ Works /\ dirs' = dirs \union {op.rel} /\ Go("activate")
     \/ UNCHANGED dirs /\ GoFail
  /\ UNCHANGED <<rows, current, unit, running>>

Activate ==
  /\ At("activate")
  /\ \/ /\ Works /\ current' = op.rel
        /\ op' = [op EXCEPT !.step = "start", !.switched = TRUE]
     \/ UNCHANGED current /\ GoFail
  /\ UNCHANGED <<rows, dirs, unit, running>>

\* runtime.Start: nothing happens when the unit is active already.
Started ==
  IF running # Stopped THEN running
  ELSE [bin |-> IF unit \in Materializes THEN current ELSE unit, conf |-> unit]

Start ==
  /\ At("start")
  /\ \/ Works /\ running' = Started /\ Go("ready")
     \/ running' \in {running, Started} /\ GoFail
  /\ UNCHANGED <<rows, disk, unit>>

\* waitForReady: a running process passes its probe, or the wait ends in an
\* error, the timeout or the cancellation.
WaitForReady ==
  /\ At("ready")
  /\ \/ Works /\ running # Stopped /\ Go("record")
     \/ GoFail
  /\ UNCHANGED <<rows, disk, unit, running>>

\* The row becomes active, then pruneReleases reads the rows.
Record ==
  /\ At("record")
  /\ \/ /\ Works
        /\ ActivateRelease(op.rel)
        /\ op' = [op EXCEPT !.step = "prune", !.todo = PlanReleaseRemoval(op.rel)]
     \/ UNCHANGED rows /\ GoFail
  /\ UNCHANGED <<disk, unit, running>>

\* The release pruning is at: the oldest first.
Oldest == OldestOf(op.todo)

RemoveDirectory_Unguarded(r) == dirs' = dirs \ {r}

\* releases.Remove refuses the release the current pointer names.
RemoveDirectory(r) == r # current /\ dirs' = dirs \ {r}

\* Prune one: its directory, then its row.  An error leaves it as it is.
PruneDirectory ==
  /\ At("prune")
  /\ op.todo # {}
  /\ \/ Works /\ RemoveDirectory(Oldest) /\ Go("pruned")
     \/ /\ \/ Breaks
           \/ Oldest = current /\ UNCHANGED failures
        /\ UNCHANGED dirs
        /\ op' = [op EXCEPT !.todo = @ \ {Oldest}]
  /\ UNCHANGED <<rows, current, unit, running>>

PruneRow ==
  /\ At("pruned")
  /\ op' = [op EXCEPT !.step = "prune", !.todo = @ \ {Oldest}]
  /\ \/ Works /\ MarkReleaseRemoved(Oldest)
     \/ Breaks /\ UNCHANGED rows
  /\ UNCHANGED <<disk, unit, running>>

Succeed ==
  /\ At("prune")
  /\ op.todo = {}
  /\ op' = [op EXCEPT !.step = "ended", !.outcome = "succeeded"]
  /\ UNCHANGED <<rows, disk, unit, running, failures>>

-----------------------------------------------------------------------------
\* restorePrevious: stop this version, point back, write the previous
\* manifest's files, start it.  A failing call ends the restoration.
GoStuck == Breaks /\ op' = [op EXCEPT !.step = "remove", !.undone = TRUE, !.stuck = TRUE]

UndoStop_Skipped ==
  /\ At("undoStop")
  /\ \/ Works /\ UNCHANGED running
        /\ Go(IF op.prev \in Materializes THEN "undoActivate" ELSE "undoPrepare")
     \/ UNCHANGED running /\ GoStuck
  /\ UNCHANGED <<rows, disk, unit>>

UndoStop ==
  /\ At("undoStop")
  /\ \/ Works /\ running' = Stopped
        /\ Go(IF op.prev \in Materializes THEN "undoActivate" ELSE "undoPrepare")
     \/ running' \in {running, Stopped} /\ GoStuck
  /\ UNCHANGED <<rows, disk, unit>>

UndoActivate ==
  /\ At("undoActivate")
  /\ \/ Works /\ op.prev \in dirs /\ current' = op.prev /\ Go("undoPrepare")
     \/ UNCHANGED current /\ GoStuck
     \/ /\ op.prev \notin dirs   \* the directory is gone: RELEASE_NOT_FOUND
        /\ UNCHANGED <<current, failures>>
        /\ op' = [op EXCEPT !.step = "remove", !.undone = TRUE, !.stuck = TRUE]
  /\ UNCHANGED <<rows, dirs, unit, running>>

UndoPrepare ==
  /\ At("undoPrepare")
  /\ \/ Works /\ unit' = op.prev /\ Go("undoStart")
     \/ unit' \in {unit, op.prev} /\ GoStuck
  /\ UNCHANGED <<rows, disk, running>>

UndoStart ==
  /\ At("undoStart")
  /\ \/ Works /\ running' = Started /\ op' = [op EXCEPT !.step = "remove", !.undone = TRUE]
     \/ running' \in {running, Started} /\ GoStuck
  /\ UNCHANGED <<rows, disk, unit>>

\* teardownFirstDeploy: stop, then take the pointer away whatever Stop said.
TeardownStop ==
  /\ At("teardownStop")
  /\ \/ Works /\ running' = Stopped /\ Go("teardownPointer")
     \/ /\ running' \in {running, Stopped}
        /\ Breaks /\ op' = [op EXCEPT !.step = "teardownPointer", !.stuck = TRUE]
  /\ UNCHANGED <<rows, disk, unit>>

TeardownPointer ==
  /\ At("teardownPointer")
  /\ \/ Works /\ current' = None /\ op' = [op EXCEPT !.step = "remove", !.undone = TRUE]
     \/ UNCHANGED current /\ GoStuck
  /\ UNCHANGED <<rows, dirs, unit, running>>

\* fail then removes the directory of this release; an error is only logged.
RemoveFailed ==
  /\ At("remove")
  /\ Go("fail")
  /\ \/ op.rel \in Materializes /\ Works /\ RemoveDirectory(op.rel)
     \/ /\ UNCHANGED dirs
        /\ \/ op.rel \notin Materializes /\ UNCHANGED failures
           \/ op.rel = current /\ UNCHANGED failures
           \/ Breaks
  /\ UNCHANGED <<rows, current, unit, running>>

\* FailRelease marks the row, if it can, and the operation ends.
Fail ==
  /\ At("fail")
  /\ op' = [op EXCEPT !.step = "ended",
                      !.outcome = IF op.stuck THEN "broken"
                                  ELSE IF op.undone THEN "rolledBack" ELSE "untouched"]
  /\ \/ Works /\ FailRelease(op.rel)
     \/ Breaks /\ UNCHANGED rows
  /\ UNCHANGED <<disk, unit, running>>

\* The daemon dies; recovery fails the operation, and nothing touches the
\* release, the disk or the process.
Crash ==
  /\ op.step # "ended" /\ crashes < MaxCrashes
  /\ crashes' = crashes + 1
  /\ op' = [op EXCEPT !.step = "ended", !.outcome = "crashed"]
  /\ UNCHANGED <<rows, disk, unit, running, wanted, cancelled,
                 requests, failures, cancels>>

Next ==
  \/ \E r \in Releases : PrepareDeploy(r) \/ PrepareRollback(r)
  \/ Retry \/ Refused \/ Cancel \/ Crash
  \/ \E q \in wanted : ApplyBegin(q)
  \/ Prepare \/ StopPrevious \/ Materialize \/ Activate \/ Start \/ WaitForReady \/ Record
  \/ PruneDirectory \/ PruneRow \/ Succeed
  \/ UndoStop \/ UndoActivate \/ UndoPrepare \/ UndoStart
  \/ TeardownStop \/ TeardownPointer \/ RemoveFailed \/ Fail

Spec == Init /\ [][Next]_vars

-----------------------------------------------------------------------------
\* Every variable keeps its type.
TypeOK ==
  /\ RowsTypeOK
  /\ dirs \subseteq Materializes
  /\ current \in Materializes \union {None}
  /\ unit \in Releases \union {None}
  /\ running \in [bin : Releases \union {None}, conf : Releases \union {None}]
  /\ wanted \subseteq [kind : {"deploy", "rollback"}, rel : Releases]
  /\ op.rel \in Releases \union {None} /\ op.prev \in Releases \union {None}
  /\ op.step \in Steps /\ op.outcome \in Outcomes /\ op.todo \subseteq Releases
  /\ cancelled \in BOOLEAN
  /\ requests \in 0..MaxRequests /\ failures \in 0..MaxFailures
  /\ cancels \in 0..MaxCancels /\ crashes \in 0..MaxCrashes

\* The retention never takes the directory of the version that was just
\* activated, nor, when two are kept, that of the version it replaced: a
\* deployment that turns out bad can be rolled back without unpacking.
PruneSparesRollbackTarget ==
  [][op.step = "prune" =>
       \A r \in {op.rel} \union (IF KeepLast > 1 THEN {op.prev} ELSE {}) :
         r \in dirs => r \in dirs']_vars

\* The current pointer never dangles, whatever removes directories.
CurrentExists == current # None => current \in dirs

\* An operation that says DEPLOY_ROLLED_BACK over an earlier version has put
\* it back: its own files with its own configuration are the running process.
RolledBackIsTrue ==
  op.outcome = "rolledBack" /\ op.prev # None => running = ProcessOf(op.prev)

\* A deployment that replaces an earlier version succeeds only with the process
\* of the new one: no old process, no mixture of binary and configuration.
ReplacementRuns ==
  op.outcome = "succeeded" /\ op.prev # None => running = ProcessOf(op.rel)

-----------------------------------------------------------------------------
(* What the documentation says and the code does not keep *)

\* Success means that the new version runs (健康通过才算发布成功), also when the
\* database knows of no earlier version.
SuccessRuns == op.outcome = "succeeded" => running = ProcessOf(op.rel)

\* Acceptance criterion 5 of iteration 3: after a failed deployment the
\* original version is still running.
FailureKeepsPrevious ==
  op.step = "ended" /\ op.outcome \in {"rolledBack", "untouched", "broken"} /\ op.prev # None
    => running = ProcessOf(op.prev)

\* A version that can be rolled back to has its directory (Rollbackable), once
\* the operation that may be removing it is over.
RollbackableHasDirectory ==
  op.step = "ended" =>
    \A r \in Materializes : status[r] \in Rollbackable => r \in dirs

=============================================================================
