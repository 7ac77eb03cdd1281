--------------------------------- MODULE Slots ---------------------------------
(***************************************************************************)
(* Deployment and rollback of one blue-green application                   *)
(* (internal/application/deploy_slot.go, slots.go): the release starts in   *)
(* the slot that takes no traffic, nginx is switched to it (Nginx), it is    *)
(* watched for a while, the rows are written (ReleaseRows), and the other    *)
(* slot is drained and stopped.  A failure takes back what was done.         *)
(*                                                                         *)
(* Three places say which slot serves: what nginx runs by (loaded), its       *)
(* managed file and the column applications.serving_slot.  After a restart   *)
(* Reconcile makes the column follow the file.                               *)
(*                                                                         *)
(* As in Deploy, one apply runs at a time, each call is one action that can   *)
(* fail, and after a cancellation every call with the context fails.  Every   *)
(* release here unpacks an artifact and its readiness probe asks its own port. *)
(***************************************************************************)
EXTENDS ReleaseRows

CONSTANTS
  Renumbered,    \* releases whose manifest gives the slots other ports
  MaxRequests,   \* bound: deploy, rollback and retry requests
  MaxFailures,   \* bound: calls that fail by themselves
  MaxCancels,    \* bound: cancelled operations
  MaxCrashes,    \* bound: crashes and restarts of the daemon
  MaxForeign     \* bound: reloads of nginx by others

ASSUME SlotsAssumption ==
  /\ Renumbered \subseteq Releases
  /\ {MaxRequests, MaxFailures, MaxCancels, MaxCrashes, MaxForeign} \subseteq Nat

VARIABLES
  dirs,       \* release directories on disk
  pointer,    \* the current pointer of each slot
  unit,       \* the manifest each slot's unit was written from
  proc,       \* the process of each slot: what it was started from, or Stopped
  column,     \* applications.serving_slot
  slotRow,    \* application_slots: release and state of each slot
  file, loaded, call,   \* the entry, see Nginx
  wanted,     \* requests that passed their checks and wait for the engine
  op,         \* the operation that runs or ran last
  cancelled,  \* the context of op is done
  requests, failures, cancels, crashes, foreign

Slot == {"blue", "green"}

Ports == {"first", "other"}

Routes == [slot : Slot, ports : Ports]

\* None is the NULL of the column and the absence of the file.
ASSUME NoneAssumption == None \notin Slot \union Routes

PortsOf(r) == IF r \in Renumbered THEN "other" ELSE "first"

\* RenderManaged: the first port of the slot in the manifest of r.
RouteTo(r, slot) == [slot |-> slot, ports |-> PortsOf(r)]

INSTANCE Nginx WITH NoRoute <- None

disk == <<dirs, pointer>>
units == <<unit, proc>>
mirror == <<column, slotRow>>
entry == <<file, loaded, call>>
bounds == <<requests, failures, cancels, crashes, foreign>>
vars == <<rows, disk, units, mirror, entry, wanted, op, cancelled, bounds>>

Stopped == [bin |-> None, conf |-> None]

ProcessOf(r) == [bin |-> r, conf |-> r]

SlotStates == {"none", "serving", "standby", "draining", "stopped", "failed"}

Steps == {"prepare", "materialize", "activate", "start", "ready", "switch", "switching",
          "observe", "record", "column", "serving", "draining", "drain", "stopped", "prune",
          "pruned", "undoSwitch", "undoSwitching", "undoStart", "undoReady", "teardownStop",
          "teardownPointer", "slotFailed", "remove", "fail", "reconcile", "ended"}

Outcomes == {"none", "succeeded", "rolledBack", "untouched", "uncertain", "broken",
             "refused", "crashed"}

\* The process that gets the requests: the one that listens where nginx routes to.
Served ==
  IF loaded = None THEN Stopped
  ELSE LET p == proc[loaded.slot]
       IN IF p # Stopped /\ PortsOf(p.conf) = loaded.ports THEN p ELSE Stopped

\* The column, the file and nginx name the same slot, it serves, and it is where
\* the manifest of the active release would send the traffic.
InAgreement ==
  /\ loaded # None /\ file = loaded /\ column = loaded.slot /\ Served # Stopped
  /\ Active # None /\ loaded = RouteTo(Active, column)

Opposite(slot) == CHOOSE other \in Slot : other # slot

nextSlot(serving) == IF serving \in Slot THEN Opposite(serving) ELSE "blue"

Init ==
  /\ RowsInit /\ NginxInit
  /\ dirs = {} /\ pointer = [s \in Slot |-> None]
  /\ unit = [s \in Slot |-> None] /\ proc = [s \in Slot |-> Stopped]
  /\ column = None /\ slotRow = [s \in Slot |-> [rel |-> None, state |-> "none"]]
  /\ wanted = {}
  /\ op = [kind |-> "deploy", rel |-> None, prev |-> None, serving |-> None, target |-> "blue",
           step |-> "ended", started |-> FALSE, switched |-> FALSE, undone |-> FALSE,
           stuck |-> FALSE, reload |-> FALSE, todo |-> {}, outcome |-> "none",
           before |-> Stopped, agreed |-> FALSE, vacant |-> FALSE]
  /\ cancelled = FALSE
  /\ requests = 0 /\ failures = 0 /\ cancels = 0 /\ crashes = 0 /\ foreign = 0

-----------------------------------------------------------------------------
\* Requests: the same checks as for one slot (Deploy).
Ask(kind, r) ==
  /\ requests < MaxRequests
  /\ requests' = requests + 1
  /\ wanted' = wanted \union {[kind |-> kind, rel |-> r]}
  /\ UNCHANGED <<disk, units, mirror, entry, op, cancelled, failures, cancels, crashes, foreign>>

PrepareDeploy(r) == status[r] # "active" /\ CreateRelease(r) /\ Ask("deploy", r)

PrepareRollback(r) ==
  /\ status[r] \in Rollbackable /\ r # Active
  /\ Ask("rollback", r) /\ UNCHANGED rows

Retry ==
  /\ op.step = "ended" /\ op.outcome \notin {"none", "succeeded"}
  /\ Ask(op.kind, op.rel) /\ UNCHANGED rows

Cancel ==
  /\ op.step \notin {"ended", "reconcile"} /\ ~cancelled /\ cancels < MaxCancels
  /\ cancelled' = TRUE /\ cancels' = cancels + 1
  /\ UNCHANGED <<rows, disk, units, mirror, entry, wanted, op, requests, failures, crashes, foreign>>

\* The switch of another application reloads nginx while this one is under way.
OthersReload ==
  /\ foreign < MaxForeign /\ foreign' = foreign + 1
  /\ ForeignReload
  /\ op' = [op EXCEPT !.agreed = @ /\ file = loaded]
  /\ UNCHANGED <<rows, disk, units, mirror, wanted, cancelled, requests, failures, cancels, crashes>>

-----------------------------------------------------------------------------
\* One call of applySlot, tried with the context of the operation.
At(step) == op.step = step /\ UNCHANGED <<wanted, cancelled, requests, cancels, crashes, foreign>>

Works == ~cancelled /\ UNCHANGED failures

Breaks ==
  /\ cancelled \/ failures < MaxFailures
  /\ failures' = IF cancelled THEN failures ELSE failures + 1

Go(step) == op' = [op EXCEPT !.step = step]

\* The three ways fail takes back, by how far applySlot has come.
Undo(o) ==
  IF o.switched /\ o.prev # None THEN [o EXCEPT !.step = "undoSwitch", !.undone = TRUE]
  ELSE IF o.switched THEN [o EXCEPT !.step = "teardownStop", !.undone = TRUE]
  ELSE IF o.started THEN [o EXCEPT !.step = "teardownStop"]
  ELSE [o EXCEPT !.step = "slotFailed"]

GoFail == Breaks /\ op' = Undo(op)

\* The slot that serves and the active release are read once.  An error here
\* leaves the row at deploying: fail is not defined yet.
Begun(q) ==
  [kind |-> q.kind, rel |-> q.rel, prev |-> Active, serving |-> column,
   target |-> nextSlot(column), step |-> "prepare", started |-> FALSE, switched |-> FALSE,
   undone |-> FALSE, stuck |-> FALSE, reload |-> FALSE, todo |-> {},
   outcome |-> "none", before |-> Served, agreed |-> InAgreement,
   vacant |-> proc[nextSlot(column)] = Stopped]

ApplySlotBegin(q) ==
  /\ op.step = "ended" /\ q \in wanted
  /\ wanted' = wanted \ {q}
  /\ MarkReleaseDeploying(q.rel)
  /\ \/ op' = Begun(q) /\ UNCHANGED failures
     \/ /\ failures < MaxFailures /\ failures' = failures + 1
        /\ op' = [Begun(q) EXCEPT !.step = "ended", !.outcome = "refused"]
  /\ cancelled' = FALSE
  /\ UNCHANGED <<disk, units, mirror, entry, requests, cancels, crashes, foreign>>

\* runtime.Prepare of the target slot; when it fails, files may be rewritten already.
PrepareSlot ==
  /\ At("prepare")
  /\ \/ Works /\ unit' = [unit EXCEPT ![op.target] = op.rel] /\ Go("materialize")
     \/ GoFail /\ unit' \in {unit, [unit EXCEPT ![op.target] = op.rel]}
  /\ UNCHANGED <<rows, disk, proc, mirror, entry>>

Materialize ==
  /\ At("materialize")
  /\ \/ Works /\ dirs' = dirs \union {op.rel} /\ Go("activate")
     \/ GoFail /\ UNCHANGED dirs
  /\ UNCHANGED <<rows, pointer, units, mirror, entry>>

ActivateSlot_Skipped ==
  /\ At("activate")
  /\ Works /\ Go("start")
  /\ UNCHANGED <<rows, disk, units, mirror, entry>>

ActivateSlot ==
  /\ At("activate")
  /\ \/ Works /\ pointer' = [pointer EXCEPT ![op.target] = op.rel] /\ Go("start")
     \/ GoFail /\ UNCHANGED pointer
  /\ UNCHANGED <<rows, dirs, units, mirror, entry>>

\* runtime.Start of a slot: nothing happens when its unit is active already.
StartedIn(slot) ==
  [proc EXCEPT ![slot] = IF @ # Stopped THEN @ ELSE [bin |-> pointer[slot], conf |-> unit[slot]]]

StartSlot ==
  /\ At("start")
  /\ \/ /\ Works /\ proc' = StartedIn(op.target)
        /\ op' = [op EXCEPT !.step = "ready", !.started = TRUE]
     \/ GoFail /\ proc' \in {proc, StartedIn(op.target)}
  /\ UNCHANGED <<rows, disk, unit, mirror, entry>>

\* The probe asks the port the manifest of r gives the slot.
Ready(r, slot) == proc[slot] # Stopped /\ PortsOf(proc[slot].conf) = PortsOf(r)

WaitForReady_NotAsked ==
  /\ At("ready")
  /\ Works /\ Go("switch")
  /\ UNCHANGED <<rows, disk, units, mirror, entry>>

WaitForReady ==
  /\ At("ready")
  /\ \/ Works /\ Ready(op.rel, op.target) /\ Go("switch")
     \/ GoFail
     \/ ~Ready(op.rel, op.target) /\ op' = Undo(op) /\ UNCHANGED failures
  /\ UNCHANGED <<rows, disk, units, mirror, entry>>

-----------------------------------------------------------------------------
\* nginx.Apply, called to switch and to switch back.
CallApply(step, next, route) ==
  /\ At(step) /\ Go(next)
  /\ Apply(route)
  /\ UNCHANGED <<rows, disk, units, mirror, file, loaded, failures>>

Switch == CallApply("switch", "switching", RouteTo(op.rel, op.target))

\* A step of Apply.  The old content is put back without a context.
ApplyStep ==
  /\ op.step \in {"switching", "undoSwitching"}
  /\ \/ \/ WriteManaged(Works, Breaks) \/ VerifyInstalled(Works, Breaks)
        \/ Reload(Works, Breaks) \/ ReloadAgain(Works, Breaks)
     \/ Restore(UNCHANGED failures, failures < MaxFailures /\ failures' = failures + 1)
  /\ UNCHANGED <<rows, disk, units, mirror, op, wanted, cancelled, requests, cancels, crashes, foreign>>

\* Whether nginx routes by its file after the call, and the file is the candidate
\* just when Apply says so, decides what is still known.
Returned(step) == At(step) /\ call.step = "returned" /\ call' = [call EXCEPT !.step = "idle"]

Known == op.agreed /\ file = loaded /\ (call.result = "ok" <=> file = call.target)

Switched ==
  /\ Returned("switching")
  /\ op' = IF call.result = "ok"
           THEN [op EXCEPT !.step = "observe", !.switched = TRUE, !.agreed = Known]
           ELSE Undo([op EXCEPT !.agreed = Known, !.reload = call.result = "NGINX_RELOAD_FAILED"])
  /\ UNCHANGED <<rows, disk, units, mirror, file, loaded, failures>>

\* The observation window: the slot stays ready, or the deployment fails.
ObserveSlot ==
  /\ At("observe")
  /\ \/ Works /\ Ready(op.rel, op.target) /\ Go("record")
     \/ GoFail
  /\ UNCHANGED <<rows, disk, units, mirror, entry>>

-----------------------------------------------------------------------------
\* Promotion: four writes of their own, after the traffic has moved.
Record ==
  /\ At("record")
  /\ \/ Works /\ ActivateRelease(op.rel) /\ Go("column")
     \/ GoFail /\ UNCHANGED rows
  /\ UNCHANGED <<disk, units, mirror, entry>>

SetServingSlot ==
  /\ At("column")
  /\ \/ Works /\ column' = op.target /\ Go("serving")
     \/ GoFail /\ UNCHANGED column
  /\ UNCHANGED <<rows, disk, units, slotRow, entry>>

PutApplicationSlot(slot, r, state) ==
  slotRow' = [slotRow EXCEPT ![slot] = [rel |-> r, state |-> state]]

AfterPromotion == IF op.serving \in Slot /\ op.prev # None THEN "drain" ELSE "prune"

PutServing_NothingDrains ==
  /\ At("serving")
  /\ \/ /\ Works /\ PutApplicationSlot(op.target, op.rel, "serving")
        /\ op' = [op EXCEPT !.step = AfterPromotion, !.todo = PlanReleaseRemoval(op.rel)]
     \/ GoFail /\ UNCHANGED slotRow
  /\ UNCHANGED <<rows, disk, units, column, entry>>

PutServing ==
  /\ At("serving")
  /\ \/ /\ Works /\ PutApplicationSlot(op.target, op.rel, "serving")
        /\ op' = [op EXCEPT !.step = IF op.serving \in Slot THEN "draining" ELSE "prune",
                            !.todo = PlanReleaseRemoval(op.rel)]
     \/ GoFail /\ UNCHANGED slotRow
  /\ UNCHANGED <<rows, disk, units, column, entry>>

PutDraining ==
  /\ At("draining")
  /\ \/ Works /\ PutApplicationSlot(op.serving, op.prev, "draining") /\ Go(AfterPromotion)
     \/ GoFail /\ UNCHANGED slotRow
  /\ UNCHANGED <<rows, disk, units, column, entry>>

\* The old slot is stopped once it is drained.  An error is only logged.
DrainAndStop ==
  /\ At("drain")
  /\ \/ Works /\ proc' = [proc EXCEPT ![op.serving] = Stopped] /\ Go("stopped")
     \/ Breaks /\ proc' \in {proc, [proc EXCEPT ![op.serving] = Stopped]} /\ Go("prune")
  /\ UNCHANGED <<rows, disk, unit, mirror, entry>>

PutStopped ==
  /\ At("stopped") /\ Go("prune")
  /\ \/ Works /\ PutApplicationSlot(op.serving, op.prev, "stopped")
     \/ Breaks /\ UNCHANGED slotRow
  /\ UNCHANGED <<rows, disk, units, column, entry>>

Oldest == OldestOf(op.todo)

InUse(r) == \E s \in Slot : pointer[s] = r

\* releases.Remove refuses a release the pointer of any slot names.
RemoveDirectory(r) == ~InUse(r) /\ dirs' = dirs \ {r}

PruneDirectory ==
  /\ At("prune") /\ op.todo # {}
  /\ \/ Works /\ RemoveDirectory(Oldest) /\ Go("pruned")
     \/ /\ Breaks \/ (InUse(Oldest) /\ UNCHANGED failures)
        /\ UNCHANGED dirs
        /\ op' = [op EXCEPT !.todo = @ \ {Oldest}]
  /\ UNCHANGED <<rows, pointer, units, mirror, entry>>

PruneRow ==
  /\ At("pruned")
  /\ op' = [op EXCEPT !.step = "prune", !.todo = @ \ {Oldest}]
  /\ \/ Works /\ MarkReleaseRemoved(Oldest)
     \/ Breaks /\ UNCHANGED rows
  /\ UNCHANGED <<disk, units, mirror, entry>>

Succeed ==
  /\ At("prune") /\ op.todo = {}
  /\ op' = [op EXCEPT !.step = "ended", !.outcome = "succeeded"]
  /\ UNCHANGED <<rows, disk, units, mirror, entry, failures>>

-----------------------------------------------------------------------------
\* switchTraffic: nginx back to the old slot with the old manifest, its process
\* started if it is gone, and ready.  An error ends it.
GoStuck == op' = [op EXCEPT !.step = "slotFailed", !.stuck = TRUE]

UndoSwitch_Forgotten ==
  /\ At("undoSwitch") /\ Go("undoStart")
  /\ UNCHANGED <<rows, disk, units, mirror, entry, failures>>

UndoSwitch ==
  \/ /\ op.serving \in Slot
     /\ CallApply("undoSwitch", "undoSwitching", RouteTo(op.prev, op.serving))
  \/ /\ op.serving \notin Slot   \* no slot to go back to
     /\ At("undoSwitch") /\ GoStuck
     /\ UNCHANGED <<rows, disk, units, mirror, entry, failures>>

SwitchedBack ==
  /\ Returned("undoSwitching")
  /\ IF call.result = "ok" THEN op' = [op EXCEPT !.step = "undoStart", !.agreed = Known]
     ELSE op' = [op EXCEPT !.step = "slotFailed", !.stuck = TRUE, !.agreed = Known]
  /\ UNCHANGED <<rows, disk, units, mirror, file, loaded, failures>>

UndoStart ==
  /\ At("undoStart")
  /\ \/ Works /\ proc' = StartedIn(op.serving) /\ Go("undoReady")
     \/ Breaks /\ proc' \in {proc, StartedIn(op.serving)} /\ GoStuck
  /\ UNCHANGED <<rows, disk, unit, mirror, entry>>

UndoReady ==
  /\ At("undoReady")
  /\ \/ Works /\ Ready(op.prev, op.serving) /\ Go("slotFailed")
     \/ Breaks /\ GoStuck
     \/ ~Ready(op.prev, op.serving) /\ GoStuck /\ UNCHANGED failures
  /\ UNCHANGED <<rows, disk, units, mirror, entry>>

\* teardownSlot: stop the new slot and take its pointer away whatever Stop said.
\* Its errors count only when the traffic had been switched.
TeardownStop ==
  /\ At("teardownStop")
  /\ \/ Works /\ proc' = [proc EXCEPT ![op.target] = Stopped] /\ Go("teardownPointer")
     \/ /\ Breaks /\ proc' \in {proc, [proc EXCEPT ![op.target] = Stopped]}
        /\ op' = [op EXCEPT !.step = "teardownPointer", !.stuck = op.switched]
  /\ UNCHANGED <<rows, disk, unit, mirror, entry>>

TeardownPointer ==
  /\ At("teardownPointer")
  /\ \/ Works /\ pointer' = [pointer EXCEPT ![op.target] = None] /\ Go("slotFailed")
     \/ /\ Breaks /\ UNCHANGED pointer
        /\ op' = [op EXCEPT !.step = "slotFailed", !.stuck = @ \/ op.switched]
  /\ UNCHANGED <<rows, dirs, units, mirror, entry>>

PutFailed ==
  /\ At("slotFailed") /\ Go("remove")
  /\ \/ Works /\ PutApplicationSlot(op.target, op.rel, "failed")
     \/ Breaks /\ UNCHANGED slotRow
  /\ UNCHANGED <<rows, disk, units, column, entry>>

RemoveFailed ==
  /\ At("remove") /\ Go("fail")
  /\ \/ Works /\ RemoveDirectory(op.rel)
     \/ UNCHANGED dirs /\ (Breaks \/ (InUse(op.rel) /\ UNCHANGED failures))
  /\ UNCHANGED <<rows, pointer, units, mirror, entry>>

\* The answer of a failed applySlot.
Verdict == IF op.stuck THEN "broken"
           ELSE IF op.undone THEN "rolledBack"
           ELSE IF op.reload THEN "uncertain" ELSE "untouched"

Fail ==
  /\ At("fail")
  /\ op' = [op EXCEPT !.step = "ended", !.outcome = Verdict]
  /\ \/ Works /\ FailRelease(op.rel)
     \/ Breaks /\ UNCHANGED rows
  /\ UNCHANGED <<disk, units, mirror, entry>>

-----------------------------------------------------------------------------
\* The daemon dies, in an operation or idle, and comes back.  The processes and
\* nginx go on without it.
Crash ==
  /\ op.step # "reconcile" /\ crashes < MaxCrashes
  /\ crashes' = crashes + 1
  /\ op' = [op EXCEPT !.step = "reconcile",
                      !.outcome = IF op.step = "ended" THEN @ ELSE "crashed"]
  /\ call' = [call EXCEPT !.step = "idle"]
  /\ UNCHANGED <<rows, disk, units, mirror, file, loaded, wanted, cancelled,
                 requests, failures, cancels, foreign>>

\* ParseManaged reads the file with the ports of the active release.
Readable == file = None \/ (Active # None /\ file.ports = PortsOf(Active))

CurrentSlot == IF file = None THEN None ELSE file.slot

\* expectedState: what the row of a slot should say, from its process and nginx.
ExpectedState(slot) ==
  IF proc[slot] = Stopped THEN "stopped"
  ELSE IF CurrentSlot = slot THEN "serving" ELSE "standby"

Reconciled(slot) ==
  IF slotRow[slot].state = "none" THEN slotRow[slot]
  ELSE [slotRow[slot] EXCEPT !.state = ExpectedState(slot)]

\* Before any request is taken.  Without a manifest, with a file that cannot be
\* read, or after an error of the database the application is left as it is.
Reconcile ==
  /\ op.step = "reconcile" /\ Go("ended")
  /\ \/ /\ Active # None /\ Readable
        /\ column' = CurrentSlot
        /\ \/ slotRow' = [s \in Slot |-> Reconciled(s)] /\ UNCHANGED failures
           \/ /\ failures < MaxFailures /\ failures' = failures + 1
              /\ \E s \in Slot : slotRow' = [slotRow EXCEPT ![s] = Reconciled(s)]
     \/ /\ Active = None \/ ~Readable
        /\ UNCHANGED <<mirror, failures>>
     \/ /\ failures < MaxFailures /\ failures' = failures + 1
        /\ UNCHANGED mirror
  /\ UNCHANGED <<rows, disk, units, entry, wanted, cancelled, requests, cancels, crashes, foreign>>

Next ==
  \/ \E r \in Releases : PrepareDeploy(r) \/ PrepareRollback(r)
  \/ Retry \/ Cancel \/ OthersReload \/ Crash \/ Reconcile
  \/ \E q \in wanted : ApplySlotBegin(q)
  \/ PrepareSlot \/ Materialize \/ ActivateSlot \/ StartSlot \/ WaitForReady
  \/ Switch \/ ApplyStep \/ Switched \/ ObserveSlot
  \/ Record \/ SetServingSlot \/ PutServing \/ PutDraining \/ DrainAndStop \/ PutStopped
  \/ PruneDirectory \/ PruneRow \/ Succeed
  \/ UndoSwitch \/ SwitchedBack \/ UndoStart \/ UndoReady
  \/ TeardownStop \/ TeardownPointer \/ PutFailed \/ RemoveFailed \/ Fail

Spec == Init /\ [][Next]_vars

-----------------------------------------------------------------------------
\* Every variable keeps its type.
TypeOK ==
  /\ RowsTypeOK /\ NginxTypeOK
  /\ dirs \subseteq Releases
  /\ pointer \in [Slot -> Releases \union {None}]
  /\ unit \in [Slot -> Releases \union {None}]
  /\ proc \in [Slot -> [bin : Releases \union {None}, conf : Releases \union {None}]]
  /\ column \in Slot \union {None}
  /\ slotRow \in [Slot -> [rel : Releases \union {None}, state : SlotStates]]
  /\ wanted \subseteq [kind : {"deploy", "rollback"}, rel : Releases]
  /\ op.rel \in Releases \union {None} /\ op.prev \in Releases \union {None}
  /\ op.serving \in Slot \union {None} /\ op.target \in Slot
  /\ op.step \in Steps /\ op.outcome \in Outcomes /\ op.todo \subseteq Releases

\* Blue-green: while entry, its file and the column agreed when an operation
\* began, and no reload since then has left nginx and its file apart, no step of
\* the operation, forward or back, takes a served application off the air.
NeverDark ==
  [][op.step \notin {"ended", "reconcile"} /\ op.agreed /\ op'.agreed =>
       (Served # Stopped => Served' # Stopped)]_vars

\* An operation that reports the traffic untouched, or switched back, has left
\* the very process serving that served before it.
FailureKeepsTraffic ==
  op.step = "ended" /\ op.outcome \in {"rolledBack", "untouched"} /\ op.agreed
    => Served = op.before

\* A success that found the slot vacant serves the release that was asked for:
\* its files under its own manifest.
SuccessServesRelease ==
  op.step = "ended" /\ op.outcome = "succeeded" /\ op.vacant => Served = ProcessOf(op.rel)

\* While the daemon is idle at most one slot is on record as serving, though the
\* rows are written one by one: one lost call, or one crash, is made up for.
OneServingRow ==
  op.step = "ended" /\ cancels = 0 /\ failures + crashes <= 1
    => \A s, t \in Slot : slotRow[s].state = "serving" /\ slotRow[t].state = "serving" => s = t

-----------------------------------------------------------------------------
(* What the documentation says and the code does not keep *)

\* Success means that the new version serves, whatever was left in its slot.
SuccessServes ==
  op.step = "ended" /\ op.outcome = "succeeded" => Served = ProcessOf(op.rel)

=============================================================================
