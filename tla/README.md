# Verification of opsd

TLA+ models, TLC runs and TLAPS proofs for frz-tools: the daemon `opsd`, which
runs every privileged action on a host, and the part of `opsctl` that drives
several hosts. Paths below are relative to `src/`; `PROJECT.json` maps every
definition to its lines.

## 1. The system

| Part | Code | State it keeps | Operations |
| --- | --- | --- | --- |
| Task engine, retries, recovery | `internal/application/{service,worker,recovery}.go`, `internal/adapters/sqlite/store.go`, `internal/domain/{operation,retry}.go`, `cmd/opsd/main.go` | `operations`, `resource_locks`, `audit_events`; worker goroutines; the registry of cancel functions | create, claim, execute, finish, cancel, retry by hand and by policy, recover |
| Scheduler | `internal/application/{scheduler,schedule}.go`, `internal/domain/schedule.go`, `internal/adapters/sqlite/schedule.go` | `schedules`, `schedule_runs`; a goroutine with a timer | tick, dispatch, record missed, create, enable, disable, delete |
| Artifact store | `internal/application/artifact.go`, `internal/adapters/blob/local.go` | `artifacts`, `blobs/`, `tmp/` | upload, delete, collect |
| Manifests | `internal/domain/appspec.go`, `internal/adapters/manifest`, `internal/application/specstore.go`, `internal/adapters/httpapi/{spec,deploy}.go` | a stored spec per application and per release | decode, validate, default, store, read back |
| Releases | `internal/adapters/sqlite/catalog.go`, `internal/domain/release.go` | `applications`, `releases` | the release state machine, retention |
| Deployment | `internal/application/deploy.go`, `internal/adapters/release/local` | release directories, the `current` pointer | deploy, roll back, compensate, prune |
| Blue-green slots | `internal/application/{deploy_slot,slots}.go`, `internal/domain/slot.go`, `internal/adapters/sqlite/slot.go` | `serving_slot`, `application_slots`, a pointer and a unit per slot | start a slot, switch, observe, drain, undo, reconcile |
| nginx | `internal/adapters/nginx` | the managed file, the configuration nginx runs by | write, test, reload, restore |
| Runtime | `internal/application/runtime*.go`, `internal/adapters/runtime/{systemd,readiness,unitfile}` | unit and environment files, the process, readiness counters in memory | prepare, start, stop, health |
| Backups | `internal/application/backup.go`, `internal/domain/retention.go`, `internal/adapters/sqlite/backup.go`, `internal/adapters/backup` | `backups`, the blob store, temporary restore targets | run, verify, restore, prune |
| Backup codec | `internal/backupcodec/codec.go` | the encoded stream | encode, encrypt, decode |
| Fleet | `internal/fleet`, `cmd/opsctl/batch.go` | the report of one rollout, in the client | prepare, waves, submit, wait |
| Edge | `internal/adapters/httpapi`, `internal/domain/principal.go`, `internal/pki`, `internal/adapters/config`, `internal/adapters/client`, the other commands | none that changes | authenticate, authorise, decode |

Every HTTP request runs in a goroutine of its own. Requests that take long
become rows of the task engine; a worker claims a row together with the lock of
its resource and calls the deployment, runtime or backup service. The scheduler
inserts operations in the database transaction that records the moment. SQLite
is used through one connection and immediate transactions, so one transaction
is one atomic step. Nothing else is: files, processes, nginx and the steps
between two transactions of a handler interleave, every call can fail, and the
daemon may die between any two of them.

### What is hard, and what correct means

* **Task engine.** Two requests, a request and an automatic retry, a cancel and
  a claim, SIGTERM and a finish meet; crashes fall between claim, execution and
  the terminal write. Correct: one incomplete operation per resource, locks
  equal to running rows, no attempt lost or duplicated, every operation ends.
* **Scheduler.** A tick works on rows and a clock it read once; requests and
  crashes come between its transactions. Correct: no moment fires twice, none is
  forgotten, catching up runs the latest, a deleted schedule is silent.
* **Artifacts.** Rows and files cannot change together and requests are not
  locked against each other. Correct: contents in use stay, orphans go.
* **Manifests.** One document is validated up to three times, with the defaults
  of the time before written into it, and stored in two places by a handler
  without a transaction. Correct: nothing accepted is refused later, a version
  names one artifact everywhere, archives are unpacked as what they are.
* **Deployment.** A chain of fallible calls on four media (rows, directories,
  pointer, process) with compensation. Correct: one active release, a pointer
  that never dangles, reports that tell the truth.
* **Slots and nginx.** Three places say which slot serves; nginx can test only
  what is installed and runs by what it last loaded. Correct: the traffic never
  falls dark, a reported switch-back serves the very process of before.
* **Runtime.** The adapter counts probes in memory; systemd restarts processes
  on its own; `PrepareRuntime` over HTTP takes no lock. Correct: what was
  prepared is loaded, what was deployed runs, ready is counted from this start.
* **Backups.** Jobs of one policy overlap (their resources differ), a prune is
  no operation at all, contents are shared by digest. Correct: succeeded backups
  keep their content, the retention rule is kept, restores are spared.
* **Codec.** Correct: damage is never handed on and never verified.
* **Fleet.** The client keeps nothing and may be killed; answers get lost.
  Correct: a failed wave is the last, a host sees one operation, success is
  reported only where the version runs, the batch ends.

The list of hazards, each at its line with the properties about it, is in
`PROJECT.json`.

## 2. Modules

| Module | Models | Composition |
| --- | --- | --- |
| `OneAtATime` | the engine's promise about a resource: free, queued, busy | abstract specification |
| `OpEngine` | tables, workers, handlers, retries, shutdown, recovery | implements `OneAtATime` |
| `Scheduler` | schedules, ticks, missed-run policies, requests | – |
| `Artifacts` | contents, rows, references, quota, collection | – |
| `Manifests` | decoding, validation, defaults, stored specs, what an operation reads | – |
| `ReleaseRows` | the statements on the release rows | abstract specification |
| `Deploy` | single-slot deployment and rollback | extends and implements `ReleaseRows` |
| `Nginx` | `Apply`, the managed file, reloads | passive, driven by `Slots` |
| `Slots` | blue-green deployment, draining, reconciliation | extends `ReleaseRows` and `Nginx`, implements `ReleaseRows` |
| `Systemd` | the runtime adapter and its callers | – |
| `Backups` | backup rows, jobs, prunes, restore targets | – |
| `Codec` | the encoded stream and its reader | – |
| `Fleet` | the batch client and its hosts | – |
| `OpEngineProofs`, `SchedulerProofs`, `ReleaseRowsProofs`, `DeployProofs`, `SlotsProofs`, `SystemdProofs` | theorems | extend the module they are about |
| `BackupsProofs` | theorems on the rows and on the bytes of backups | extends `Backups` and `Codec` |
| `SubmissionProofs` | theorems on batches, manifests and artifacts | extends `Fleet`, `Manifests` and `Artifacts` |
| `MC…` | constants of the instances TLC checks | extend the module of that name |

Definitions whose name ends in `_Something` are the broken variants that show
what a property would catch; nothing uses them.

**OpEngine.** `ops`, `locks` and `audit` are the tables; `pc`, `cur`, `outcome`
a worker goroutine between two transactions; `registry` and `signalled` the
cancel functions; `calls` the handlers between two of their steps. `Create`,
`Cancel`, `RetryRead`/`RetryCreate`/`RetryAudit` are the requests; `WakeUp`,
`Claim`, `NothingToDo`, `Register`, `Run`, `Finish`, `FinishRefused`,
`Unregister` the worker loop; `Tick` the passing of a backoff; `Shutdown`,
`Exit`, `Start` the life of the process. `ExecOutcomes` gives what an execution
of each kind may end in, with and without a cancelled context: the only thing
the engine knows of the other services.

**Scheduler.** `rows` and `runs` are the tables; `listed`, `tickNow`, `job` what
the goroutine carries through a tick; `deadline` and `wake` its wait. Time is in
units of `misfireThreshold`; a cron schedule fires at multiples of `Period`.
`since` and `fired` are history variables.

**Artifacts.** `req[h]` is what a handler is doing, one statement or file
operation at a time; nothing keeps handlers apart, in the code or in the model.
`exposed` and `fresh` are history: the contents some overlap, cut-off list or
failed upload has put at risk, and those that came while a collection removed
orphans.

**Manifests.** A manifest is a record of the fields the rules look at;
`Parse`, `Validated` and `applyDefaults` are `manifest.go`, the `validate`
methods and the defaults of `appspec.go`. `client[c]` is a handler of
`PUT …/spec` or `POST …/deploy` between two statements; `specs`, `artifactOf`,
`dirs` are the stored manifests, the release rows and the unpacked directories.
`Documents` is a constant: the run takes 17 of the manifests the rules tell apart,
the proofs any set of them (`DocumentsAssumption` types it).

**Deploy.** `op` is the operation that runs or ran last, with the local
variables of `apply`. Each call of `apply` is an action that works, or fails and
goes to `fail`; a cancelled context makes each later call fail. A failing `Stop`
or `Start` may have had its effect. `running` says which files and which
manifest the process was started from, so "restarted but with the old binary" is
a state of its own.

**Slots, Nginx.** `file` and `loaded` are what nginx's managed file says and what
nginx runs by; `column` and `slotRow` the database; `unit`, `proc`, `pointer` the
two slots. `Slots` calls `Apply(route)`, `ApplyStep` takes the steps of
`nginx.Apply` and the caller goes on when it has returned. `OthersReload` is
another application's switch, which makes nginx reread every file.
`Served` is the process that gets the requests. Assumed: every release unpacks
an artifact, the readiness probe asks the slot's own port, processes do not die
by themselves, a renumbered release uses other ports altogether.

**Systemd.** `unit`, `env`, `secrets`, `loaded`, `enabled`, `state`, `process` are
the host (`process` is a `Mixture` when it was started from files of two
manifests); `age`, `becameReady`, `successes` the adapter's memory, lost with the
daemon. The files of the secrets are written after the environment file and
either step may fail. After `Prepare` a deployment goes on to `Stop` or straight
to `Start`: `apply` stops only a version it knows of (`deploy.go:421`), `applySlot`
never stops the slot it deploys into. `vacant` says of a deployment that the unit
was stopped by it, or idle when it began.
`call["worker"]` is the operation the engine lets run, `call["http"]` a request
without a lock. That `systemctl enable` also reloads the manager is taken from
systemd, not from the code. `earned`, `disturbed`, `trusted` are history.

**Backups.** A job is an operation from its submission to its end; `PrepareRestore`
and the creation of its operation are one step. `raced`, `late`, `stranded` are
history variables that name the rows in a window the code leaves open (below);
`counted` names the rows a prune found usable when it listed them.

**Codec.** The logical stream is `1, 2, …`; a piece of the stored stream is a
chunk sealed under a key with its number, or one bare item. `Damage` cuts,
doubles, moves or changes what is stored, also while it is being read. `reader` is
`frameReader` with what it has opened and not yet handed out (`pending`), and the
state of gzip behind it: `NextChunk` opens a chunk, `FrameRead` hands out one item
of it. The header is read when the backup is opened. Every piece read passes the
hasher (`read`); a tool may stop before the end (`StopsReading`), and a
verification then drains the rest through the same decoder before it compares
digests. Sealing and hashing are assumed to be what AES-GCM and SHA-256 promise;
chunks are not exchanged between two backups of one key.

**Fleet.** A host's reaction to a submission is one action, its operation runs on
its own. `flags` are the options of the command; `made` and `meddled` history.

## 3. Runs

All runs pass. Properties in brackets.

| Run | Shows | Bounds, and why they are enough |
| --- | --- | --- |
| `engine_exclusion` | one incomplete operation per resource [`OneIncompletePerResource`], locks = running rows [`LockMatchesRunning`], workers exclude each other [`ExclusiveExecution`], the contract [`ImplementsContract`] | 2 workers, 2 resources, 4 rows: two requests with one retry each, every race of two workers on one and on two resources, shutdown and restart anywhere |
| `engine_chain` | a next attempt exactly when the policy grants it [`RetryExactlyWhenDue`], no worker loses an operation [`OrphansAreRefusedWrites`], the audit trail tells the status [`AuditTellsStatus`] | 1 worker, 6 rows, 3 policies, 2 handlers, 1 refused write: chains of full length beside manual retries |
| `engine_liveness` | every operation ends [`EveryOperationEnds`] | 4 rows on 2 resources, one worker |
| `scheduler_dispatch` | a moment fires once [`OneOperationPerMoment`], none is lost [`NoMomentLost`], the latest is run [`RunsTheLatestMoment`], deleted is silent [`DeletedStaysSilent`], due moments are handled [`DueMomentsAreHandled`] | clock of 4 with moments every 2 (on time, late, two missed), cron and interval, skip and runOnce, 1 handler, a crash anywhere; `maxScheduledMoments` not reached |
| `artifacts_store` | contents in use stay [`ContentInUseStays`], a collection leaves no orphan [`CollectLeavesNoOrphans`] | 2 handlers, 3 contents, 4 requests of any kinds, `ListLimit` 2, 1 failure, 1 crash: each pair of requests overlaps at every step after two others prepared the tables; three live rows outgrow the list; an upload fails over a content that is in use |
| `deploy_releases` | [`OneActive`], the pointer never dangles [`CurrentExists`], `DEPLOY_ROLLED_BACK` is true [`RolledBackIsTrue`], so is success over an earlier version [`ReplacementRuns`], the rollback target stays [`PruneSparesRollbackTarget`] | 3 versions (one without artifact), `KeepLast` 2, 4 requests, 2 failures, 1 cancellation, 1 crash: a failure inside a compensation and a deployment, a rollback and a prune after it |
| `slots_switch` | never dark [`NeverDark`], a reported switch-back is one [`FailureKeepsTraffic`], success serves the release [`SuccessServesRelease`], one serving row [`OneServingRow`] | 3 releases (1 renumbered), `KeepLast` 2, 3 requests, one each of failure, cancellation, crash, foreign reload: a switch, one back, and one over what is left |
| `systemd_runtime` | prepared is loaded [`PreparedIsLoaded`], deployed runs [`DeployedRuns`], ready counts this start [`CountIsOfThisStart`] | 2 manifests, 2 probes required, timeout 1, 1 new manifest, 2 faults (failing step, death, crash, reboot): a repair after a half preparation, a deployment over a process that a crash left, an old answer after a restart, a start that fails over counted probes |
| `backups_retention` | succeeded has content [`SucceededHasContent`], the rule is kept [`KeepLastRemain`], accepted restores are spared [`AcceptedRestoreIsSpared`], running rows have a run [`RunningHasRun`] | 2 policies (by number, by days), 3 backups sharing 1 content, 1 job beside 2 prunes, 1 temporary target, the days 0 and 2, 1 fault (a failed step or a crash): `KeepLast` 1 and three backups, so two prunes that listed at different times work at two rows together. Two jobs at once (cleanup of one restore beside another) and several faults in one behaviour are left to the theorems, which hold for any number |
| `codec_damage` | verified is the whole stream [`VerifiedIsWhole`], delivered is a prefix and ended only when whole [`DeliveredIsPrefix`] | up to 3 items in chunks of 2 (empty, full and rest chunk), 2 keys, 2 damages before or during a reading: one that hides another |
| `manifests_submit` | [`ValidatesAgain`], [`VersionNamesOneArtifact`], [`ArchivesAreUnpacked`] | 17 manifests (accepted ones, and ones each rule refuses) × 2 artifacts × 2 versions, 2 clients, 2 requests; uploads, rollbacks, crashes unbounded |
| `fleet_rollout` | a failure stops the next wave [`FailureStopsTheNextWave`], reported success is true [`ReportedSuccessIsTrue`], one operation per host [`OneOperationPerHost`], the batch ends [`BatchEnds`] | 3 hosts in waves of 2, limit 2, started twice, 1 lost message, 1 act of another operator: a full and a partial wave, a rerun over what the first left |

The instances have from 0.2 to 4 million distinct states. Each module's type
invariant (`TypeOK`, `ArtifactsTypeOK`, `CodecTypeOK`, `ManifestsTypeOK`) holds on
the same instances (add it to the cfg as an `INVARIANT`); those of all modules but
`Artifacts` are theorems or conjuncts of one. Of `Artifacts` the proofs type what
the properties read (`StoreTyped`): that the limit of an upload is a number needs
the sum of sizes, a fold, and so induction.

`CHECK_DEADLOCK FALSE` stands where an instance ends with its budget of requests
(`Artifacts`, `Backups`, `Codec`, `Deploy`, `Fleet`, `Manifests`, `Slots`). The
engine, the scheduler and the runtime are checked for deadlock.

### Fairness

Three specifications state fairness, and only for who cannot refuse to go on.
`OpEngine!FairSpec`: weak fairness of each step of each worker goroutine (Go runs
every goroutine that can run, and the claim loop has a ticker besides the
wake-up), of handlers that have started, of time, and of the restart by the
supervisor. `Scheduler!FairSpec`: the same for its goroutine. `Fleet!Spec`: the
client, while it is there; a host may hang for ever, which is what the client's
timeouts are for. Requests, shutdown, crashes, failures and refused writes are
never due. The liveness claims of the daemon are conditional on its staying up
from some time on.

## 4. Where the code and its documentation part

The properties above are those the code keeps. While modelling them, these
promises turned out not to be kept. Each has a property, most of them after the
heading "What the documentation says and the code does not keep" at the end of
its module; TLC finds a counterexample with the cfg of the named run, its
properties replaced by this one and its constants changed as told.

| Property | Instance | What happens |
| --- | --- | --- |
| `CancelStopsTheChain` | `engine_exclusion`, `Kinds = {"runtime"}` | `docs/plans/2026-09-21-iteration-1d.md:345` says that no attempt follows a cancelled one; a cancelled `runtime.*` operation fails with a retryable code and is repeated (`worker.go:347`) |
| `CancelReachesExecution` | `engine_exclusion`, `Kinds = {"executor.command"}` | a cancel between claim and registration finds no cancel function and is lost (`service.go:340`) |
| `CancelledByRequest` | the same | SIGTERM ends executions as `EXEC_CANCELLED`, which `retry.go:91` reads as the user's wish |
| `AttemptNumbersAreUnique` | `engine_chain`, `Kinds = {"backup"}` | a retry by hand and the automatic one carry the same attempt number |
| `RunsTheLatestMoment` | `scheduler_dispatch`, `MaxMoments = 2`, `Horizon = 8` | beyond `maxScheduledMoments` a cron schedule catches up with an old moment (`domain/schedule.go:239`, `iteration-1b.md:109`) |
| `OnlyDisabledIsDeleted` | `scheduler_dispatch`, `MaxCalls = 2`, `Horizon = 2` | enabled between the read and the statement of a delete |
| `SummaryTellsLastRun` | `scheduler_dispatch` | a crash after the dispatch: the row's summary names a result the run does not have |
| `SchedulableKindsAreAccepted` | `scheduler_dispatch` | two validations of spec and kind leave some schedulable kinds no accepted request (`docs/manual.md:411`) |
| `ContentIsThere` | `artifacts_store`, `Handlers = {h1}`, `Quota = 4`, `MaxFailures = 0` | beyond the listing limit the collection takes contents of live artifacts for orphans (`artifact.go:227`, `iteration-1a.md:152`) |
| `ContentIsThere` | `artifacts_store`, `ListLimit = 3`, `MaxFailures = 0` | an upload relies on a content that a delete removes; a release is inserted between the count of references and the delete |
| `ContentIsThere` | `artifacts_store`, `Handlers = {h1}`, `ListLimit = 3` | an upload whose row could not be written removes the content, though a live row had it before (`artifact.go:80`) |
| `QuotaIsKept` | `artifacts_store` | two uploads measure the same remainder |
| `FailureKeepsPrevious` | `deploy_releases` | the compensation uses the cancelled context: the previous version stays stopped (`deploy.go:371`, `iteration-3.md:398`) |
| `SuccessRuns` | `deploy_releases` | the process of a crashed first deployment is taken for the new one |
| `RollbackableHasDirectory` | `deploy_releases` | a failed rollback removes the directory of its target |
| `SuccessServes` | `slots_switch` | a process left in the target slot makes `Start` a no-op: the old files serve as the new release |
| `AlwaysRunsItsOwn` | `systemd_runtime` | a unit that runs although no release is known of (a crashed first deployment), or in the slot deployed into, is not stopped and `Start` leaves it alone: ready is reported of the old process (`deploy.go:421`, `deploy_slot.go:177-191`) |
| `NeverCountsTheDead` | `systemd_runtime` | an answer asked for before a restart is counted after it (`readiness.go:59-62`); a start that fails keeps the successes of before (`systemd.go:296-299`) |
| `RestoreKeepsItsTemp` | `backups_retention`, `Jobs = {i, j}`, `Pruners = {r}` | the cleanup of one restore drops the database of another of the same policy (`dbtools.go:82-84`, `backup.go:142-143`) |
| `DoneHostsAreSkipped` | `fleet_rollout`, `Action = "rollback"` | a rerun of a rollback is refused by hosts that are done (`batch.go:44-45`) |

Windows the properties leave open explicitly, because the code does:

* *Artifacts.* `exposed`, with three parts (`AtRisk`): a content that an upload or a
  release was using when a removal had yet to pass it, a live row that a cut-off
  list overlooked, the content of an upload that takes it back. None is spare:
  with any one of the three left out of `AtRisk`, TLC finds `ContentInUseStays`
  violated in `artifacts_store` itself.
* *Scheduler.* A schedule disabled while a tick holds its row may still fire once;
  `DeletedStaysSilent` is about deletes.
* *Deploy.* A failing `Prepare` leaves unit and environment files of the new
  version although nothing online was to change.
* *Slots.* `op.agreed` says that nginx, its file and the column agreed when the
  operation began and nobody's reload has come between since. Without that: a
  crash between the file and the reload makes `Reconcile` believe the file; a
  failed write after `SetServingSlot` switches the traffic back while the column
  and the active row stay; two failed reloads end in a teardown of the slot that
  may be serving; another application's reload activates a file that is being
  taken back; ports that changed before a crash make the file unreadable and the
  column stay. Switching back renders the ports of the release that is active,
  not of the one that served. `OneServingRow` allows for one lost call; two leave
  two serving rows. The teardown of a first deployment leaves the nginx file.
* *Backups.* `raced`: a run finishes between a prune's count of references and
  its removal, and loses its content. `late`: a restore is accepted between the
  question for operations and the mark. `stranded`: the final write of a run
  uses the cancelled context. A prune does not look again at verdicts: a backup it
  counted as one to keep may have been found bad since (`KeepLastRemain` counts
  what the prunes listed as usable). A verification marks a backup bad when its
  key or tool is missing; a crash between mark and removal leaves an orphan content;
  the files adapter forgets a directory it could not remove.
* *Systemd.* `alone`, `vacant` and `disturbed`: an HTTP preparation during a
  deployment, a deployment that neither stopped the unit nor found it idle, and a
  late answer. A stop never disables the unit, so a drained slot comes back
  at reboot; a restart by systemd between two polls does not reset the count;
  after a restart of `opsd` the start deadline no longer applies.
* *Codec.* The header (is it encrypted?) is outside the authentication, so
  `DeliveredIsPrefix` speaks of intact headers; a restore compares no digest.
* *Manifests.* The media type is asked when the manifest comes in
  (`appspec.go:558-561`); an artifact uploaded or replaced later is unpacked as
  the manifest says (`ArchivesAreUnpacked` leaves it out). Submitting a version
  again replaces its stored manifest although the version is active or being
  deployed (`sqlite/spec.go:16-19`), so that a rollback may use a manifest that
  never ran. `SpecSystemd.validate` returns early without a unit name: a bad
  `restartPolicy` is refused by a later validation only. Under `PUT …/spec` the
  application that the manifest names is not compared.
* *Fleet.* A rerun replays a failed operation and an old success alike, since
  the batch name is the idempotency key; `meddled` leaves out hosts another
  operator has changed.

## 5. Proofs

| Theorem | Module | Says |
| --- | --- | --- |
| `EngineInvariant`, `TypeCorrect` | `OpEngineProofs` | `IInv`, `TypeOK` always hold |
| `OneAtATimePerResource`, `LocksMatchRunning`, `MutualExclusion` | `OpEngineProofs` | the invariants of `engine_exclusion` |
| `RetriesWhenDue`, `AuditIsTrue`, `WorkersLoseNone` | `OpEngineProofs` | the invariants of `engine_chain` |
| `StatusStateMachine` | `OpEngineProofs` | every change of a status is one `CanTransition` allows |
| `KeysName` | `OpEngineProofs` | an idempotency key names one operation |
| `EngineImplementsContract` | `OpEngineProofs` | `Spec => OneAtATime!Spec` under the mapping to lanes |
| `SchedulerInvariant`, `SchedulerTypes`, `OnceInvariant` | `SchedulerProofs` | `TInv`, `TypeOK` and `OnceInv` always hold |
| `FiresAtMostOnce`, `DeletedFiresNothing` | `SchedulerProofs` | `OneOperationPerMoment`, `DeletedStaysSilent` |
| `TickRunsTheLatest`, `EveryMomentIsRecorded` | `SchedulerProofs` | `RunsTheLatestMoment`, `NoMomentLost`, while no tick is more than `MaxMoments` behind |
| `NotFarBehindAtFirst` | `SchedulerProofs` | both without the condition, for `MaxMoments` periods |
| `RowsOneActive`, `RowsInvariant`, `RowsActiveIsNewest` | `ReleaseRowsProofs` | no two active releases, and the active one is the last activated, whatever statements are issued |
| `RetentionLeavesEnough` | `ReleaseRowsProofs` | what `PlanReleaseRemoval` leaves |
| `DeployImplementsRows`, `DeployOneActive` | `DeployProofs` | `Deploy` stays within `ReleaseRows`; so one active release |
| `DeployInvariant`, `DeployTypes`, `PointerIsWhole`, `RollbackIsWhatRuns`, `SuccessIsWhatRuns`, `RollbackTargetSpared` | `DeployProofs` | the other properties of `deploy_releases` |
| `SlotsImplementRows`, `SlotsOneActive` | `SlotsProofs` | the same for `Slots` |
| `TrafficInvariant`, `SlotsTypes`, `FailureIsHarmless`, `SuccessIsServed`, `NeverOffTheAir`, `SlotRowsInvariant`, `OneRowServes` | `SlotsProofs` | the properties of `slots_switch` |
| `BackupsInvariant`, `BackupTypes`, `RunningRowsHaveRuns`, `WaitingRestoreIsSpared`, `SucceededCanBeRead`, `PolicyKeepsItsLast` | `BackupsProofs` | the invariants of `backups_retention` |
| `CodecInvariant`, `CodecTypes`, `VerifiedWhole`, `DeliveredPrefix` | `BackupsProofs` | `CodecInv` always holds; the invariants of `codec_damage` |
| `FleetInvariant`, `FailureStops`, `OneOperation`, `ReportedIsTrue` | `SubmissionProofs` | the invariants of `fleet_rollout` |
| `ArtifactsInvariant`, `ContentStays`, `NoOrphansLeft` | `SubmissionProofs` | `ArtifactsInv` always holds; the invariants of `artifacts_store`, without a condition on the requests |
| `ManifestsInvariant`, `ManifestsValidateAgain`, `VersionsNameOneArtifact`, `ArchivesUnpackedAsTyped` | `SubmissionProofs` | `ManifestsInv` always holds; the invariants of `manifests_submit` |
| `RuntimeInvariant`, `PreparationHolds`, `DeploymentRuns`, `CountInvariant`, `RuntimeTypes`, `CountsThisStart` | `SystemdProofs` | the invariants of `systemd_runtime` |

They hold for all values of the constants that satisfy the assumptions the
modules name: bounds are naturals, special values are not members of the sets
they are special to.

**Engine.** `OneIncompletePerResource` is not inductive. An automatic retry is
inserted without asking whether the resource is free; that is sound because the
row it follows becomes terminal in the same transaction, so one needs to know
that the worker's row is running (`WorkersHoldRunning`), that no other worker
holds it, and that no worker survives a restart. Locks need the same. A retry
by hand does ask, but relies on the row it read still being terminal
(`RetriesOfEnded`). `IInv` is the conjunction of the five, with a lemma per
action and two, `InsertKeeps` and `EndKeeps`, for inserting and ending a row.
What a step does to one row is said once (`RowOf`, `EveryStepOnRows`): a known
row keeps its key and moves along `CanTransition`, a new one carries no key or
one that nobody has. The state machine and the keys follow from it, and so do
the three invariants about chains, the audit trail and orphans: a failed row
gets its next attempt in the transaction that fails it and in no other; each
transition appends the event that is its own; a running row loses its worker
only by a refused write, or with the daemon, and then recovery ends it.

**Refinement of `OneAtATime`.** With one incomplete operation per resource a lane
is what that operation's status says. A claim is `Begin`, an insertion `Submit`,
a cancel of a pending row `Withdraw`, a finish `End` with or without a next
attempt; recovery ends all running rows at once, which is `Restart`.

**Scheduler.** `OneOperationPerMoment` needs that a run belongs to a schedule that
is there, and that a schedule that never was fired nothing (`OnceInv`); its
identity, a schedule and a moment, then makes the second dispatch find the run
of the first, however far a stale tick rewound `next_run_at`. `NoMomentLost` is
about copies: the row, the row as a tick listed it, the job computed from that,
and the request that read it earlier, each of which may be written back after
the others moved on. `ToldInv` says of every copy that before its next moment
nothing is missing (`Told`), or is on the list of the job; `AgesHold` says what
keeps that true while the tables grow older under a copy: runs stay, `since`
only grows, a schedule does not come back. Both this and
`RunsTheLatestMoment` are stated under `[]NeverFarBehind`: a tick takes at most
`maxScheduledMoments` (1000) moments (`domain/schedule.go:244`) and passes over
the rest, and beyond that the properties fail (section 4). `NotFarBehindAtFirst`
discharges the condition for a clock of `MaxMoments` periods, which is the
instance TLC checks.

**Release rows.** Only `ActivateRelease` makes a row active and it supersedes the
others in the same transaction. `Deploy` and `Slots` need one invariant only,
that what they name is a release; then each of their steps, forward,
compensating, pruning or crashing, is one statement on the rows or none. The
order of activations needs that the counter is above all of them; that the
retention leaves enough, that a finite set of releases has a youngest.

**Deploy.** `DeployFullIInv` says, by the step an operation has reached, what its
calls have made of the directory and the pointer (`DiskFits`), of unit and
process on the way forward (`ForwardFits`), on the way back (`RestoreFits`), and
what a prune still has on its list (`PruneFits`). The properties are conjuncts
of it or follow at once: the work is that each call, each failure of one and a
crash between any two lead from what one step says to what the next one says.

**Slots.** The same for two processes and one entry: `EntryFits` says which route
the file and nginx have at each step, `SlotsFit` which process answers on either
slot, `CallFits` how far `Apply` has got. `NeverDark` is a statement about steps
and follows because both routes answer while nginx may have either
(`BothRoutesAnswer`). `SlotRowsFit` adds the slot rows.

**Backups.** `IInv` fits rows, jobs and prunes together: a row that runs has its
job, a prune acts on rows of its policy that it read. Three strengthenings stand
on it. `SpareInv`: between its question and its mark a prune's target has no
restore but late ones. `HoldInv`: what a prune is about to remove no succeeded
row holds, but for the rows that came after its count. `KeepInv`: whatever is
pruned, or on the list of a prune, has as many more recent succeeded backups
ahead of it as the rule promises, counted among what prunes have found usable
(`counted`, which only grows, so what one prune listed serves another). Taking one of those away itself needs as many
ahead of that one, and they are ahead of the former as well.

**Codec.** What the reader has delivered says nothing about the next chunk unless
one knows where in the stream it stands. `Item(k)` is the `k`-th item below gzip,
the trailer included. `Framed` says that the writer's chunks are full and its
buffer is the rest, `Finished` that only the last data chunk is short and only
the closing chunk is empty (so the end cannot be mistaken). `Written` says that a
stored piece with a key is one that was written, wherever it stands now: damage
rearranges and spoils, it does not seal. A piece that opens at `index` is then
the chunk of that number (`OpenedChunk`); what has been read and what is pending
add up to its start, or only the empty chunk is left (`ReadingInv`); this holds
whatever happens to the rest of the stream meanwhile. Without encryption nothing
of the kind is known of the items, so `BareInv` is conditional: if all that was
read is the beginning of the stream as it was written, what came out is too, and
that the digest fits makes the condition true of a whole reading (`VerifiedWhole`). The trailer
is the one item after the last, so gzip adds nothing. Induction over the stream is
not needed: the invariant moves with the steps, one item or one chunk each.

**Artifacts.** Between the look-up of a request and its write anything may happen,
so nothing can be said of contents for which that went wrong: `exposed` collects
them at the moment they come at risk, before anything is lost. Of every other
content `ArtifactsInv` says two things. Its tables are sound (`Sound`): what a
release refers to is live, what is live is there. And what each request has found
out of it still holds (`Holds`): a release in progress finds it live, an upload in
place, a deletion or collection about to mark it finds no reference, one about to
remove it finds it not live. Each step that could break one of these belongs to a
pair of requests that had exposed the content earlier, so the proof follows two
handlers: the one that moves, and any other whose finding the move could spoil.
That a collection leaves no orphan needs only its own lists and `fresh`
(`NoneMissed`), and holds for exposed contents too.

**Manifests.** Validation and defaults are functions of a record; the lemmas say of
each rule which fields it reads and of the defaults which they fill in. A
manifest that was validated stays valid with its defaults, and applying them
again changes nothing (`Settled`). `StoredOK` is that, and that an open unpack
strategy follows the media type seen; it is carried from the decoded document
through the handlers between their statements (`CarriesOK`) to the stored specs,
the running operation and the unpacked directories. That a version names one
artifact needs that `PrepareDeploy` compares with the row before anything is
stored, and that an artifact a release refers to is not deleted (`MediaInv`).

**Fleet.** `RoundInv` says that only hosts of the wave in progress are being worked
on, so a failure outside it is of an earlier wave. `MadeInv` counts the
operations made on a host by whether the host knows the key. `DeployedInv` ties
what the client believes to what the host has done.

**Runtime.** `FilesInv` says how far a preparation nobody interferes with has got
at each of its steps: environment, secrets, unit, loaded, enabled in this order,
and that what an earlier, half-failed one left is repaired by it. `ProcessInv` says
that from the moment the unit is idle, before the deployment or by its stop, until
its start nothing brings the unit back, and that what it started is of the files
it prepared. Without `vacant` the start may be no start (`AlwaysRunsItsOwn`). `CallsInv`
types the calls and their steps. `CountInv` bounds what counts towards ready,
with what the calls in progress may still add to it, by the probes passed since
the start; it does not hold without excepting a start that failed over counted
probes, which the code leaves counted.

**Finite sets.** Least and greatest elements are proved where a module needs them
(`LeastNumber`, `SmallestSet`, `MinIs`), from the well-founded order of strict
inclusion between finite sets and without induction over an operator; the
recursive operators behind sums and folds stay out of reach.

Only model-checked: liveness, which needs `ENABLED`, and `ArtifactsTypeOK` for the
reason above. Every safety and action property the runs check is proved,
`RunsTheLatestMoment` and `NoMomentLost` under the condition stated.

## 6. Not modelled

* Contents of archives, dumps and files; the text of units, nginx files and
  manifests; cron syntax, time zones and daylight saving (a set of moments);
  cryptography (what it promises is assumed).
* Secrets and redaction, migrations, the configuration of the daemon, the other
  commands of `opsctl` and its HTTP client: no state that a protocol depends on.
  That a secret cannot be resolved is a failing call where it is used.
* Authentication and the table of scopes per route: stateless.
* Hosts, targets, labels, backup policies, slot events: registration tables with
  one statement per request. The scan limit of 5000 rows and dry runs of a prune.
* The `proc` adapter, which stands in for systemd in tests.
* Reads that change nothing, logs, messages, the exact backoff.
* `Manifests`: collisions of unit names, ports or paths between two applications,
  and the change of an application from one slot to two, which no code refuses.

## 7. What could come next

1. `Slots` composed with `Systemd` in place of processes that live until
   stopped.
2. `Deploy` composed with `Manifests`, so that the manifest replaced under an
   active version takes part in a rollback.
