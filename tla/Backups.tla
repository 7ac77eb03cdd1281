------------------------------- MODULE Backups -------------------------------
(***************************************************************************)
(* Backups of files and databases: their rows, the contents they point to,  *)
(* the operations that make, verify and restore them, and the removal of    *)
(* the ones the retention rule no longer keeps.                             *)
(*                                                                          *)
(*   internal/application/backup.go       ExecuteRun, ExecuteVerify,        *)
(*                                        ExecuteRestore, Prune             *)
(*   internal/adapters/sqlite/backup.go   the rows                          *)
(*   internal/adapters/backup/*           isolated restores, their cleanup  *)
(*   internal/domain/retention.go         which backups stay                *)
(*                                                                          *)
(* A job is an operation from its submission to its end.  The engine keeps  *)
(* two jobs off one resource, but the resource of a run is the policy and   *)
(* that of a verification or restore is the backup, so jobs of one policy   *)
(* do overlap; and a prune is no operation at all, it runs in the request   *)
(* that asks for it.  Contents are named by their digest: two runs that     *)
(* produce the same bytes share one.                                        *)
(***************************************************************************)
EXTENDS Integers, FiniteSets

CONSTANTS
  Policies, Databases,   \* all policies; those whose adapter is a database's
  Backups,               \* identifiers of rows, numbers because ties go by id
  Contents,              \* digests a run may produce
  Jobs, Pruners, Temps,  \* operations, prune requests, temporary names
  None,
  KeepLast, KeepDays,    \* the retention rule of each policy
  Days,                  \* bound: the days on which something happens
  MaxFaults              \* bound: failed steps and crashes, together

ASSUME BackupAssumption ==
  /\ Databases \subseteq Policies
  /\ Backups \subseteq Nat /\ IsFiniteSet(Backups)
  /\ None \notin Policies \union Backups \union Contents \union Temps
  /\ KeepLast \in [Policies -> Nat] /\ KeepDays \in [Policies -> Nat]
  /\ \A p \in Policies : KeepLast[p] + KeepDays[p] > 0
  /\ Days \subseteq Nat /\ 0 \in Days
  /\ MaxFaults \in Nat

VARIABLES
  rows,      \* the table backups
  stored,    \* contents in the backup store
  jobs,      \* the operations
  pruners,   \* the prune requests
  temps,     \* isolated directories and databases that exist
  tracked,   \* those the adapters remember, by policy: memory of the daemon
  day, faults,
  counted,   \* history: rows some prune found usable when it listed them
  raced,     \* history: rows that finished while a prune removed their content
  late,      \* history: restores submitted between a prune's question and its mark
  stranded   \* history: runs whose result could not be written

vars == <<rows, stored, jobs, pruners, temps, tracked, day, faults,
          counted, raced, late, stranded>>

history == <<counted, raced, late, stranded>>

Statuses == {"none", "running", "succeeded", "failed", "pruned"}
Kinds == {"none", "run", "verify", "isolated", "inPlace"}
JobSteps == {"idle", "queued", "stream", "finish", "reading", "restoring", "drop", "cleanup"}

NoRow == [policy |-> None, status |-> "none", content |-> None, verified |-> "notBad",
          finished |-> 0]
Idle == [kind |-> "none", on |-> None, step |-> "idle", backup |-> None, content |-> None,
         temp |-> None]
AtRest == [step |-> "idle", policy |-> None, todo |-> {}, backup |-> None]

Init ==
  /\ rows = [b \in Backups |-> NoRow]
  /\ stored = {} /\ temps = {}
  /\ tracked = [p \in Policies |-> {}]
  /\ jobs = [j \in Jobs |-> Idle]
  /\ pruners = [r \in Pruners |-> AtRest]
  /\ day = 0 /\ faults = 0
  /\ counted = {} /\ raced = {} /\ late = {} /\ stranded = {}

-----------------------------------------------------------------------------
\* Retention.

Usable(row) == row.status = "succeeded" /\ row.verified # "bad"

\* The most recent first; rows that finished together go by their identifiers.
MoreRecent(b, c) ==
  \/ rows[b].finished > rows[c].finished
  \/ rows[b].finished = rows[c].finished /\ b > c

\* Both rules stand on their own: what either of them keeps is kept.
AmongTheLast_OneTooFew(b, usable) ==
  Cardinality({c \in usable : MoreRecent(c, b)}) < KeepLast[rows[b].policy] - 1

AmongTheLast(b, usable) ==
  Cardinality({c \in usable : MoreRecent(c, b)}) < KeepLast[rows[b].policy]

WithinDays(b) ==
  LET days == KeepDays[rows[b].policy] IN days > 0 /\ rows[b].finished >= day - days

PlanRetention(usable) == {b \in usable : ~AmongTheLast(b, usable) /\ ~WithinDays(b)}

-----------------------------------------------------------------------------
\* Operations.

Incomplete(resource) == \E j \in Jobs : jobs[j].step # "idle" /\ jobs[j].on = resource

PolicyOf(job) == IF job.kind = "run" THEN job.on ELSE rows[job.on].policy

At(j, kinds, step) == jobs[j].kind \in kinds /\ jobs[j].step = step

Goto(j, step) == jobs' = [jobs EXCEPT ![j].step = step]

Fails == faults < MaxFaults /\ faults' = faults + 1
Works == UNCHANGED faults

Submit(j, kind, resource) ==
  /\ jobs[j].step = "idle" /\ ~Incomplete(resource)
  /\ jobs' = [jobs EXCEPT ![j] = [Idle EXCEPT !.kind = kind, !.on = resource, !.step = "queued"]]
  /\ UNCHANGED <<rows, stored, pruners, temps, tracked, faults, day, counted, raced, stranded>>

SubmitRun(j, p) == Submit(j, "run", p) /\ UNCHANGED late

\* A verification may be asked of any row, whatever its status.
SubmitVerify(j, b) == rows[b].status # "none" /\ Submit(j, "verify", b) /\ UNCHANGED late

\* PrepareRestore: only of a row that succeeded, and in place only when confirmed.
SubmitRestore(j, b, mode) ==
  /\ rows[b].status = "succeeded"
  /\ Submit(j, mode, b)
  /\ late' = IF \E r \in Pruners : pruners[r].step = "mark" /\ pruners[r].backup = b
             THEN late \union {j} ELSE late

\* Every failure before there is a row: the preflight, the key, the insert.
RunRefused(j) ==
  /\ At(j, {"run"}, "queued") /\ Fails
  /\ Goto(j, "cleanup")
  /\ UNCHANGED <<rows, stored, pruners, temps, tracked, day, history>>

CreateBackup(j, b) ==
  /\ At(j, {"run"}, "queued") /\ rows[b].status = "none"
  /\ rows' = [rows EXCEPT ![b] = [NoRow EXCEPT !.policy = jobs[j].on, !.status = "running"]]
  /\ jobs' = [jobs EXCEPT ![j].step = "stream", ![j].backup = b]
  /\ Works
  /\ UNCHANGED <<stored, pruners, temps, tracked, day, history>>

\* streamBackup: the adapter writes, the codec encodes, the store takes it in.  Put
\* drops what it received when the digest is there already.
PutContent(j, c) ==
  /\ At(j, {"run"}, "stream")
  /\ stored' = stored \union {c}
  /\ jobs' = [jobs EXCEPT ![j].step = "finish", ![j].content = c]
  /\ Works
  /\ UNCHANGED <<rows, pruners, temps, tracked, day, history>>

FinishBackup(b, status, c) ==
  rows' = IF rows[b].status = "running"
          THEN [rows EXCEPT ![b].status = status, ![b].content = c,
                            ![b].finished = IF status = "succeeded" THEN day ELSE 0]
          ELSE rows

\* The row is closed as failed.  When the operation was cancelled the context of
\* that write is cancelled too, and the row stays running.
StreamFails(j) ==
  /\ At(j, {"run"}, "stream") /\ Fails
  /\ \/ FinishBackup(jobs[j].backup, "failed", None) /\ UNCHANGED stranded
     \/ UNCHANGED rows /\ stranded' = stranded \union {jobs[j].backup}
  /\ Goto(j, "cleanup")
  /\ UNCHANGED <<stored, pruners, temps, tracked, day, counted, raced, late>>

RunFinishes(j) ==
  LET b == jobs[j].backup
      c == jobs[j].content IN
  /\ At(j, {"run"}, "finish")
  /\ \/ /\ Works /\ FinishBackup(b, "succeeded", c)
        /\ raced' = IF \E r \in Pruners : pruners[r].step = "remove"
                                          /\ rows[pruners[r].backup].content = c
                    THEN raced \union {b} ELSE raced
        /\ UNCHANGED stranded
     \/ Fails /\ UNCHANGED <<rows, raced>> /\ stranded' = stranded \union {b}
  /\ Goto(j, "cleanup")
  /\ UNCHANGED <<stored, pruners, temps, tracked, day, counted, late>>

-----------------------------------------------------------------------------
\* openBackup asks for a digest and an existing content, not for a status.  A
\* content that was opened stays readable when its name is removed.
Readable(b) == rows[b].content \in stored

OpenFails(j) ==
  /\ At(j, {"verify", "isolated", "inPlace"}, "queued")
  /\ \/ ~Readable(jobs[j].on) /\ Works
     \/ Fails
  /\ jobs' = [jobs EXCEPT ![j] = Idle]
  /\ late' = late \ {j}
  /\ UNCHANGED <<rows, stored, pruners, temps, tracked, day, counted, raced, stranded>>

OpenVerify(j) ==
  /\ At(j, {"verify"}, "queued") /\ Readable(jobs[j].on)
  /\ Goto(j, "reading")
  /\ Works
  /\ UNCHANGED <<rows, stored, pruners, temps, tracked, day, history>>

MarkBackupVerified(b, verdict) == rows' = [rows EXCEPT ![b].verified = verdict]

\* The verdict is recorded either way; a failed write of it is only logged.
Verified(j) ==
  /\ At(j, {"verify"}, "reading")
  /\ \/ Works /\ MarkBackupVerified(jobs[j].on, "notBad")
     \/ Fails /\ (MarkBackupVerified(jobs[j].on, "bad") \/ UNCHANGED rows)
  /\ Goto(j, "cleanup")
  /\ UNCHANGED <<stored, pruners, temps, tracked, day, history>>

OpenInPlace(j) ==
  /\ At(j, {"inPlace"}, "queued") /\ Readable(jobs[j].on)
  /\ Goto(j, "restoring")
  /\ Works
  /\ UNCHANGED <<rows, stored, pruners, temps, tracked, day, history>>

RestoreInPlace(j) ==
  /\ At(j, {"inPlace"}, "restoring")
  /\ Works \/ Fails
  /\ Goto(j, "cleanup")
  /\ UNCHANGED <<rows, stored, pruners, temps, tracked, day, history>>

-----------------------------------------------------------------------------
\* An isolated restore goes into a directory or database of its own, whose name is
\* remembered before it is made, under the policy and not under the operation.
Track(p, t) == tracked' = [tracked EXCEPT ![p] = @ \union {t}]
Untrack(p, t) == tracked' = [tracked EXCEPT ![p] = @ \ {t}]

OpenIsolated(j, t) ==
  /\ At(j, {"isolated"}, "queued") /\ Readable(jobs[j].on)
  /\ t \notin temps \union UNION {tracked[p] : p \in Policies}
  /\ Track(PolicyOf(jobs[j]), t)
  /\ \/ /\ Works /\ temps' = temps \union {t}
        /\ jobs' = [jobs EXCEPT ![j].step = "restoring", ![j].temp = t]
     \/ Fails /\ UNCHANGED temps /\ Goto(j, "cleanup")
  /\ UNCHANGED <<rows, stored, pruners, day, history>>

RestoreIsolated(j) ==
  /\ At(j, {"isolated"}, "restoring")
  /\ Works \/ Fails
  /\ Goto(j, "drop")
  /\ UNCHANGED <<rows, stored, pruners, temps, tracked, day, history>>

\* A database that could not be dropped stays remembered; the files adapter does not
\* look at the result of the removal and forgets the directory anyway.
DropTemp(j) ==
  LET p == PolicyOf(jobs[j])
      t == jobs[j].temp IN
  /\ At(j, {"isolated"}, "drop")
  /\ \/ Works /\ temps' = temps \ {t} /\ Untrack(p, t)
     \/ /\ Fails /\ UNCHANGED temps
        /\ IF p \in Databases THEN UNCHANGED tracked ELSE Untrack(p, t)
  /\ jobs' = [jobs EXCEPT ![j].step = "cleanup", ![j].temp = None]
  /\ UNCHANGED <<rows, stored, pruners, day, counted, raced, late, stranded>>

\* The deferred cleanup takes everything remembered under the policy, whichever job
\* made it.  The databases put back what they could not drop.
Cleanup(j) ==
  LET p == PolicyOf(jobs[j]) IN
  /\ jobs[j].step = "cleanup"
  /\ \/ /\ Works
        /\ temps' = temps \ tracked[p]
        /\ tracked' = [tracked EXCEPT ![p] = {}]
     \/ /\ Fails /\ tracked[p] \intersect temps # {}
        /\ UNCHANGED temps
        /\ IF p \in Databases THEN UNCHANGED tracked
           ELSE tracked' = [tracked EXCEPT ![p] = {}]
  /\ jobs' = [jobs EXCEPT ![j] = Idle]
  /\ late' = late \ {j}
  /\ UNCHANGED <<rows, stored, pruners, day, counted, raced, stranded>>

-----------------------------------------------------------------------------
\* Prune.  The rows are read once, the backups then go one by one, the most recent
\* first.  A dry run, and a prune with nothing to remove, change nothing.
PrunerAt(r, step) == pruners[r].step = step

PruneList(r, p) ==
  LET usable == {b \in Backups : rows[b].policy = p /\ Usable(rows[b])} IN
  /\ PrunerAt(r, "idle")
  /\ PlanRetention(usable) # {}
  /\ pruners' = [pruners EXCEPT ![r] =
       [step |-> "ask", policy |-> p, todo |-> PlanRetention(usable), backup |-> None]]
  /\ counted' = counted \union usable
  /\ UNCHANGED <<rows, stored, jobs, temps, tracked, faults, day, raced, late, stranded>>

NextOf(todo) == CHOOSE b \in todo : \A c \in todo \ {b} : MoreRecent(b, c)

PruneAsk_Unasked(r) ==
  LET b == NextOf(pruners[r].todo) IN
  /\ PrunerAt(r, "ask") /\ pruners[r].todo # {}
  /\ pruners' = [pruners EXCEPT ![r].todo = @ \ {b}, ![r].backup = b, ![r].step = "mark"]
  /\ UNCHANGED <<rows, stored, jobs, temps, tracked, faults, day, history>>

\* HasIncompleteOperation: a backup something works on, or waits to, is left out.
PruneAsk(r) ==
  LET b == NextOf(pruners[r].todo) IN
  /\ PrunerAt(r, "ask") /\ pruners[r].todo # {}
  /\ pruners' = IF Incomplete(b)
                THEN [pruners EXCEPT ![r].todo = @ \ {b}]
                ELSE [pruners EXCEPT ![r].todo = @ \ {b}, ![r].backup = b, ![r].step = "mark"]
  /\ UNCHANGED <<rows, stored, jobs, temps, tracked, faults, day, history>>

\* Nothing left, or the client has gone away.
PruneEnds(r) ==
  /\ PrunerAt(r, "ask")
  /\ pruners' = [pruners EXCEPT ![r] = AtRest]
  /\ UNCHANGED <<rows, stored, jobs, temps, tracked, faults, day, history>>

MarkBackupPruned(b) ==
  rows' = IF rows[b].status = "succeeded" THEN [rows EXCEPT ![b].status = "pruned"] ELSE rows

PruneMark(r) ==
  /\ PrunerAt(r, "mark")
  /\ MarkBackupPruned(pruners[r].backup)
  /\ pruners' = [pruners EXCEPT ![r].step = "count"]
  /\ UNCHANGED <<stored, jobs, temps, tracked, faults, day, history>>

CountBackupReferences_OwnPolicy(c) ==
  Cardinality({b \in Backups : /\ rows[b].content = c /\ rows[b].status # "pruned"
                               /\ \E r \in Pruners : pruners[r].policy = rows[b].policy})

\* Across all policies: contents are shared by what is in them.
CountBackupReferences(c) ==
  Cardinality({b \in Backups : rows[b].content = c /\ rows[b].status # "pruned"})

PruneCount(r) ==
  /\ PrunerAt(r, "count")
  /\ pruners' = IF CountBackupReferences(rows[pruners[r].backup].content) > 0
                THEN [pruners EXCEPT ![r].step = "ask", ![r].backup = None]
                ELSE [pruners EXCEPT ![r].step = "remove"]
  /\ UNCHANGED <<rows, stored, jobs, temps, tracked, faults, day, history>>

\* A failed removal ends the request; what it had marked stays marked.
PruneRemove(r) ==
  LET c == rows[pruners[r].backup].content IN
  /\ PrunerAt(r, "remove")
  /\ \/ /\ Works /\ stored' = stored \ {c}
        /\ pruners' = [pruners EXCEPT ![r].step = "ask", ![r].backup = None]
        /\ raced' = raced \union {jobs[j].backup : j \in {k \in Jobs : jobs[k].content = c
                                                                     /\ jobs[k].step = "finish"}}
     \/ /\ Fails /\ UNCHANGED <<stored, raced>>
        /\ pruners' = [pruners EXCEPT ![r] = AtRest]
  /\ UNCHANGED <<rows, jobs, temps, tracked, day, counted, late, stranded>>

-----------------------------------------------------------------------------
FailStaleBackups_Forgotten == UNCHANGED rows

FailStaleBackups ==
  rows' = [b \in Backups |-> IF rows[b].status = "running"
                             THEN [rows[b] EXCEPT !.status = "failed"] ELSE rows[b]]

\* The daemon dies and starts again.  Queued operations wait on; the running ones and
\* the requests are gone, and with them what the adapters remembered.
Restart ==
  /\ Fails
  /\ FailStaleBackups
  /\ jobs' = [j \in Jobs |-> IF jobs[j].step = "queued" THEN jobs[j] ELSE Idle]
  /\ pruners' = [r \in Pruners |-> AtRest]
  /\ tracked' = [p \in Policies |-> {}]
  /\ late' = {j \in late : jobs[j].step = "queued"}
  /\ stranded' = {}
  /\ UNCHANGED <<stored, temps, day, counted, raced>>

DaysPass ==
  /\ \E d \in Days : d > day /\ day' = d
  /\ UNCHANGED <<rows, stored, jobs, pruners, temps, tracked, faults, history>>

JobNext(j) ==
  \/ \E p \in Policies : SubmitRun(j, p)
  \/ \E b \in Backups : SubmitVerify(j, b)
  \/ \E b \in Backups, mode \in {"isolated", "inPlace"} : SubmitRestore(j, b, mode)
  \/ RunRefused(j)
  \/ \E b \in Backups : CreateBackup(j, b)
  \/ \E c \in Contents : PutContent(j, c)
  \/ StreamFails(j)
  \/ RunFinishes(j)
  \/ OpenFails(j)
  \/ OpenVerify(j)
  \/ Verified(j)
  \/ OpenInPlace(j)
  \/ RestoreInPlace(j)
  \/ \E t \in Temps : OpenIsolated(j, t)
  \/ RestoreIsolated(j)
  \/ DropTemp(j)
  \/ Cleanup(j)

PruneNext(r) ==
  \/ \E p \in Policies : PruneList(r, p)
  \/ PruneAsk(r)
  \/ PruneEnds(r)
  \/ PruneMark(r)
  \/ PruneCount(r)
  \/ PruneRemove(r)

Next ==
  \/ \E j \in Jobs : JobNext(j)
  \/ \E r \in Pruners : PruneNext(r)
  \/ Restart
  \/ DaysPass

Spec == Init /\ [][Next]_vars

-----------------------------------------------------------------------------
\* Every variable keeps its type, whatever the adapters, the store and the requests do
\* (the columns of backups, the fields of Temps).
TypeOK ==
  /\ rows \in [Backups -> [policy : Policies \union {None}, status : Statuses,
                           content : Contents \union {None}, verified : {"notBad", "bad"},
                           finished : Days]]
  /\ stored \subseteq Contents
  /\ jobs \in [Jobs -> [kind : Kinds, on : Policies \union Backups \union {None}, step : JobSteps,
                        backup : Backups \union {None}, content : Contents \union {None},
                        temp : Temps \union {None}]]
  /\ pruners \in [Pruners -> [step : {"idle", "ask", "mark", "count", "remove"},
                              policy : Policies \union {None}, todo : SUBSET Backups, backup : Backups \union {None}]]
  /\ temps \subseteq Temps
  /\ tracked \in [Policies -> SUBSET Temps]
  /\ day \in Days /\ faults \in 0 .. MaxFaults

\* A backup that counts as succeeded can be read: no prune removes a content another row
\* still needs, in whatever policy.  Left out are the rows that were finished between the
\* count of a prune and its removal of the same content.
SucceededHasContent ==
  \A b \in Backups \ raced : rows[b].status = "succeeded" => rows[b].content \in stored

\* However prunes overlap, a pruned backup has as many more recent ones of its policy as
\* keepLast promises (PlanRetention), all still succeeded and found usable by a prune: those
\* one prune counts on, another does not take.  A verdict that comes after the list is not
\* looked at (Prune), so a row may have turned out bad since.
KeepLastRemain ==
  \A b \in Backups : rows[b].status = "pruned" =>
    Cardinality({c \in counted : /\ rows[c].policy = rows[b].policy
                                /\ rows[c].status = "succeeded"
                                /\ MoreRecent(c, b)}) >= KeepLast[rows[b].policy]

\* A restore that was accepted does not lose its backup to a prune, unless it came in
\* between the prune's question for operations and the mark.
AcceptedRestoreIsSpared ==
  \A j \in Jobs \ late : At(j, {"isolated", "inPlace"}, "queued") =>
    rows[jobs[j].on].status = "succeeded"

\* A row is running only while a run works on it, or when its result could not be written;
\* a restart leaves none (FailStaleBackups).
RunningHasRun ==
  \A b \in Backups \ stranded : rows[b].status = "running" =>
    \E j \in Jobs : jobs[j].kind = "run" /\ jobs[j].backup = b
                    /\ jobs[j].step \in {"stream", "finish"}

-----------------------------------------------------------------------------
(* What the documentation says and the code does not keep *)

\* dbtools.go: two backups of one policy may be restored at the same time, each into a
\* database of its own, which is there until the restore has ended.
RestoreKeepsItsTemp == \A j \in Jobs : At(j, {"isolated"}, "restoring") => jobs[j].temp \in temps

=============================================================================
