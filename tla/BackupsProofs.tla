---------------------------- MODULE BackupsProofs ----------------------------
(***************************************************************************)
(* Proofs about backups.                                                   *)
(*                                                                         *)
(* Their rows, for every retention rule, every set of policies and         *)
(* contents, and any number of jobs and prunes: the types, which rows have *)
(* a content, what a prune may take, and what a policy keeps.              *)
(*                                                                         *)
(* Their bytes, for streams and chunks of any length, every key and any    *)
(* number of damages: what the reader delivers, and what a verification    *)
(* passes.                                                                 *)
(***************************************************************************)
EXTENDS Backups, Codec, FiniteSetTheorems, SequenceTheorems, TLAPS

BackupRow == [policy : Policies \union {None}, status : Statuses,
              content : Contents \union {None}, verified : {"notBad", "bad"},
              finished : Days]
Job == [kind : Kinds, on : Policies \union Backups \union {None}, step : JobSteps,
        backup : Backups \union {None}, content : Contents \union {None},
        temp : Temps \union {None}]
Pruner == [step : {"idle", "ask", "mark", "count", "remove"}, policy : Policies \union {None},
           todo : SUBSET Backups, backup : Backups \union {None}]

\* The rows a prune may hold.
Settled(b) == rows[b].status \in {"succeeded", "pruned"}

\* A run works for a policy, on a row of its own, with a content it produced.
JobOK(j) ==
  /\ jobs[j].kind = "run" => jobs[j].on \in Policies
  /\ jobs[j].step \in {"stream", "finish"} => jobs[j].kind = "run" /\ jobs[j].backup \in Backups
  /\ jobs[j].step = "finish" => jobs[j].content \in Contents
JobsInv == \A j \in Jobs : JobOK(j)

RowsInv == \A b \in Backups : rows[b].status # "none" => rows[b].policy \in Policies

\* A prune holds rows that succeeded, and has marked the one it counts for.
PrunerOK(r) ==
  /\ \A b \in pruners[r].todo : Settled(b)
  /\ pruners[r].step = "mark" => pruners[r].backup \in Backups /\ Settled(pruners[r].backup)
  /\ pruners[r].step \in {"count", "remove"} =>
       pruners[r].backup \in Backups /\ rows[pruners[r].backup].status = "pruned"
PrunersInv == \A r \in Pruners : PrunerOK(r)

IInv == TypeOK /\ JobsInv /\ RowsInv /\ PrunersInv
-----------------------------------------------------------------------------
(* The order of the rows *)

HasSmallest(F) == \E A \in F : \A B \in F : B \subseteq A => B = A
AllFinite(F) == \A A \in F : IsFiniteSet(A)

\* A non-empty family of finite subsets has a smallest member: the strict
\* inclusion of finite sets is well founded.
LEMMA SmallestSet ==
  ASSUME NEW S, NEW F \in SUBSET SUBSET S, F # {}, AllFinite(F)
  PROVE  HasSmallest(F)
<1>1. F \subseteq FiniteSubsetsOf(S)
  BY DEF FiniteSubsetsOf, AllFinite
<1>2. PICK A \in F : \A B \in F : ~(<<B, A>> \in StrictSubsetOrdering(S))
  BY <1>1, FS_StrictSubsetOrderingWellFounded, WFMin
<1>3. ASSUME NEW B \in F, B \subseteq A PROVE B = A
  <2>1. ASSUME B # A PROVE <<B, A>> \in StrictSubsetOrdering(S)
    <3>1. <<B, A>> \in (SUBSET S) \X (SUBSET S)
      BY <1>3
    <3> QED BY <3>1, <2>1, <1>3 DEF StrictSubsetOrdering
  <2> QED BY <2>1, <1>2
<1> QED BY <1>3 DEF HasSmallest

LEMMA FiniteRows ==
  ASSUME NEW S, S \subseteq Backups
  PROVE  IsFiniteSet(S) /\ Cardinality(S) \in Nat
  BY BackupAssumption, FS_Subset, FS_CardinalityType

\* Moments and identifiers are numbers, so the rows are in a strict linear order.
LEMMA RecentOrder ==
  ASSUME TypeOK
  PROVE  /\ \A b \in Backups : ~MoreRecent(b, b)
         /\ \A b, c, d \in Backups : MoreRecent(b, c) /\ MoreRecent(c, d) => MoreRecent(b, d)
         /\ \A b, c \in Backups : b # c => MoreRecent(b, c) \/ MoreRecent(c, b)
<1>1. \A b \in Backups : b \in Nat /\ rows[b].finished \in Nat
  BY BackupAssumption DEF TypeOK
<1> QED BY <1>1 DEF MoreRecent

\* Among the rows left to remove one is the most recent.
LEMMA NextIsLeft ==
  ASSUME TypeOK, NEW S \in SUBSET Backups, S # {}
  PROVE  NextOf(S) \in S
<1> DEFINE Later(b) == {c \in S : MoreRecent(c, b)}
           F == {Later(b) : b \in S}
<1>1. F \in SUBSET SUBSET Backups /\ F # {} /\ AllFinite(F)
  BY FiniteRows DEF AllFinite
<1>2. HasSmallest(F)
  <2> HIDE DEF F
  <2> QED BY <1>1, SmallestSet
<1>3. PICK b \in S : \A c \in S : Later(c) \subseteq Later(b) => Later(c) = Later(b)
  <2>1. PICK A \in F : \A B \in F : B \subseteq A => B = A
    BY <1>2 DEF HasSmallest
  <2>2. PICK b \in S : A = Later(b)
    BY <2>1
  <2>3. \A c \in S : Later(c) \in F
    OBVIOUS
  <2> HIDE DEF F, Later
  <2> QED BY <2>1, <2>2, <2>3
<1>4. \A c \in S : c \notin Later(b)
  <2> SUFFICES ASSUME NEW c \in S, MoreRecent(c, b) PROVE FALSE
    OBVIOUS
  <2>1. Later(c) \subseteq Later(b)
    BY RecentOrder
  <2>2. c \in Later(b) /\ c \notin Later(c)
    BY RecentOrder
  <2> QED BY <1>3, <2>1, <2>2
<1>5. \A c \in S \ {b} : MoreRecent(b, c)
  BY <1>4, RecentOrder
<1> QED BY <1>5 DEF NextOf
-----------------------------------------------------------------------------
(* What the statements do to the rows *)

\* A row keeps everything but the verdict of its last verification.
RowStays(b) ==
  /\ rows'[b].policy = rows[b].policy /\ rows'[b].status = rows[b].status
  /\ rows'[b].content = rows[b].content /\ rows'[b].finished = rows[b].finished
RowCreated(b) ==
  rows[b].status = "none" /\ rows'[b].status = "running" /\ rows'[b].policy \in Policies
RowEnds(b) ==
  /\ rows[b].status = "running" /\ rows'[b].status \in {"succeeded", "failed"}
  /\ rows'[b].policy = rows[b].policy
RowPruned(b) ==
  /\ rows[b].status = "succeeded" /\ rows'[b].status = "pruned"
  /\ rows'[b].policy = rows[b].policy /\ rows'[b].content = rows[b].content
  /\ rows'[b].finished = rows[b].finished

RowsTyped == rows' \in [Backups -> BackupRow]
RowsStay == \A b \in Backups : RowStays(b)

LEMMA NewRowForm ==
  ASSUME NEW p \in Policies
  PROVE  LET new == [NoRow EXCEPT !.policy = p, !.status = "running"]
         IN  new \in BackupRow /\ new.status = "running" /\ new.policy = p
<1>1. 0 \in Days
  BY BackupAssumption
<1> QED BY <1>1 DEF BackupRow, NoRow, Statuses

LEMMA StatusForm ==
  ASSUME NEW row \in BackupRow, NEW s \in Statuses
  PROVE  LET new == [row EXCEPT !.status = s]
         IN  /\ new \in BackupRow /\ new.status = s
             /\ new.policy = row.policy /\ new.content = row.content
             /\ new.finished = row.finished
  BY DEF BackupRow

LEMMA VerdictForm ==
  ASSUME NEW row \in BackupRow, NEW v \in {"notBad", "bad"}
  PROVE  LET new == [row EXCEPT !.verified = v]
         IN  /\ new \in BackupRow /\ new.status = row.status
             /\ new.policy = row.policy /\ new.content = row.content
             /\ new.finished = row.finished
  BY DEF BackupRow

LEMMA RowsType == ASSUME TypeOK PROVE rows \in [Backups -> BackupRow]
  BY DEF TypeOK, BackupRow

LEMMA SameRows == ASSUME TypeOK, rows' = rows PROVE RowsTyped /\ RowsStay
  BY RowsType DEF RowsTyped, RowsStay, RowStays

LEMMA CreateRow ==
  ASSUME IInv, NEW j \in Jobs, NEW b \in Backups, CreateBackup(j, b)
  PROVE  RowsTyped /\ RowCreated(b) /\ \A x \in Backups \ {b} : RowStays(x)
<1>1. jobs[j].on \in Policies
  BY DEF IInv, JobsInv, JobOK, CreateBackup, At
<1> DEFINE new == [NoRow EXCEPT !.policy = jobs[j].on, !.status = "running"]
<1>2. rows \in [Backups -> BackupRow] /\ rows[b] \in BackupRow
  BY RowsType DEF IInv
<1>3. new \in BackupRow /\ new.status = "running" /\ new.policy = jobs[j].on
  BY <1>1, <1>2, NewRowForm
<1>4. rows' = [rows EXCEPT ![b] = new] /\ rows[b].status = "none"
  BY DEF CreateBackup
<1> HIDE DEF new
<1>5. \A x \in Backups : rows'[x] = IF x = b THEN new ELSE rows[x]
  BY <1>2, <1>4
<1> QED BY <1>1, <1>2, <1>3, <1>4, <1>5 DEF RowsTyped, RowCreated, RowStays

LEMMA EndRow ==
  ASSUME TypeOK, NEW b \in Backups, NEW s \in {"succeeded", "failed"},
         NEW c \in Contents \union {None}, FinishBackup(b, s, c)
  PROVE  /\ RowsTyped /\ \A x \in Backups \ {b} : RowStays(x)
         /\ \/ RowStays(b) /\ rows[b].status # "running"
            \/ RowEnds(b) /\ rows'[b].status = s /\ rows'[b].content = c
<1>1. rows \in [Backups -> BackupRow] /\ rows[b] \in BackupRow
  BY RowsType
<1>2. CASE rows[b].status # "running"
  <2>1. rows' = rows
    BY <1>2 DEF FinishBackup
  <2> QED BY <1>2, <2>1, SameRows DEF RowsStay
<1>3. CASE rows[b].status = "running"
  <2> DEFINE d == IF s = "succeeded" THEN day ELSE 0
  <2>0. d \in Days
    BY BackupAssumption DEF TypeOK
  <2>1. rows' = [rows EXCEPT ![b].status = s, ![b].content = c, ![b].finished = d]
    BY <1>3 DEF FinishBackup
  <2> HIDE DEF d
  <2> DEFINE new == [rows[b] EXCEPT !.status = s, !.content = c, !.finished = d]
  <2>2. s \in Statuses
    BY DEF Statuses
  <2>3. new \in BackupRow /\ new.status = s /\ new.content = c /\ new.policy = rows[b].policy
    BY <1>1, <2>0, <2>2 DEF BackupRow
  <2>4. rows' = [rows EXCEPT ![b] = new]
    BY <2>1
  <2> HIDE DEF new
  <2>5. \A x \in Backups : rows'[x] = IF x = b THEN new ELSE rows[x]
    BY <1>1, <2>4
  <2> QED BY <1>1, <1>3, <2>3, <2>4, <2>5 DEF RowsTyped, RowEnds, RowStays
<1> QED BY <1>2, <1>3

LEMMA VerdictRow ==
  ASSUME TypeOK, NEW b, NEW v \in {"notBad", "bad"}, MarkBackupVerified(b, v)
  PROVE  RowsTyped /\ RowsStay
<1>1. rows \in [Backups -> BackupRow]
  BY RowsType
<1>2. CASE b \notin Backups
  BY <1>1, <1>2 DEF MarkBackupVerified, RowsTyped, RowsStay, RowStays
<1>3. CASE b \in Backups
  <2> DEFINE new == [rows[b] EXCEPT !.verified = v]
  <2>1. /\ new \in BackupRow /\ new.status = rows[b].status
        /\ new.policy = rows[b].policy /\ new.content = rows[b].content
        /\ new.finished = rows[b].finished
    BY <1>1, <1>3, VerdictForm
  <2>2. rows' = [rows EXCEPT ![b] = new]
    BY DEF MarkBackupVerified
  <2> HIDE DEF new
  <2>3. \A x \in Backups : rows'[x] = IF x = b THEN new ELSE rows[x]
    BY <1>1, <2>2
  <2> QED BY <1>1, <1>3, <2>1, <2>2, <2>3 DEF RowsTyped, RowsStay, RowStays
<1> QED BY <1>2, <1>3

LEMMA MarkedRow ==
  ASSUME TypeOK, NEW b \in Backups, Settled(b), MarkBackupPruned(b)
  PROVE  /\ RowsTyped /\ \A x \in Backups \ {b} : RowStays(x)
         /\ \/ RowPruned(b)
            \/ RowStays(b) /\ rows[b].status = "pruned"
<1>1. rows \in [Backups -> BackupRow] /\ rows[b] \in BackupRow
  BY RowsType
<1>2. CASE rows[b].status # "succeeded"
  <2>1. rows' = rows /\ rows[b].status = "pruned"
    BY <1>2 DEF MarkBackupPruned, Settled
  <2> QED BY <2>1, SameRows DEF RowsStay
<1>3. CASE rows[b].status = "succeeded"
  <2> DEFINE new == [rows[b] EXCEPT !.status = "pruned"]
  <2>1. "pruned" \in Statuses
    BY DEF Statuses
  <2>2. /\ new \in BackupRow /\ new.status = "pruned"
        /\ new.policy = rows[b].policy /\ new.content = rows[b].content
        /\ new.finished = rows[b].finished
    BY <1>1, <2>1, StatusForm
  <2>3. rows' = [rows EXCEPT ![b] = new]
    BY <1>3 DEF MarkBackupPruned
  <2> HIDE DEF new
  <2>4. \A x \in Backups : rows'[x] = IF x = b THEN new ELSE rows[x]
    BY <1>1, <2>3
  <2> QED BY <1>1, <1>3, <2>2, <2>3, <2>4 DEF RowsTyped, RowPruned, RowStays
<1> QED BY <1>2, <1>3

LEMMA StaleRows ==
  ASSUME TypeOK, FailStaleBackups
  PROVE  /\ RowsTyped
         /\ \A b \in Backups : IF rows[b].status = "running"
                               THEN RowEnds(b) /\ rows'[b].status = "failed" ELSE RowStays(b)
<1>1. rows \in [Backups -> BackupRow]
  BY RowsType
<1>2. "failed" \in Statuses
  BY DEF Statuses
<1>3. ASSUME NEW b \in Backups
      PROVE  /\ rows'[b] \in BackupRow
             /\ IF rows[b].status = "running"
                THEN RowEnds(b) /\ rows'[b].status = "failed" ELSE RowStays(b)
  <2> DEFINE new == [rows[b] EXCEPT !.status = "failed"]
  <2>1. new \in BackupRow /\ new.status = "failed" /\ new.policy = rows[b].policy
    BY <1>1, <1>2, StatusForm
  <2>2. rows'[b] = IF rows[b].status = "running" THEN new ELSE rows[b]
    BY DEF FailStaleBackups
  <2> HIDE DEF new
  <2> QED BY <1>1, <2>1, <2>2 DEF RowEnds, RowStays
<1>4. rows' = [b \in Backups |-> rows'[b]]
  BY DEF FailStaleBackups
<1> QED BY <1>3, <1>4 DEF RowsTyped
-----------------------------------------------------------------------------
(* What the steps do to the jobs *)

JobsTyped == jobs' \in [Jobs -> Job]
OthersStay(j) == \A i \in Jobs \ {j} : jobs'[i] = jobs[i]
SameWork(j) ==
  /\ jobs'[j].kind = jobs[j].kind /\ jobs'[j].on = jobs[j].on
  /\ jobs'[j].backup = jobs[j].backup /\ jobs'[j].content = jobs[j].content

LEMMA JobsType == ASSUME TypeOK PROVE jobs \in [Jobs -> Job]
  BY DEF TypeOK, Job

LEMMA OneJob ==
  ASSUME TypeOK, NEW j \in Jobs, NEW K \in Job, jobs' = [jobs EXCEPT ![j] = K]
  PROVE  JobsTyped /\ OthersStay(j) /\ jobs'[j] = K
  BY JobsType DEF JobsTyped, OthersStay

LEMMA IdleJob == Idle \in Job /\ Idle.step = "idle" /\ Idle.kind = "none"
  BY DEF Idle, Job, Kinds, JobSteps

LEMMA GotoJob ==
  ASSUME TypeOK, NEW j \in Jobs, NEW s \in JobSteps, Goto(j, s)
  PROVE  JobsTyped /\ OthersStay(j) /\ SameWork(j) /\ jobs'[j].step = s
<1> DEFINE K == [jobs[j] EXCEPT !.step = s]
<1>1. jobs[j] \in Job
  BY JobsType
<1>2. /\ K \in Job /\ K.step = s /\ K.kind = jobs[j].kind /\ K.on = jobs[j].on
      /\ K.backup = jobs[j].backup /\ K.content = jobs[j].content
  BY <1>1 DEF Job
<1>3. jobs' = [jobs EXCEPT ![j] = K]
  BY DEF Goto
<1> HIDE DEF K
<1>4. JobsTyped /\ OthersStay(j) /\ jobs'[j] = K
  BY <1>2, <1>3, OneJob
<1> QED BY <1>2, <1>4 DEF SameWork

LEMMA SubmitJob ==
  ASSUME TypeOK, NEW j \in Jobs, NEW kind \in Kinds, NEW on \in Policies \union Backups,
         Submit(j, kind, on)
  PROVE  /\ JobsTyped /\ OthersStay(j)
         /\ jobs'[j].kind = kind /\ jobs'[j].on = on /\ jobs'[j].step = "queued"
<1> DEFINE K == [Idle EXCEPT !.kind = kind, !.on = on, !.step = "queued"]
<1>2. K \in Job /\ K.kind = kind /\ K.on = on /\ K.step = "queued"
  BY DEF Idle, Job, Kinds, JobSteps
<1>3. jobs' = [jobs EXCEPT ![j] = K]
  BY DEF Submit
<1> HIDE DEF K
<1>4. JobsTyped /\ OthersStay(j) /\ jobs'[j] = K
  BY <1>2, <1>3, OneJob
<1> QED BY <1>2, <1>4

LEMMA CreateJob ==
  ASSUME TypeOK, NEW j \in Jobs, NEW b \in Backups, CreateBackup(j, b)
  PROVE  /\ JobsTyped /\ OthersStay(j) /\ jobs'[j].step = "stream" /\ jobs'[j].backup = b
         /\ jobs'[j].kind = "run" /\ jobs'[j].on = jobs[j].on
<1> DEFINE K == [jobs[j] EXCEPT !.step = "stream", !.backup = b]
<1>1. jobs[j] \in Job /\ jobs[j].kind = "run"
  BY JobsType DEF CreateBackup, At
<1>2. K \in Job /\ K.step = "stream" /\ K.backup = b /\ K.kind = "run" /\ K.on = jobs[j].on
  BY <1>1 DEF Job, JobSteps
<1>3. jobs' = [jobs EXCEPT ![j] = K]
  BY DEF CreateBackup
<1> HIDE DEF K
<1>4. JobsTyped /\ OthersStay(j) /\ jobs'[j] = K
  BY <1>2, <1>3, OneJob
<1> QED BY <1>2, <1>4

LEMMA PutJob ==
  ASSUME TypeOK, NEW j \in Jobs, NEW c \in Contents, PutContent(j, c)
  PROVE  /\ JobsTyped /\ OthersStay(j) /\ jobs'[j].step = "finish" /\ jobs'[j].content = c
         /\ jobs'[j].kind = jobs[j].kind /\ jobs'[j].on = jobs[j].on
         /\ jobs'[j].backup = jobs[j].backup
<1> DEFINE K == [jobs[j] EXCEPT !.step = "finish", !.content = c]
<1>1. jobs[j] \in Job
  BY JobsType
<1>2. /\ K \in Job /\ K.step = "finish" /\ K.content = c
      /\ K.kind = jobs[j].kind /\ K.on = jobs[j].on /\ K.backup = jobs[j].backup
  BY <1>1 DEF Job, JobSteps
<1>3. jobs' = [jobs EXCEPT ![j] = K]
  BY DEF PutContent
<1> HIDE DEF K
<1>4. JobsTyped /\ OthersStay(j) /\ jobs'[j] = K
  BY <1>2, <1>3, OneJob
<1> QED BY <1>2, <1>4

LEMMA TempJob ==
  ASSUME TypeOK, NEW j \in Jobs, NEW s \in JobSteps, NEW t \in Temps \union {None},
         jobs' = [jobs EXCEPT ![j].step = s, ![j].temp = t]
  PROVE  JobsTyped /\ OthersStay(j) /\ SameWork(j) /\ jobs'[j].step = s
<1> DEFINE K == [jobs[j] EXCEPT !.step = s, !.temp = t]
<1>1. jobs[j] \in Job
  BY JobsType
<1>2. /\ K \in Job /\ K.step = s /\ K.kind = jobs[j].kind /\ K.on = jobs[j].on
      /\ K.backup = jobs[j].backup /\ K.content = jobs[j].content
  BY <1>1 DEF Job
<1>3. jobs' = [jobs EXCEPT ![j] = K]
  OBVIOUS
<1> HIDE DEF K
<1>4. JobsTyped /\ OthersStay(j) /\ jobs'[j] = K
  BY <1>2, <1>3, OneJob
<1> QED BY <1>2, <1>4 DEF SameWork

\* The job is over.
LEMMA OverJob ==
  ASSUME TypeOK, NEW j \in Jobs, jobs' = [jobs EXCEPT ![j] = Idle]
  PROVE  JobsTyped /\ OthersStay(j) /\ jobs'[j].step = "idle" /\ jobs'[j].kind = "none"
  BY OneJob, IdleJob

\* The steps of a job that neither submits, creates, produces, nor writes a row: it
\* goes from one step to another that is none of a run with a row, or is over.
Carries(j) ==
  \/ RunRefused(j) \/ OpenFails(j) \/ OpenVerify(j) \/ OpenInPlace(j) \/ RestoreInPlace(j)
  \/ (\E t \in Temps : OpenIsolated(j, t)) \/ RestoreIsolated(j) \/ DropTemp(j) \/ Cleanup(j)

OutOfRun == JobSteps \ {"stream", "finish", "queued"}

LEMMA CarriesJob ==
  ASSUME TypeOK, NEW j \in Jobs, Carries(j)
  PROVE  /\ JobsTyped /\ OthersStay(j) /\ jobs'[j].step \in OutOfRun
         /\ jobs[j].step \notin {"stream", "finish"}
         /\ SameWork(j) \/ (jobs'[j].step = "idle" /\ jobs'[j].kind = "none")
         /\ UNCHANGED <<rows, stored, pruners, raced, stranded, day>>
<1>1. /\ "cleanup" \in JobSteps /\ "reading" \in JobSteps
      /\ "restoring" \in JobSteps /\ "drop" \in JobSteps
      /\ "cleanup" \in OutOfRun /\ "reading" \in OutOfRun /\ "restoring" \in OutOfRun
      /\ "drop" \in OutOfRun /\ "idle" \in OutOfRun
      /\ None \in Temps \union {None}
  BY DEF JobSteps, OutOfRun
<1> DEFINE Goal == /\ JobsTyped /\ OthersStay(j) /\ jobs'[j].step \in OutOfRun
                   /\ jobs[j].step \notin {"stream", "finish"}
                   /\ SameWork(j) \/ (jobs'[j].step = "idle" /\ jobs'[j].kind = "none")
<1>2. CASE \/ RunRefused(j) \/ RestoreInPlace(j)
  <2>1. Goto(j, "cleanup") /\ jobs[j].step \in {"queued", "restoring"}
    BY <1>2 DEF RunRefused, RestoreInPlace, At
  <2>3. JobsTyped /\ OthersStay(j) /\ SameWork(j) /\ jobs'[j].step = "cleanup"
    BY <1>1, <2>1, GotoJob
  <2>2. Goal
    BY <1>1, <2>1, <2>3
  <2> QED BY <1>2, <2>2 DEF RunRefused, RestoreInPlace, history
<1>3. CASE OpenFails(j) \/ Cleanup(j)
  <2>1. jobs' = [jobs EXCEPT ![j] = Idle] /\ jobs[j].step \in {"queued", "cleanup"}
    BY <1>3 DEF OpenFails, Cleanup, At
  <2>2. Goal
    BY <1>1, <2>1, OverJob
  <2> QED BY <1>3, <2>2 DEF OpenFails, Cleanup
<1>4. CASE OpenVerify(j)
  <2>1. Goto(j, "reading") /\ jobs[j].step = "queued"
    BY <1>4 DEF OpenVerify, At
  <2>3. JobsTyped /\ OthersStay(j) /\ SameWork(j) /\ jobs'[j].step = "reading"
    BY <1>1, <2>1, GotoJob
  <2>2. Goal
    BY <1>1, <2>1, <2>3
  <2> QED BY <1>4, <2>2 DEF OpenVerify, history
<1>5. CASE OpenInPlace(j)
  <2>1. Goto(j, "restoring") /\ jobs[j].step = "queued"
    BY <1>5 DEF OpenInPlace, At
  <2>3. JobsTyped /\ OthersStay(j) /\ SameWork(j) /\ jobs'[j].step = "restoring"
    BY <1>1, <2>1, GotoJob
  <2>2. Goal
    BY <1>1, <2>1, <2>3
  <2> QED BY <1>5, <2>2 DEF OpenInPlace, history
<1>6. CASE RestoreIsolated(j)
  <2>1. Goto(j, "drop") /\ jobs[j].step = "restoring"
    BY <1>6 DEF RestoreIsolated, At
  <2>3. JobsTyped /\ OthersStay(j) /\ SameWork(j) /\ jobs'[j].step = "drop"
    BY <1>1, <2>1, GotoJob
  <2>2. Goal
    BY <1>1, <2>1, <2>3
  <2> QED BY <1>6, <2>2 DEF RestoreIsolated, history
<1>7. CASE DropTemp(j)
  <2>1. jobs' = [jobs EXCEPT ![j].step = "cleanup", ![j].temp = None] /\ jobs[j].step = "drop"
    BY <1>7 DEF DropTemp, At
  <2>3. JobsTyped /\ OthersStay(j) /\ SameWork(j) /\ jobs'[j].step = "cleanup"
    BY <1>1, <2>1, TempJob
  <2>2. Goal
    BY <1>1, <2>1, <2>3
  <2> QED BY <1>7, <2>2 DEF DropTemp
<1>8. CASE \E t \in Temps : OpenIsolated(j, t)
  <2> PICK t \in Temps : OpenIsolated(j, t)
    BY <1>8
  <2>1. /\ jobs[j].step = "queued"
        /\ \/ jobs' = [jobs EXCEPT ![j].step = "restoring", ![j].temp = t]
           \/ Goto(j, "cleanup")
    BY DEF OpenIsolated, At
  <2>3. ASSUME jobs' = [jobs EXCEPT ![j].step = "restoring", ![j].temp = t] PROVE Goal
    <3>1. JobsTyped /\ OthersStay(j) /\ SameWork(j) /\ jobs'[j].step = "restoring"
      BY <1>1, <2>3, TempJob
    <3> QED BY <1>1, <2>1, <3>1
  <2>4. ASSUME Goto(j, "cleanup") PROVE Goal
    <3>1. JobsTyped /\ OthersStay(j) /\ SameWork(j) /\ jobs'[j].step = "cleanup"
      BY <1>1, <2>4, GotoJob
    <3> QED BY <1>1, <2>1, <3>1
  <2>2. Goal
    BY <2>1, <2>3, <2>4
  <2> QED BY <2>2 DEF OpenIsolated, history
<1> QED BY <1>2, <1>3, <1>4, <1>5, <1>6, <1>7, <1>8 DEF Carries
-----------------------------------------------------------------------------
(* The types *)

PrunersTyped == pruners' \in [Pruners -> Pruner]
StoreTyped == stored' \subseteq Contents /\ temps' \subseteq Temps /\ tracked' \in [Policies -> SUBSET Temps]
CountsTyped == day' \in Days /\ faults' \in 0 .. MaxFaults

LEMMA TypeParts ==
  ASSUME RowsTyped, JobsTyped, PrunersTyped, StoreTyped, CountsTyped
  PROVE  TypeOK'
  BY DEF RowsTyped, JobsTyped, PrunersTyped, StoreTyped, CountsTyped, TypeOK, BackupRow, Job, Pruner

LEMMA SamePruners == ASSUME TypeOK, pruners' = pruners PROVE PrunersTyped
  BY DEF TypeOK, PrunersTyped, Pruner

LEMMA SameJobs == ASSUME TypeOK, jobs' = jobs PROVE JobsTyped
  BY JobsType DEF JobsTyped

LEMMA SameStore == ASSUME TypeOK, UNCHANGED <<stored, temps, tracked>> PROVE StoreTyped
  BY DEF TypeOK, StoreTyped

\* A step fails, within the bound, or works.
LEMMA StepCounts == ASSUME TypeOK, Works \/ Fails, UNCHANGED day PROVE CountsTyped
<1>1. day \in Days /\ faults \in 0 .. MaxFaults /\ MaxFaults \in Nat
  BY BackupAssumption DEF TypeOK
<1>2. faults' \in 0 .. MaxFaults
  <2>1. CASE Works
    BY <1>1, <2>1 DEF Works
  <2>2. CASE Fails
    <3>1. faults < MaxFaults /\ faults' = faults + 1
      BY <2>2 DEF Fails
    <3> QED BY <1>1, <3>1
  <2> QED BY <2>1, <2>2
<1> QED BY <1>1, <1>2 DEF CountsTyped

LEMMA SameCounts == ASSUME TypeOK, UNCHANGED <<faults, day>> PROVE CountsTyped
  BY StepCounts DEF Works

LEMMA TrackedType ==
  ASSUME TypeOK, NEW p, NEW S, p \in Policies => S \in SUBSET Temps,
         tracked' = [tracked EXCEPT ![p] = S]
  PROVE  tracked' \in [Policies -> SUBSET Temps]
<1>1. tracked \in [Policies -> SUBSET Temps]
  BY DEF TypeOK
<1>2. CASE p \in Policies
  BY <1>1, <1>2
<1>3. CASE p \notin Policies
  BY <1>1, <1>3
<1> QED BY <1>2, <1>3

LEMMA CarriesStore == ASSUME TypeOK, NEW j \in Jobs, Carries(j) PROVE StoreTyped /\ CountsTyped
<1>1. CASE RunRefused(j) \/ OpenFails(j) \/ OpenVerify(j) \/ OpenInPlace(j) \/ RestoreInPlace(j)
           \/ RestoreIsolated(j)
  BY <1>1, SameStore, StepCounts
     DEF RunRefused, OpenFails, OpenVerify, OpenInPlace, RestoreInPlace, RestoreIsolated
<1>2. stored' = stored
  BY CarriesJob
<1>3. temps \subseteq Temps /\ tracked \in [Policies -> SUBSET Temps] /\ stored \subseteq Contents
  BY DEF TypeOK
<1> DEFINE p == PolicyOf(jobs[j])
           t0 == jobs[j].temp
<1>4. p \in Policies => tracked[p] \in SUBSET Temps
  BY <1>3
<1>5. CASE \E t \in Temps : OpenIsolated(j, t)
  <2> PICK t \in Temps : OpenIsolated(j, t)
    BY <1>5
  <2>1. temps' = temps \/ temps' = temps \union {t}
    BY DEF OpenIsolated
  <2>2. tracked' = [tracked EXCEPT ![p] = tracked[p] \union {t}]
    BY DEF OpenIsolated, Track
  <2> HIDE DEF p
  <2>3. p \in Policies => tracked[p] \union {t} \in SUBSET Temps
    BY <1>4
  <2>4. tracked' \in [Policies -> SUBSET Temps]
    BY <2>2, <2>3, TrackedType
  <2>5. CountsTyped
    BY StepCounts DEF OpenIsolated
  <2> QED BY <1>2, <1>3, <2>1, <2>4, <2>5 DEF StoreTyped
<1>6. CASE DropTemp(j)
  <2>1. temps' \subseteq temps
    BY <1>6 DEF DropTemp
  <2>2. tracked' = [tracked EXCEPT ![p] = tracked[p] \ {t0}] \/ tracked' = tracked
    BY <1>6 DEF DropTemp, Untrack
  <2> HIDE DEF p, t0
  <2>3. p \in Policies => tracked[p] \ {t0} \in SUBSET Temps
    BY <1>4
  <2>4. tracked' \in [Policies -> SUBSET Temps]
    BY <1>3, <2>2, <2>3, TrackedType
  <2>5. CountsTyped
    BY <1>6, StepCounts DEF DropTemp
  <2> QED BY <1>2, <1>3, <2>1, <2>4, <2>5 DEF StoreTyped
<1>7. CASE Cleanup(j)
  <2>1. temps' \subseteq temps
    BY <1>7 DEF Cleanup
  <2>2. tracked' = [tracked EXCEPT ![p] = {}] \/ tracked' = tracked
    BY <1>7 DEF Cleanup
  <2> HIDE DEF p
  <2>4. tracked' \in [Policies -> SUBSET Temps]
    BY <1>3, <2>2, TrackedType
  <2>5. CountsTyped
    BY <1>7, StepCounts DEF Cleanup
  <2> QED BY <1>2, <1>3, <2>1, <2>4, <2>5 DEF StoreTyped
<1> QED BY <1>1, <1>5, <1>6, <1>7 DEF Carries
-----------------------------------------------------------------------------
(* What the steps do to the prunes *)

PrunersMove(r) == \A q \in Pruners \ {r} : pruners'[q] = pruners[q]

LEMMA PrunersType == ASSUME TypeOK PROVE pruners \in [Pruners -> Pruner]
  BY DEF TypeOK, Pruner

LEMMA OnePruner ==
  ASSUME TypeOK, NEW r \in Pruners, NEW K \in Pruner, pruners' = [pruners EXCEPT ![r] = K]
  PROVE  PrunersTyped /\ PrunersMove(r) /\ pruners'[r] = K
  BY PrunersType DEF PrunersTyped, PrunersMove

LEMMA RestPruner == AtRest \in Pruner /\ AtRest.step = "idle" /\ AtRest.todo = {}
  BY DEF AtRest, Pruner

LEMMA ListPruner ==
  ASSUME TypeOK, NEW r \in Pruners, NEW p \in Policies, PruneList(r, p)
  PROVE  /\ PrunersTyped /\ PrunersMove(r) /\ pruners'[r].step = "ask"
         /\ pruners'[r].todo = PlanRetention({b \in Backups : rows[b].policy = p /\ Usable(rows[b])})
         /\ pruners'[r].todo \subseteq {b \in Backups : rows[b].policy = p /\ Usable(rows[b])}
<1> DEFINE usable == {b \in Backups : rows[b].policy = p /\ Usable(rows[b])}
           T == PlanRetention(usable)
           K == [step |-> "ask", policy |-> p, todo |-> T, backup |-> None]
<1>1. T \subseteq usable /\ T \in SUBSET Backups
  BY DEF PlanRetention
<1>2. pruners' = [pruners EXCEPT ![r] = K]
  BY DEF PruneList
<1> HIDE DEF T
<1>3. K \in Pruner /\ K.step = "ask" /\ K.todo = T
  BY <1>1 DEF Pruner
<1> HIDE DEF K
<1>4. PrunersTyped /\ PrunersMove(r) /\ pruners'[r] = K
  BY <1>2, <1>3, OnePruner
<1> QED BY <1>1, <1>3, <1>4 DEF T

LEMMA AskPruner ==
  ASSUME TypeOK, NEW r \in Pruners, PruneAsk(r)
  PROVE  /\ PrunersTyped /\ PrunersMove(r)
         /\ pruners'[r].step \in {"ask", "mark"}
         /\ pruners'[r].todo \subseteq pruners[r].todo
         /\ pruners'[r].step = "mark" => /\ pruners'[r].backup \in pruners[r].todo
                                         /\ pruners'[r].backup \in Backups
                                         /\ ~Incomplete(pruners'[r].backup)
<1> DEFINE b == NextOf(pruners[r].todo)
           K == [pruners[r] EXCEPT !.todo = pruners[r].todo \ {b}]
           L == [pruners[r] EXCEPT !.todo = pruners[r].todo \ {b}, !.backup = b, !.step = "mark"]
<1>1. pruners[r] \in Pruner /\ pruners[r].step = "ask" /\ pruners[r].todo # {}
      /\ pruners[r].todo \in SUBSET Backups
  BY PrunersType DEF PruneAsk, PrunerAt, Pruner
<1>2. b \in pruners[r].todo /\ b \in Backups
  BY <1>1, NextIsLeft
<1> HIDE DEF b
<1>3. /\ K \in Pruner /\ K.step = "ask" /\ K.todo = pruners[r].todo \ {b}
      /\ L \in Pruner /\ L.step = "mark" /\ L.todo = pruners[r].todo \ {b} /\ L.backup = b
  BY <1>1, <1>2 DEF Pruner
<1>4. CASE Incomplete(b)
  <2>1. pruners' = [pruners EXCEPT ![r] = K]
    BY <1>4 DEF PruneAsk, b
  <2> HIDE DEF K
  <2>2. PrunersTyped /\ PrunersMove(r) /\ pruners'[r] = K
    BY <1>3, <2>1, OnePruner
  <2> QED BY <1>3, <2>2
<1>5. CASE ~Incomplete(b)
  <2>1. pruners' = [pruners EXCEPT ![r] = L]
    BY <1>5 DEF PruneAsk, b
  <2> HIDE DEF L
  <2>2. PrunersTyped /\ PrunersMove(r) /\ pruners'[r] = L
    BY <1>3, <2>1, OnePruner
  <2> QED BY <1>2, <1>3, <1>5, <2>2
<1> QED BY <1>4, <1>5

LEMMA EndPruner ==
  ASSUME TypeOK, NEW r \in Pruners, pruners' = [pruners EXCEPT ![r] = AtRest]
  PROVE  PrunersTyped /\ PrunersMove(r) /\ pruners'[r].step = "idle" /\ pruners'[r].todo = {}
  BY RestPruner, OnePruner

LEMMA StepPruner ==
  ASSUME TypeOK, NEW r \in Pruners, NEW s \in {"count", "remove"},
         pruners' = [pruners EXCEPT ![r].step = s]
  PROVE  /\ PrunersTyped /\ PrunersMove(r) /\ pruners'[r].step = s
         /\ pruners'[r].todo = pruners[r].todo /\ pruners'[r].backup = pruners[r].backup
<1> DEFINE K == [pruners[r] EXCEPT !.step = s]
<1>1. pruners[r] \in Pruner
  BY PrunersType
<1>2. K \in Pruner /\ K.step = s /\ K.todo = pruners[r].todo /\ K.backup = pruners[r].backup
  BY <1>1 DEF Pruner
<1>3. pruners' = [pruners EXCEPT ![r] = K]
  OBVIOUS
<1> HIDE DEF K
<1>4. PrunersTyped /\ PrunersMove(r) /\ pruners'[r] = K
  BY <1>2, <1>3, OnePruner
<1> QED BY <1>2, <1>4

LEMMA BackPruner ==
  ASSUME TypeOK, NEW r \in Pruners,
         pruners' = [pruners EXCEPT ![r].step = "ask", ![r].backup = None]
  PROVE  /\ PrunersTyped /\ PrunersMove(r) /\ pruners'[r].step = "ask"
         /\ pruners'[r].todo = pruners[r].todo
<1> DEFINE K == [pruners[r] EXCEPT !.step = "ask", !.backup = None]
<1>1. pruners[r] \in Pruner
  BY PrunersType
<1>2. K \in Pruner /\ K.step = "ask" /\ K.todo = pruners[r].todo
  BY <1>1 DEF Pruner
<1>3. pruners' = [pruners EXCEPT ![r] = K]
  OBVIOUS
<1> HIDE DEF K
<1>4. PrunersTyped /\ PrunersMove(r) /\ pruners'[r] = K
  BY <1>2, <1>3, OnePruner
<1> QED BY <1>2, <1>4
-----------------------------------------------------------------------------
(* The invariant *)

\* What a step may do to a row.
RowMoves(b) == RowStays(b) \/ RowCreated(b) \/ RowEnds(b) \/ RowPruned(b)
RowsMove == \A b \in Backups : RowMoves(b)

LEMMA RowsInvKept == ASSUME RowsInv, RowsMove PROVE RowsInv'
  BY DEF RowsInv, RowsMove, RowMoves, RowStays, RowCreated, RowEnds, RowPruned

\* What succeeded stays what it is until it is pruned, and what is pruned stays.
LEMMA SettledKept ==
  ASSUME RowsMove, NEW b \in Backups
  PROVE  /\ Settled(b) => /\ Settled(b)' /\ rows'[b].policy = rows[b].policy
                          /\ rows'[b].content = rows[b].content
                          /\ rows'[b].finished = rows[b].finished
         /\ rows[b].status = "pruned" => rows'[b].status = "pruned"
  BY DEF RowsMove, RowMoves, RowStays, RowCreated, RowEnds, RowPruned, Settled

LEMMA PrunerKept ==
  ASSUME TypeOK, RowsMove, NEW r \in Pruners, PrunerOK(r), pruners'[r] = pruners[r]
  PROVE  PrunerOK(r)'
<1>1. pruners[r].todo \in SUBSET Backups
  BY PrunersType DEF Pruner
<1>2. \A b \in Backups : Settled(b) => Settled(b)'
  BY SettledKept
<1>3. \A b \in Backups : rows[b].status = "pruned" => rows'[b].status = "pruned"
  BY SettledKept
<1>4. (\A b \in pruners[r].todo : Settled(b))'
  BY <1>1, <1>2 DEF PrunerOK
<1>5. (pruners[r].step = "mark" => pruners[r].backup \in Backups /\ Settled(pruners[r].backup))'
  BY <1>2 DEF PrunerOK
<1>6. (pruners[r].step \in {"count", "remove"} =>
         pruners[r].backup \in Backups /\ rows[pruners[r].backup].status = "pruned")'
  BY <1>3 DEF PrunerOK
<1> QED BY <1>4, <1>5, <1>6 DEF PrunerOK

\* The step of one job keeps the invariant if it keeps what is said of the job.
LEMMA JobStepInv ==
  ASSUME IInv, NEW j \in Jobs, RowsTyped, RowsMove, JobsTyped, OthersStay(j), JobOK(j)',
         pruners' = pruners, StoreTyped, CountsTyped
  PROVE  IInv'
<1>1. TypeOK'
  BY TypeParts, SamePruners DEF IInv
<1>2. JobsInv'
  BY DEF IInv, JobsInv, JobOK, OthersStay
<1>3. RowsInv'
  BY RowsInvKept DEF IInv
<1>4. PrunersInv'
  BY PrunerKept DEF IInv, PrunersInv
<1> QED BY <1>1, <1>2, <1>3, <1>4 DEF IInv

LEMMA StayMove == ASSUME RowsStay PROVE RowsMove
  BY DEF RowsStay, RowsMove, RowMoves

LEMMA SubmitInv ==
  ASSUME IInv, NEW j \in Jobs, NEW kind \in Kinds, NEW on \in Policies \union Backups,
         kind = "run" => on \in Policies, Submit(j, kind, on)
  PROVE  IInv'
<1>0. TypeOK
  BY DEF IInv
<1>1. /\ JobsTyped /\ OthersStay(j)
      /\ jobs'[j].kind = kind /\ jobs'[j].on = on /\ jobs'[j].step = "queued"
  BY <1>0, SubmitJob
<1>2. JobOK(j)'
  BY <1>1 DEF JobOK
<1>3. RowsTyped /\ RowsMove /\ StoreTyped /\ CountsTyped /\ pruners' = pruners
  BY <1>0, SameRows, StayMove, SameStore, SameCounts DEF Submit
<1> QED BY <1>1, <1>2, <1>3, JobStepInv

LEMMA CreateInv ==
  ASSUME IInv, NEW j \in Jobs, NEW b \in Backups, CreateBackup(j, b)
  PROVE  IInv'
<1>0. TypeOK
  BY DEF IInv
<1>1. /\ JobsTyped /\ OthersStay(j) /\ jobs'[j].step = "stream" /\ jobs'[j].backup = b
      /\ jobs'[j].kind = "run" /\ jobs'[j].on = jobs[j].on
  BY <1>0, CreateJob
<1>2. JobOK(j)'
  BY <1>1 DEF JobOK, CreateBackup, At, IInv, JobsInv
<1>3. RowsTyped /\ RowsMove
  BY CreateRow DEF RowsMove, RowMoves
<1>4. StoreTyped /\ CountsTyped /\ pruners' = pruners
  BY <1>0, SameStore, StepCounts DEF CreateBackup
<1> QED BY <1>1, <1>2, <1>3, <1>4, JobStepInv

LEMMA PutInv ==
  ASSUME IInv, NEW j \in Jobs, NEW c \in Contents, PutContent(j, c)
  PROVE  IInv'
<1>0. TypeOK
  BY DEF IInv
<1>1. /\ JobsTyped /\ OthersStay(j) /\ jobs'[j].step = "finish" /\ jobs'[j].content = c
      /\ jobs'[j].kind = jobs[j].kind /\ jobs'[j].on = jobs[j].on
      /\ jobs'[j].backup = jobs[j].backup
  BY <1>0, PutJob
<1>2. JobOK(j)'
  BY <1>1 DEF JobOK, PutContent, At, IInv, JobsInv
<1>3. RowsTyped /\ RowsMove /\ CountsTyped /\ pruners' = pruners
  BY <1>0, SameRows, StayMove, StepCounts DEF PutContent
<1>4. StoreTyped
  BY <1>0 DEF StoreTyped, TypeOK, PutContent
<1> QED BY <1>1, <1>2, <1>3, <1>4, JobStepInv

\* The rows after the end of a run: its own is closed, or left as it was.
LEMMA RunEndRows ==
  ASSUME IInv, NEW j \in Jobs, StreamFails(j) \/ RunFinishes(j)
  PROVE  /\ RowsTyped /\ RowsMove /\ jobs[j].backup \in Backups
         /\ \A x \in Backups \ {jobs[j].backup} : RowStays(x)
         /\ \/ UNCHANGED rows /\ stranded' = stranded \union {jobs[j].backup}
            \/ /\ rows[jobs[j].backup].status # "running" /\ RowStays(jobs[j].backup)
               /\ stranded' = stranded
            \/ RowEnds(jobs[j].backup) /\ stranded' = stranded
<1> DEFINE b == jobs[j].backup
<1>1. b \in Backups /\ jobs[j].step \in {"stream", "finish"} /\ TypeOK
  BY DEF IInv, JobsInv, JobOK, StreamFails, RunFinishes, At
<1>2. jobs[j].step = "finish" => jobs[j].content \in Contents \union {None}
  BY DEF IInv, JobsInv, JobOK
<1>3. \/ UNCHANGED rows /\ stranded' = stranded \union {b}
      \/ FinishBackup(b, "failed", None) /\ stranded' = stranded
      \/ /\ FinishBackup(b, "succeeded", jobs[j].content) /\ stranded' = stranded
         /\ jobs[j].step = "finish"
  BY DEF StreamFails, RunFinishes, At
<1> HIDE DEF b
<1>4. CASE UNCHANGED rows /\ stranded' = stranded \union {b}
  <2>1. RowsTyped /\ RowsStay
    BY <1>1, <1>4, SameRows
  <2> QED BY <1>1, <1>4, <2>1, StayMove DEF RowsStay, b
<1>5. CASE FinishBackup(b, "failed", None) /\ stranded' = stranded
  <2>1. "failed" \in {"succeeded", "failed"} /\ None \in Contents \union {None}
    OBVIOUS
  <2>2. /\ RowsTyped /\ \A x \in Backups \ {b} : RowStays(x)
        /\ \/ RowStays(b) /\ rows[b].status # "running"
           \/ RowEnds(b)
    BY <1>1, <1>5, <2>1, EndRow
  <2> QED BY <1>1, <1>5, <2>2 DEF RowsMove, RowMoves, b
<1>6. CASE /\ FinishBackup(b, "succeeded", jobs[j].content) /\ stranded' = stranded
           /\ jobs[j].step = "finish"
  <2>1. "succeeded" \in {"succeeded", "failed"}
    OBVIOUS
  <2>2. /\ RowsTyped /\ \A x \in Backups \ {b} : RowStays(x)
        /\ \/ RowStays(b) /\ rows[b].status # "running"
           \/ RowEnds(b)
    BY <1>1, <1>2, <1>6, <2>1, EndRow
  <2> QED BY <1>1, <1>6, <2>2 DEF RowsMove, RowMoves, b
<1> QED BY <1>3, <1>4, <1>5, <1>6

LEMMA RunEndInv ==
  ASSUME IInv, NEW j \in Jobs, StreamFails(j) \/ RunFinishes(j)
  PROVE  IInv' /\ JobsTyped /\ OthersStay(j) /\ SameWork(j) /\ jobs'[j].step = "cleanup"
<1>0. TypeOK
  BY DEF IInv
<1>1. Goto(j, "cleanup") /\ "cleanup" \in JobSteps
  BY DEF StreamFails, RunFinishes, JobSteps
<1>2. JobsTyped /\ OthersStay(j) /\ SameWork(j) /\ jobs'[j].step = "cleanup"
  BY <1>0, <1>1, GotoJob
<1>3. JobOK(j)'
  BY <1>2 DEF JobOK, SameWork, IInv, JobsInv
<1>4. StoreTyped /\ CountsTyped /\ pruners' = pruners
  BY <1>0, SameStore, StepCounts DEF StreamFails, RunFinishes
<1>5. RowsTyped /\ RowsMove
  BY RunEndRows
<1>6. IInv'
  BY <1>2, <1>3, <1>4, <1>5, JobStepInv
<1> QED BY <1>2, <1>6

LEMMA VerifiedInv ==
  ASSUME IInv, NEW j \in Jobs, Verified(j)
  PROVE  /\ IInv' /\ RowsStay
         /\ JobsTyped /\ OthersStay(j) /\ SameWork(j) /\ jobs'[j].step = "cleanup"
<1>0. TypeOK
  BY DEF IInv
<1>1. Goto(j, "cleanup") /\ "cleanup" \in JobSteps
  BY DEF Verified, JobSteps
<1>2. JobsTyped /\ OthersStay(j) /\ SameWork(j) /\ jobs'[j].step = "cleanup"
  BY <1>0, <1>1, GotoJob
<1>3. JobOK(j)'
  BY <1>2 DEF JobOK, SameWork, IInv, JobsInv
<1>4. StoreTyped /\ CountsTyped /\ pruners' = pruners
  BY <1>0, SameStore, StepCounts DEF Verified
<1>5. RowsTyped /\ RowsStay
  <2>1. \/ MarkBackupVerified(jobs[j].on, "notBad") \/ MarkBackupVerified(jobs[j].on, "bad")
        \/ rows' = rows
    BY DEF Verified
  <2>2. "notBad" \in {"notBad", "bad"} /\ "bad" \in {"notBad", "bad"}
    OBVIOUS
  <2> QED BY <1>0, <2>1, <2>2, VerdictRow, SameRows
<1>6. IInv'
  BY <1>2, <1>3, <1>4, <1>5, StayMove, JobStepInv
<1> QED BY <1>2, <1>5, <1>6

LEMMA CarriesInv ==
  ASSUME IInv, NEW j \in Jobs, Carries(j)
  PROVE  IInv'
<1>0. TypeOK
  BY DEF IInv
<1>1. /\ JobsTyped /\ OthersStay(j) /\ jobs'[j].step \in OutOfRun
      /\ SameWork(j) \/ (jobs'[j].step = "idle" /\ jobs'[j].kind = "none")
      /\ UNCHANGED <<rows, pruners>>
  BY <1>0, CarriesJob
<1>2. JobOK(j)'
  BY <1>1 DEF JobOK, SameWork, IInv, JobsInv, OutOfRun
<1>3. RowsTyped /\ RowsMove
  BY <1>0, <1>1, SameRows, StayMove
<1>4. StoreTyped /\ CountsTyped
  BY <1>0, CarriesStore
<1> QED BY <1>1, <1>2, <1>3, <1>4, JobStepInv

\* The step of one prune keeps the invariant if it keeps what is said of the prune.
LEMMA PruneStepInv ==
  ASSUME IInv, NEW r \in Pruners, RowsTyped, RowsMove, PrunersTyped, PrunersMove(r), PrunerOK(r)',
         jobs' = jobs, StoreTyped, CountsTyped
  PROVE  IInv'
<1>1. TypeOK'
  BY TypeParts, SameJobs DEF IInv
<1>2. JobsInv'
  BY DEF IInv, JobsInv, JobOK
<1>3. RowsInv'
  BY RowsInvKept DEF IInv
<1>4. PrunersInv'
  BY PrunerKept DEF IInv, PrunersInv, PrunersMove
<1> QED BY <1>1, <1>2, <1>3, <1>4 DEF IInv

\* A prune lists, asks, counts or ends without a word to the rows and the store.
Considers(r) ==
  (\E p \in Policies : PruneList(r, p)) \/ PruneAsk(r) \/ PruneEnds(r) \/ PruneCount(r)

LEMMA ConsidersStay ==
  ASSUME TypeOK, NEW r \in Pruners, Considers(r)
  PROVE  /\ UNCHANGED <<rows, stored, jobs, temps, tracked, faults, day>>
         /\ UNCHANGED <<raced, late, stranded>>
         /\ RowsTyped /\ RowsStay /\ RowsMove /\ StoreTyped /\ CountsTyped
<1>1. /\ UNCHANGED <<rows, stored, jobs, temps, tracked, faults, day>>
      /\ UNCHANGED <<raced, late, stranded>>
  BY DEF Considers, PruneList, PruneAsk, PruneEnds, PruneCount, history
<1> QED BY <1>1, SameRows, StayMove, SameStore, SameCounts

LEMMA CountPruner ==
  ASSUME TypeOK, NEW r \in Pruners, PruneCount(r)
  PROVE  /\ PrunersTyped /\ PrunersMove(r) /\ pruners[r].step = "count"
         /\ pruners'[r].todo = pruners[r].todo
         /\ \/ pruners'[r].step = "ask"
            \/ /\ pruners'[r].step = "remove" /\ pruners'[r].backup = pruners[r].backup
               /\ ~(CountBackupReferences(rows[pruners[r].backup].content) > 0)
<1>0. "count" \in {"count", "remove"} /\ "remove" \in {"count", "remove"}
  OBVIOUS
<1>1. pruners[r].step = "count"
  BY DEF PruneCount, PrunerAt
<1>2. CASE CountBackupReferences(rows[pruners[r].backup].content) > 0
  <2>1. pruners' = [pruners EXCEPT ![r].step = "ask", ![r].backup = None]
    BY <1>2 DEF PruneCount
  <2> QED BY <1>1, <2>1, BackPruner
<1>3. CASE ~(CountBackupReferences(rows[pruners[r].backup].content) > 0)
  <2>1. pruners' = [pruners EXCEPT ![r].step = "remove"]
    BY <1>3 DEF PruneCount
  <2> QED BY <1>0, <1>1, <1>3, <2>1, StepPruner
<1> QED BY <1>2, <1>3

LEMMA ConsidersInv ==
  ASSUME IInv, NEW r \in Pruners, Considers(r)
  PROVE  IInv'
<1>0. TypeOK /\ PrunerOK(r)
  BY DEF IInv, PrunersInv
<1>1. /\ UNCHANGED <<rows, stored, jobs, temps, tracked, faults, day>>
      /\ RowsTyped /\ RowsMove /\ StoreTyped /\ CountsTyped
  BY <1>0, ConsidersStay
<1>2. PrunersTyped /\ PrunersMove(r) /\ PrunerOK(r)'
  <2>1. CASE \E p \in Policies : PruneList(r, p)
    <3> PICK p \in Policies : PruneList(r, p)
      BY <2>1
    <3>1. /\ PrunersTyped /\ PrunersMove(r) /\ pruners'[r].step = "ask"
          /\ pruners'[r].todo \subseteq {b \in Backups : rows[b].policy = p /\ Usable(rows[b])}
      BY <1>0, ListPruner
    <3> QED BY <1>1, <3>1 DEF PrunerOK, Settled, Usable
  <2>2. CASE PruneAsk(r)
    <3>1. /\ PrunersTyped /\ PrunersMove(r)
          /\ pruners'[r].step \in {"ask", "mark"}
          /\ pruners'[r].todo \subseteq pruners[r].todo
          /\ pruners'[r].step = "mark" => /\ pruners'[r].backup \in pruners[r].todo
                                          /\ pruners'[r].backup \in Backups
      BY <1>0, <2>2, AskPruner
    <3> QED BY <1>0, <1>1, <3>1 DEF PrunerOK, Settled
  <2>3. CASE PruneEnds(r)
    <3>1. PrunersTyped /\ PrunersMove(r) /\ pruners'[r].step = "idle" /\ pruners'[r].todo = {}
      BY <1>0, <2>3, EndPruner DEF PruneEnds
    <3> QED BY <3>1 DEF PrunerOK
  <2>4. CASE PruneCount(r)
    <3>1. /\ PrunersTyped /\ PrunersMove(r) /\ pruners[r].step = "count"
          /\ pruners'[r].todo = pruners[r].todo
          /\ \/ pruners'[r].step = "ask"
             \/ pruners'[r].step = "remove" /\ pruners'[r].backup = pruners[r].backup
      BY <1>0, <2>4, CountPruner
    <3> QED BY <1>0, <1>1, <3>1 DEF PrunerOK, Settled
  <2> QED BY <2>1, <2>2, <2>3, <2>4 DEF Considers
<1> QED BY <1>1, <1>2, PruneStepInv

\* The mark: the row of the prune, and no other.
LEMMA MarkSteps ==
  ASSUME IInv, NEW r \in Pruners, PruneMark(r)
  PROVE  /\ pruners[r].backup \in Backups /\ pruners[r].step = "mark"
         /\ RowsTyped /\ RowsMove
         /\ \A x \in Backups \ {pruners[r].backup} : RowStays(x)
         /\ \/ RowPruned(pruners[r].backup)
            \/ RowStays(pruners[r].backup) /\ rows[pruners[r].backup].status = "pruned"
         /\ PrunersTyped /\ PrunersMove(r) /\ pruners'[r].step = "count"
         /\ pruners'[r].todo = pruners[r].todo /\ pruners'[r].backup = pruners[r].backup
<1> DEFINE b == pruners[r].backup
<1>0. TypeOK /\ PrunerOK(r)
  BY DEF IInv, PrunersInv
<1>1. pruners[r].step = "mark" /\ b \in Backups /\ Settled(b) /\ MarkBackupPruned(b)
  BY <1>0 DEF PruneMark, PrunerAt, PrunerOK
<1>2. "count" \in {"count", "remove"} /\ pruners' = [pruners EXCEPT ![r].step = "count"]
  BY DEF PruneMark
<1>3. /\ PrunersTyped /\ PrunersMove(r) /\ pruners'[r].step = "count"
      /\ pruners'[r].todo = pruners[r].todo /\ pruners'[r].backup = b
  BY <1>0, <1>2, StepPruner
<1> HIDE DEF b
<1>4. /\ RowsTyped /\ \A x \in Backups \ {b} : RowStays(x)
      /\ RowPruned(b) \/ (RowStays(b) /\ rows[b].status = "pruned")
  BY <1>0, <1>1, MarkedRow
<1>5. RowsMove
  BY <1>1, <1>4 DEF RowsMove, RowMoves
<1> QED BY <1>1, <1>3, <1>4, <1>5 DEF b

LEMMA MarkInvKept ==
  ASSUME IInv, NEW r \in Pruners, PruneMark(r)
  PROVE  IInv'
<1> DEFINE b == pruners[r].backup
<1>0. TypeOK /\ PrunerOK(r) /\ pruners[r].todo \in SUBSET Backups
  BY PrunersType DEF IInv, PrunersInv, Pruner
<1>1. /\ b \in Backups /\ RowsTyped /\ RowsMove
      /\ RowPruned(b) \/ (RowStays(b) /\ rows[b].status = "pruned")
      /\ PrunersTyped /\ PrunersMove(r) /\ pruners'[r].step = "count"
      /\ pruners'[r].todo = pruners[r].todo /\ pruners'[r].backup = b
  BY MarkSteps
<1>2. rows'[b].status = "pruned"
  BY <1>1 DEF RowPruned, RowStays
<1>3. \A x \in pruners[r].todo : Settled(x)'
  BY <1>0, <1>1, SettledKept DEF PrunerOK
<1>4. PrunerOK(r)'
  BY <1>1, <1>2, <1>3 DEF PrunerOK
<1>5. StoreTyped /\ CountsTyped /\ jobs' = jobs
  BY <1>0, SameStore, SameCounts DEF PruneMark
<1> QED BY <1>1, <1>4, <1>5, PruneStepInv

\* The removal: the content goes, or the request ends.
LEMMA RemoveSteps ==
  ASSUME TypeOK, NEW r \in Pruners, PruneRemove(r)
  PROVE  /\ pruners[r].step = "remove"
         /\ RowsTyped /\ RowsStay /\ RowsMove /\ StoreTyped /\ CountsTyped /\ jobs' = jobs
         /\ PrunersTyped /\ PrunersMove(r) /\ pruners'[r].step \in {"ask", "idle"}
         /\ pruners'[r].todo \subseteq pruners[r].todo
<1>1. pruners[r].step = "remove" /\ UNCHANGED <<rows, jobs, temps, tracked, day>>
  BY DEF PruneRemove, PrunerAt
<1>2. stored' \subseteq stored /\ (Works \/ Fails)
  BY DEF PruneRemove
<1>3. StoreTyped
  BY <1>1, <1>2 DEF StoreTyped, TypeOK
<1>4. \/ pruners' = [pruners EXCEPT ![r].step = "ask", ![r].backup = None]
      \/ pruners' = [pruners EXCEPT ![r] = AtRest]
  BY DEF PruneRemove
<1>5. /\ PrunersTyped /\ PrunersMove(r) /\ pruners'[r].step \in {"ask", "idle"}
      /\ pruners'[r].todo \subseteq pruners[r].todo
  BY <1>4, BackPruner, EndPruner
<1> QED BY <1>1, <1>2, <1>3, <1>5, SameRows, StayMove, StepCounts

LEMMA RemoveInvKept ==
  ASSUME IInv, NEW r \in Pruners, PruneRemove(r)
  PROVE  IInv'
<1>0. TypeOK /\ PrunerOK(r) /\ pruners[r].todo \in SUBSET Backups
  BY PrunersType DEF IInv, PrunersInv, Pruner
<1>1. /\ RowsTyped /\ RowsMove /\ StoreTyped /\ CountsTyped /\ jobs' = jobs
      /\ PrunersTyped /\ PrunersMove(r) /\ pruners'[r].step \in {"ask", "idle"}
      /\ pruners'[r].todo \subseteq pruners[r].todo
  BY <1>0, RemoveSteps
<1>2. \A x \in pruners[r].todo : Settled(x)'
  BY <1>0, <1>1, SettledKept DEF PrunerOK
<1>3. PrunerOK(r)'
  BY <1>1, <1>2 DEF PrunerOK
<1> QED BY <1>1, <1>3, PruneStepInv

\* After a restart the queued jobs wait on and everything else is at rest.
LEMMA RestartSteps ==
  ASSUME TypeOK, Restart
  PROVE  /\ RowsTyped /\ RowsMove
         /\ \A b \in Backups : IF rows[b].status = "running"
                               THEN rows'[b].status = "failed" ELSE RowStays(b)
         /\ JobsTyped /\ \A j \in Jobs : jobs'[j] = IF jobs[j].step = "queued" THEN jobs[j] ELSE Idle
         /\ \A r \in Pruners : pruners'[r] = AtRest
         /\ TypeOK'
<1>1. /\ RowsTyped
      /\ \A b \in Backups : IF rows[b].status = "running"
                            THEN RowEnds(b) /\ rows'[b].status = "failed" ELSE RowStays(b)
  BY StaleRows DEF Restart
<1>2. RowsMove
  BY <1>1 DEF RowsMove, RowMoves
<1>3. jobs \in [Jobs -> Job] /\ Idle \in Job
  BY JobsType, IdleJob
<1>4. jobs' = [j \in Jobs |-> IF jobs[j].step = "queued" THEN jobs[j] ELSE Idle]
  BY DEF Restart
<1>5. JobsTyped /\ \A j \in Jobs : jobs'[j] = IF jobs[j].step = "queued" THEN jobs[j] ELSE Idle
  BY <1>3, <1>4 DEF JobsTyped
<1>6. pruners' = [r \in Pruners |-> AtRest] /\ AtRest \in Pruner
  BY RestPruner DEF Restart
<1>7. PrunersTyped /\ \A r \in Pruners : pruners'[r] = AtRest
  BY <1>6 DEF PrunersTyped
<1>8. StoreTyped
  BY DEF Restart, StoreTyped, TypeOK
<1>9. CountsTyped
  BY StepCounts DEF Restart
<1>10. TypeOK'
  BY <1>1, <1>5, <1>7, <1>8, <1>9, TypeParts
<1> QED BY <1>1, <1>2, <1>5, <1>7, <1>10

LEMMA RestartInv == ASSUME IInv, Restart PROVE IInv'
<1>0. TypeOK
  BY DEF IInv
<1>1. /\ RowsMove /\ TypeOK'
      /\ \A j \in Jobs : jobs'[j] = IF jobs[j].step = "queued" THEN jobs[j] ELSE Idle
      /\ \A r \in Pruners : pruners'[r] = AtRest
  BY <1>0, RestartSteps
<1>2. JobsInv'
  BY <1>1, IdleJob DEF IInv, JobsInv, JobOK
<1>3. PrunersInv'
  BY <1>1, RestPruner DEF PrunersInv, PrunerOK
<1> QED BY <1>1, <1>2, <1>3, RowsInvKept DEF IInv

\* What leaves rows, jobs and prunes alone.
LEMMA QuietInv ==
  ASSUME IInv, UNCHANGED <<rows, jobs, pruners, stored, temps, tracked>>, CountsTyped
  PROVE  IInv'
<1>0. TypeOK
  BY DEF IInv
<1>1. TypeOK'
  BY <1>0, SameRows, SameJobs, SamePruners, SameStore, TypeParts
<1>2. JobsInv'
  BY DEF IInv, JobsInv, JobOK
<1>3. RowsInv' /\ RowsMove
  BY <1>0, SameRows, StayMove, RowsInvKept DEF IInv
<1>4. PrunersInv'
  BY <1>0, <1>3, PrunerKept DEF IInv, PrunersInv
<1> QED BY <1>1, <1>2, <1>3, <1>4 DEF IInv

LEMMA DayCounts == ASSUME TypeOK, DaysPass PROVE CountsTyped
<1>1. day' \in Days
  BY DEF DaysPass
<1> QED BY <1>1 DEF CountsTyped, TypeOK, DaysPass
-----------------------------------------------------------------------------
(* The steps *)

\* A submission: a run of a policy, or a verification or restore of a backup.
Submits(j, kind, on) ==
  /\ Submit(j, kind, on)
  /\ IF kind = "run" THEN on \in Policies ELSE on \in Backups
  /\ IF kind \in {"isolated", "inPlace"} THEN SubmitRestore(j, on, kind) ELSE late' = late

JobKinds == Kinds \ {"none"}

LEMMA Submissions ==
  ASSUME NEW j \in Jobs,
         \/ \E p \in Policies : SubmitRun(j, p)
         \/ \E b \in Backups : SubmitVerify(j, b)
         \/ \E b \in Backups, mode \in {"isolated", "inPlace"} : SubmitRestore(j, b, mode)
  PROVE  \E kind \in JobKinds, on \in Policies \union Backups : Submits(j, kind, on)
<1>0. /\ "run" \in JobKinds /\ "verify" \in JobKinds /\ "isolated" \in JobKinds
      /\ "inPlace" \in JobKinds
  BY DEF JobKinds, Kinds
<1>1. CASE \E p \in Policies : SubmitRun(j, p)
  <2> PICK p \in Policies : SubmitRun(j, p)
    BY <1>1
  <2>1. Submits(j, "run", p)
    BY DEF SubmitRun, Submits
  <2> QED BY <1>0, <2>1
<1>2. CASE \E b \in Backups : SubmitVerify(j, b)
  <2> PICK b \in Backups : SubmitVerify(j, b)
    BY <1>2
  <2>1. Submits(j, "verify", b)
    BY DEF SubmitVerify, Submits
  <2> QED BY <1>0, <2>1
<1>3. CASE \E b \in Backups, mode \in {"isolated", "inPlace"} : SubmitRestore(j, b, mode)
  <2> PICK b \in Backups, mode \in {"isolated", "inPlace"} : SubmitRestore(j, b, mode)
    BY <1>3
  <2>1. Submits(j, mode, b)
    BY DEF SubmitRestore, Submits
  <2>2. mode \in JobKinds
    BY <1>0
  <2> QED BY <2>1, <2>2
<1> QED BY <1>1, <1>2, <1>3

JobActs(j) ==
  \/ \E kind \in JobKinds, on \in Policies \union Backups : Submits(j, kind, on)
  \/ \E b \in Backups : CreateBackup(j, b)
  \/ \E c \in Contents : PutContent(j, c)
  \/ StreamFails(j) \/ RunFinishes(j) \/ Verified(j) \/ Carries(j)
PruneActs(r) == Considers(r) \/ PruneMark(r) \/ PruneRemove(r)

LEMMA Steps ==
  ASSUME [Next]_vars
  PROVE  \/ \E j \in Jobs : JobActs(j)
         \/ \E r \in Pruners : PruneActs(r)
         \/ Restart
         \/ DaysPass
         \/ UNCHANGED vars
<1>1. ASSUME NEW j \in Jobs, JobNext(j) PROVE JobActs(j)
  <2>1. ASSUME \/ \E p \in Policies : SubmitRun(j, p)
               \/ \E b \in Backups : SubmitVerify(j, b)
               \/ \E b \in Backups, mode \in {"isolated", "inPlace"} : SubmitRestore(j, b, mode)
        PROVE  JobActs(j)
    BY <2>1, Submissions DEF JobActs
  <2> QED BY <1>1, <2>1 DEF JobNext, JobActs, Carries
<1>2. ASSUME NEW r \in Pruners, PruneNext(r) PROVE PruneActs(r)
  BY <1>2 DEF PruneNext, PruneActs, Considers
<1> QED BY <1>1, <1>2 DEF Next

LEMMA InitInv == Init => IInv
<1> SUFFICES ASSUME Init PROVE IInv
  OBVIOUS
<1>0. 0 \in Days /\ MaxFaults \in Nat
  BY BackupAssumption
<1>1. NoRow \in BackupRow /\ NoRow.status = "none"
  BY <1>0 DEF NoRow, BackupRow, Statuses
<1>2. rows \in [Backups -> BackupRow] /\ \A b \in Backups : rows[b].status = "none"
  BY <1>1 DEF Init
<1>3. jobs \in [Jobs -> Job] /\ \A j \in Jobs : jobs[j].kind = "none" /\ jobs[j].step = "idle"
  BY IdleJob DEF Init
<1>4. /\ pruners \in [Pruners -> Pruner]
      /\ \A r \in Pruners : pruners[r].step = "idle" /\ pruners[r].todo = {}
  BY RestPruner DEF Init
<1>5. stored \subseteq Contents /\ temps \subseteq Temps /\ tracked \in [Policies -> SUBSET Temps]
  BY DEF Init
<1>6. day \in Days /\ faults \in 0 .. MaxFaults
  BY <1>0 DEF Init
<1>7. TypeOK
  BY <1>2, <1>3, <1>4, <1>5, <1>6 DEF TypeOK, BackupRow, Job, Pruner
<1> QED BY <1>2, <1>3, <1>4, <1>7 DEF IInv, JobsInv, JobOK, RowsInv, PrunersInv, PrunerOK

LEMMA NextInv == IInv /\ [Next]_vars => IInv'
<1> SUFFICES ASSUME IInv, [Next]_vars PROVE IInv'
  OBVIOUS
<1>0. TypeOK
  BY DEF IInv
<1>1. ASSUME NEW j \in Jobs, JobActs(j) PROVE IInv'
  <2>1. CASE \E kind \in JobKinds, on \in Policies \union Backups : Submits(j, kind, on)
    <3> PICK kind \in JobKinds, on \in Policies \union Backups : Submits(j, kind, on)
      BY <2>1
    <3>1. kind \in Kinds /\ (kind = "run" => on \in Policies) /\ Submit(j, kind, on)
      BY DEF JobKinds, Submits
    <3> QED BY <3>1, SubmitInv
  <2> QED BY <1>1, <2>1, CreateInv, PutInv, RunEndInv, VerifiedInv, CarriesInv DEF JobActs
<1>2. ASSUME NEW r \in Pruners, PruneActs(r) PROVE IInv'
  BY <1>2, ConsidersInv, MarkInvKept, RemoveInvKept DEF PruneActs
<1>3. CASE DaysPass
  BY <1>0, <1>3, DayCounts, QuietInv DEF DaysPass
<1>4. CASE UNCHANGED vars
  <2>1. CountsTyped
    BY <1>0, <1>4, SameCounts DEF vars
  <2> QED BY <1>4, <2>1, QuietInv DEF vars
<1> QED BY <1>1, <1>2, <1>3, <1>4, RestartInv, Steps

\* The rows, the jobs and the prunes keep their types, runs work on rows of policies, and
\* a prune holds rows that succeeded, having marked the one it counts for (Prune).
THEOREM BackupsInvariant == Spec => []IInv
<1> QED BY InitInv, NextInv, PTL DEF Spec

\* The types of TypeOK.
THEOREM BackupTypes == Spec => []TypeOK
<1>1. IInv => TypeOK
  BY DEF IInv
<1> QED BY <1>1, BackupsInvariant, PTL
-----------------------------------------------------------------------------
(* Rows that are running *)

RunsOn(j, b) ==
  jobs[j].kind = "run" /\ jobs[j].backup = b /\ jobs[j].step \in {"stream", "finish"}
InRun(j) == jobs[j].step \in {"stream", "finish"}

LEMMA RunKept ==
  ASSUME RunningHasRun, stranded \subseteq stranded',
         \A i \in Jobs : InRun(i) => jobs'[i] = jobs[i],
         \A b \in Backups : rows'[b].status = "running" => rows[b].status = "running"
  PROVE  RunningHasRun'
<1> SUFFICES ASSUME NEW b \in Backups, b \notin stranded', rows'[b].status = "running"
             PROVE  \E i \in Jobs : RunsOn(i, b)'
  BY DEF RunningHasRun, RunsOn
<1>1. b \in Backups \ stranded /\ rows[b].status = "running"
  OBVIOUS
<1>2. PICK i \in Jobs : RunsOn(i, b)
  BY <1>1 DEF RunningHasRun, RunsOn
<1>3. jobs'[i] = jobs[i]
  BY <1>2 DEF RunsOn, InRun
<1>4. RunsOn(i, b)'
  BY <1>2, <1>3 DEF RunsOn
<1> QED BY <1>4

\* The same while one run goes on: it keeps its row.
LEMMA RunGoesOn ==
  ASSUME RunningHasRun, NEW j \in Jobs, NEW d \in Backups, OthersStay(j), RunsOn(j, d)',
         InRun(j) => jobs[j].backup = d, stranded' = stranded,
         \A b \in Backups \ {d} : rows'[b].status = "running" => rows[b].status = "running"
  PROVE  RunningHasRun'
<1> SUFFICES ASSUME NEW b \in Backups, b \notin stranded', rows'[b].status = "running"
             PROVE  \E i \in Jobs : RunsOn(i, b)'
  BY DEF RunningHasRun, RunsOn
<1>1. CASE b = d
  BY <1>1
<1>2. CASE b # d
  <2>1. b \in Backups \ stranded /\ rows[b].status = "running"
    BY <1>2
  <2>2. PICK i \in Jobs : RunsOn(i, b)
    BY <2>1 DEF RunningHasRun, RunsOn
  <2>3. i # j
    BY <1>2, <2>2 DEF RunsOn, InRun
  <2>4. jobs'[i] = jobs[i]
    BY <2>3 DEF OthersStay
  <2>5. RunsOn(i, b)'
    BY <2>2, <2>4 DEF RunsOn
  <2> QED BY <2>5
<1> QED BY <1>1, <1>2

\* The end of a run: its own row is closed, or it was stranded.
LEMMA RunEndRun ==
  ASSUME IInv, RunningHasRun, NEW j \in Jobs, StreamFails(j) \/ RunFinishes(j)
  PROVE  RunningHasRun'
<1> DEFINE d == jobs[j].backup
<1>1. /\ d \in Backups /\ \A x \in Backups \ {d} : RowStays(x)
      /\ \/ UNCHANGED rows /\ stranded' = stranded \union {d}
         \/ rows[d].status # "running" /\ RowStays(d) /\ stranded' = stranded
         \/ RowEnds(d) /\ stranded' = stranded
  BY RunEndRows
<1>2. OthersStay(j)
  BY RunEndInv
<1> SUFFICES ASSUME NEW b \in Backups, b \notin stranded', rows'[b].status = "running"
             PROVE  \E i \in Jobs : RunsOn(i, b)'
  BY DEF RunningHasRun, RunsOn
<1> HIDE DEF d
<1>3. b # d
  BY <1>1 DEF RowStays, RowEnds
<1>4. b \in Backups \ stranded /\ rows[b].status = "running"
  BY <1>1, <1>3 DEF RowStays
<1>5. PICK i \in Jobs : RunsOn(i, b)
  BY <1>4 DEF RunningHasRun, RunsOn
<1>6. i # j
  BY <1>3, <1>5 DEF RunsOn, d
<1>7. jobs'[i] = jobs[i]
  BY <1>6, <1>2 DEF OthersStay
<1>8. RunsOn(i, b)'
  BY <1>5, <1>7 DEF RunsOn
<1> QED BY <1>8

LEMMA RunningJob ==
  ASSUME IInv, RunningHasRun, NEW j \in Jobs, JobActs(j)
  PROVE  RunningHasRun'
<1>0. TypeOK
  BY DEF IInv
<1>1. CASE \E kind \in JobKinds, on \in Policies \union Backups : Submits(j, kind, on)
  <2> PICK kind \in JobKinds, on \in Policies \union Backups : Submits(j, kind, on)
    BY <1>1
  <2>1. kind \in Kinds /\ Submit(j, kind, on)
    BY DEF JobKinds, Submits
  <2>2. OthersStay(j) /\ ~InRun(j) /\ rows' = rows /\ stranded' = stranded
    BY <1>0, <2>1, SubmitJob DEF Submit, InRun
  <2> QED BY <2>2, RunKept DEF OthersStay
<1>2. CASE \E b \in Backups : CreateBackup(j, b)
  <2> PICK b \in Backups : CreateBackup(j, b)
    BY <1>2
  <2>1. /\ OthersStay(j) /\ jobs'[j].step = "stream" /\ jobs'[j].backup = b
        /\ jobs'[j].kind = "run"
    BY <1>0, CreateJob
  <2>2. \A x \in Backups \ {b} : RowStays(x)
    BY CreateRow
  <2>3. RunsOn(j, b)'
    BY <2>1 DEF RunsOn
  <2>4. stranded' = stranded /\ ~InRun(j)
    BY DEF CreateBackup, history, InRun, At
  <2> QED BY <2>1, <2>2, <2>3, <2>4, RunGoesOn DEF RowStays
<1>3. CASE \E c \in Contents : PutContent(j, c)
  <2> PICK c \in Contents : PutContent(j, c)
    BY <1>3
  <2>1. /\ OthersStay(j) /\ jobs'[j].step = "finish" /\ jobs'[j].kind = jobs[j].kind
        /\ jobs'[j].backup = jobs[j].backup
    BY <1>0, PutJob
  <2>2. jobs[j].backup \in Backups /\ jobs[j].kind = "run"
    BY DEF PutContent, At, IInv, JobsInv, JobOK
  <2> PICK d \in Backups : d = jobs[j].backup
    BY <2>2
  <2>3. RunsOn(j, d)'
    BY <2>1, <2>2 DEF RunsOn
  <2>4. rows' = rows /\ stranded' = stranded
    BY DEF PutContent, history
  <2> QED BY <2>1, <2>3, <2>4, RunGoesOn
<1>4. CASE StreamFails(j) \/ RunFinishes(j)
  BY <1>4, RunEndRun
<1>5. CASE Verified(j)
  <2>1. OthersStay(j) /\ RowsStay
    BY <1>5, VerifiedInv
  <2>2. ~InRun(j) /\ stranded' = stranded
    BY <1>5 DEF Verified, At, history, InRun
  <2> QED BY <2>1, <2>2, RunKept DEF OthersStay, RowsStay, RowStays
<1>6. CASE Carries(j)
  <2>1. OthersStay(j) /\ ~InRun(j) /\ rows' = rows /\ stranded' = stranded
    BY <1>0, <1>6, CarriesJob DEF InRun
  <2> QED BY <2>1, RunKept DEF OthersStay
<1> QED BY <1>1, <1>2, <1>3, <1>4, <1>5, <1>6 DEF JobActs

LEMMA RunningNext == IInv /\ RunningHasRun /\ [Next]_vars => RunningHasRun'
<1> SUFFICES ASSUME IInv, RunningHasRun, [Next]_vars PROVE RunningHasRun'
  OBVIOUS
<1>0. TypeOK
  BY DEF IInv
<1>1. ASSUME NEW r \in Pruners, PruneActs(r) PROVE RunningHasRun'
  <2>1. jobs' = jobs /\ stranded' = stranded
    BY <1>1 DEF PruneActs, Considers, PruneList, PruneAsk, PruneEnds, PruneCount, PruneMark,
                PruneRemove, history
  <2>2. CASE Considers(r) \/ PruneRemove(r)
    <3>1. RowsStay
      BY <1>0, <2>2, ConsidersStay, RemoveSteps
    <3> QED BY <2>1, <3>1, RunKept DEF RowsStay, RowStays
  <2>3. CASE PruneMark(r)
    <3>1. /\ pruners[r].backup \in Backups
          /\ \A x \in Backups \ {pruners[r].backup} : RowStays(x)
          /\ \/ RowPruned(pruners[r].backup)
             \/ RowStays(pruners[r].backup) /\ rows[pruners[r].backup].status = "pruned"
      BY <2>3, MarkSteps
    <3>2. \A b \in Backups : rows'[b].status = "running" => rows[b].status = "running"
      BY <3>1 DEF RowStays, RowPruned
    <3> QED BY <2>1, <3>2, RunKept
  <2> QED BY <1>1, <2>2, <2>3 DEF PruneActs
<1>2. CASE Restart
  <2>1. \A b \in Backups : IF rows[b].status = "running"
                           THEN rows'[b].status = "failed" ELSE RowStays(b)
    BY <1>0, <1>2, RestartSteps
  <2>2. \A b \in Backups : rows'[b].status # "running"
    BY <2>1 DEF RowStays
  <2> QED BY <2>2 DEF RunningHasRun
<1>3. CASE DaysPass \/ UNCHANGED vars
  <2>1. UNCHANGED <<rows, jobs, stranded>>
    BY <1>3 DEF DaysPass, vars, history
  <2> QED BY <2>1, RunKept
<1> QED BY <1>1, <1>2, <1>3, RunningJob, Steps

\* A row is running only while a run works on it or when its result could not be written,
\* and a restart leaves none (FailStaleBackups).
THEOREM RunningRowsHaveRuns == Spec => []RunningHasRun
<1>1. Init => RunningHasRun
  BY DEF Init, NoRow, RunningHasRun
<1> QED BY <1>1, RunningNext, BackupsInvariant, PTL DEF Spec
-----------------------------------------------------------------------------
(* Restores that were accepted *)

RestoreWaits(j) == At(j, {"isolated", "inPlace"}, "queued")

\* A prune at its mark asked when no operation was on the backup: a restore that waits
\* for it now came in late.
WaitsOK(j) == RestoreWaits(j) =>
  /\ jobs[j].on \in Backups
  /\ j \notin late => rows[jobs[j].on].status = "succeeded"
MarkOK(r, j) ==
  pruners[r].step = "mark" /\ RestoreWaits(j) /\ jobs[j].on = pruners[r].backup => j \in late
SpareInv ==
  /\ \A j \in Jobs : WaitsOK(j)
  /\ \A r \in Pruners, j \in Jobs : MarkOK(r, j)

\* What was waiting waits on, as late as it was.
WaitsOn(j) == RestoreWaits(j)' => /\ RestoreWaits(j) /\ jobs'[j] = jobs[j]
                                  /\ j \in late => j \in late'
NoNewMark(r) == pruners'[r].step = "mark" => pruners'[r] = pruners[r]
NoneLost == \A b \in Backups : rows[b].status = "succeeded" => rows'[b].status = "succeeded"

LEMMA WaitsKept ==
  ASSUME NEW j \in Jobs, WaitsOK(j), WaitsOn(j), NoneLost
  PROVE  WaitsOK(j)'
  BY DEF WaitsOK, WaitsOn, NoneLost, RestoreWaits

LEMMA MarkKept ==
  ASSUME NEW j \in Jobs, NEW r \in Pruners, MarkOK(r, j), WaitsOn(j), NoNewMark(r)
  PROVE  MarkOK(r, j)'
  BY DEF MarkOK, WaitsOn, NoNewMark, RestoreWaits

LEMMA SpareKept ==
  ASSUME SpareInv, \A j \in Jobs : WaitsOn(j), \A r \in Pruners : NoNewMark(r), NoneLost
  PROVE  SpareInv'
  BY WaitsKept, MarkKept DEF SpareInv

\* One job moves, and does not wait for a restore afterwards.
LEMMA OthersWait ==
  ASSUME NEW j \in Jobs, OthersStay(j), jobs'[j].step # "queued",
         \A i \in Jobs \ {j} : i \in late => i \in late'
  PROVE  \A i \in Jobs : WaitsOn(i)
  BY DEF OthersStay, WaitsOn, RestoreWaits, At

\* A job creates rows and closes them; it loses none that succeeded and prunes none.
RowsWork == \A b \in Backups : RowStays(b) \/ RowCreated(b) \/ RowEnds(b)
NonePruned == \A b \in Backups : rows'[b].status = "pruned" => rows[b].status = "pruned"

LEMMA WorkKeeps == ASSUME RowsWork PROVE RowsMove /\ NoneLost /\ NonePruned
  BY DEF RowsWork, RowsMove, RowMoves, NoneLost, NonePruned, RowStays, RowCreated, RowEnds

LEMMA JobRows ==
  ASSUME IInv, NEW j \in Jobs, JobActs(j)
  PROVE  RowsWork /\ pruners' = pruners
<1>0. TypeOK
  BY DEF IInv
<1>1. ASSUME rows' = rows PROVE RowsWork
  BY <1>0, <1>1, SameRows DEF RowsStay, RowsWork
<1>2. ASSUME NEW kind \in JobKinds, NEW on \in Policies \union Backups, Submits(j, kind, on)
      PROVE  RowsWork /\ pruners' = pruners
  BY <1>1, <1>2 DEF Submits, Submit
<1>3. ASSUME NEW b \in Backups, CreateBackup(j, b) PROVE RowsWork /\ pruners' = pruners
  <2>1. RowCreated(b) /\ \A x \in Backups \ {b} : RowStays(x)
    BY <1>3, CreateRow
  <2> QED BY <1>3, <2>1 DEF CreateBackup, RowsWork
<1>4. ASSUME NEW c \in Contents, PutContent(j, c) PROVE RowsWork /\ pruners' = pruners
  BY <1>1, <1>4 DEF PutContent
<1>5. ASSUME StreamFails(j) \/ RunFinishes(j) PROVE RowsWork /\ pruners' = pruners
  <2>1. /\ jobs[j].backup \in Backups /\ \A x \in Backups \ {jobs[j].backup} : RowStays(x)
        /\ UNCHANGED rows \/ RowStays(jobs[j].backup) \/ RowEnds(jobs[j].backup)
    BY <1>5, RunEndRows
  <2>2. RowsWork
    BY <1>1, <2>1 DEF RowsWork
  <2> QED BY <1>5, <2>2 DEF StreamFails, RunFinishes
<1>6. ASSUME Verified(j) PROVE RowsWork /\ pruners' = pruners
  <2>1. RowsStay
    BY <1>6, VerifiedInv
  <2> QED BY <1>6, <2>1 DEF Verified, RowsWork, RowsStay
<1>7. ASSUME Carries(j) PROVE RowsWork /\ pruners' = pruners
  BY <1>0, <1>1, <1>7, CarriesJob
<1> QED BY <1>2, <1>3, <1>4, <1>5, <1>6, <1>7 DEF JobActs

LEMMA SubmitSpares ==
  ASSUME IInv, SpareInv, NEW j \in Jobs, NEW kind \in JobKinds,
         NEW on \in Policies \union Backups, Submits(j, kind, on)
  PROVE  SpareInv'
<1>1. kind \in Kinds /\ Submit(j, kind, on) /\ TypeOK
  BY DEF JobKinds, Submits, IInv
<1>2. /\ OthersStay(j)
      /\ jobs'[j].kind = kind /\ jobs'[j].on = on /\ jobs'[j].step = "queued"
  BY <1>1, SubmitJob
<1>3. rows' = rows /\ pruners' = pruners
  BY <1>1 DEF Submit
<1>4. \A i \in late : i \in late'
  BY DEF Submits, SubmitRestore
<1>5. \A i \in Jobs \ {j} : WaitsOn(i)
  BY <1>2, <1>4 DEF OthersStay, WaitsOn, RestoreWaits, At
<1>6. NoneLost /\ \A r \in Pruners : NoNewMark(r)
  BY <1>3 DEF NoneLost, NoNewMark
<1>7. CASE kind \notin {"isolated", "inPlace"}
  <2>1. WaitsOn(j)
    BY <1>2, <1>7 DEF WaitsOn, RestoreWaits, At
  <2> QED BY <1>5, <1>6, <2>1, SpareKept
<1>8. CASE kind \in {"isolated", "inPlace"}
  <2>1. /\ rows[on].status = "succeeded" /\ on \in Backups
        /\ (\E r \in Pruners : pruners[r].step = "mark" /\ pruners[r].backup = on) => j \in late'
    BY <1>8 DEF Submits, SubmitRestore
  <2>2. WaitsOK(j)'
    BY <1>2, <1>3, <2>1 DEF WaitsOK
  <2>3. \A r \in Pruners : MarkOK(r, j)'
    BY <1>2, <1>3, <2>1 DEF MarkOK
  <2>4. \A i \in Jobs \ {j} : WaitsOK(i)'
    BY <1>5, <1>6, WaitsKept DEF SpareInv
  <2>5. \A r \in Pruners, i \in Jobs \ {j} : MarkOK(r, i)'
    BY <1>5, <1>6, MarkKept DEF SpareInv
  <2> QED BY <2>2, <2>3, <2>4, <2>5 DEF SpareInv
<1> QED BY <1>7, <1>8

\* The end of a job: it waits for nothing, and no row of a succeeded backup is lost.
LEMMA WorkSpares ==
  ASSUME IInv, SpareInv, NEW j \in Jobs,
         \/ \E b \in Backups : CreateBackup(j, b)
         \/ \E c \in Contents : PutContent(j, c)
         \/ StreamFails(j) \/ RunFinishes(j) \/ Verified(j) \/ Carries(j)
  PROVE  SpareInv'
<1>0. TypeOK /\ JobActs(j)
  BY DEF IInv, JobActs
<1> DEFINE Goal == /\ OthersStay(j) /\ jobs'[j].step # "queued"
                   /\ \A i \in Jobs \ {j} : i \in late => i \in late'
<1>1. ASSUME NEW b \in Backups, CreateBackup(j, b) PROVE Goal
  <2>1. OthersStay(j) /\ jobs'[j].step = "stream"
    BY <1>0, <1>1, CreateJob
  <2> QED BY <1>1, <2>1 DEF CreateBackup, history
<1>2. ASSUME NEW c \in Contents, PutContent(j, c) PROVE Goal
  <2>1. OthersStay(j) /\ jobs'[j].step = "finish"
    BY <1>0, <1>2, PutJob
  <2> QED BY <1>2, <2>1 DEF PutContent, history
<1>3. ASSUME StreamFails(j) \/ RunFinishes(j) PROVE Goal
  <2>1. OthersStay(j) /\ jobs'[j].step = "cleanup"
    BY <1>3, RunEndInv
  <2> QED BY <1>3, <2>1 DEF StreamFails, RunFinishes
<1>4. ASSUME Verified(j) PROVE Goal
  <2>1. OthersStay(j) /\ jobs'[j].step = "cleanup"
    BY <1>4, VerifiedInv
  <2> QED BY <1>4, <2>1 DEF Verified, history
<1>5. ASSUME Carries(j) PROVE Goal
  <2>1. OthersStay(j) /\ jobs'[j].step \in OutOfRun
    BY <1>0, <1>5, CarriesJob
  <2>2. late' = late \/ late' = late \ {j}
    BY <1>5 DEF Carries, RunRefused, OpenFails, OpenVerify, OpenInPlace, RestoreInPlace,
                OpenIsolated, RestoreIsolated, DropTemp, Cleanup, history
  <2> QED BY <2>1, <2>2 DEF OutOfRun
<1>6. Goal
  BY <1>1, <1>2, <1>3, <1>4, <1>5
<1>7. \A i \in Jobs : WaitsOn(i)
  BY <1>6, OthersWait
<1>8. NoneLost /\ \A r \in Pruners : NoNewMark(r)
  BY <1>0, JobRows, WorkKeeps DEF NoNewMark
<1> QED BY <1>7, <1>8, SpareKept

\* The question: a restore that waits for the backup is an incomplete operation on it.
LEMMA AskSpares ==
  ASSUME IInv, SpareInv, NEW r \in Pruners, PruneAsk(r)
  PROVE  SpareInv'
<1>1. UNCHANGED <<rows, jobs, late>>
  BY DEF PruneAsk, history
<1>2. /\ PrunersMove(r)
      /\ pruners'[r].step = "mark" => ~Incomplete(pruners'[r].backup)
  BY AskPruner DEF IInv
<1>3. NoneLost /\ \A j \in Jobs : WaitsOn(j)
  BY <1>1 DEF NoneLost, WaitsOn, RestoreWaits, At
<1>4. \A j \in Jobs : WaitsOK(j)'
  BY <1>3, WaitsKept DEF SpareInv
<1>5. \A j \in Jobs : MarkOK(r, j)'
  BY <1>1, <1>2 DEF MarkOK, RestoreWaits, At, Incomplete
<1>6. \A q \in Pruners \ {r} : NoNewMark(q)
  BY <1>2 DEF PrunersMove, NoNewMark
<1>7. \A q \in Pruners \ {r}, j \in Jobs : MarkOK(q, j)'
  BY <1>3, <1>6, MarkKept DEF SpareInv
<1> QED BY <1>4, <1>5, <1>7 DEF SpareInv

\* The mark takes the backup of no restore that came before the question.
LEMMA MarkSpares ==
  ASSUME IInv, SpareInv, NEW r \in Pruners, PruneMark(r)
  PROVE  SpareInv'
<1>1. UNCHANGED <<jobs, late>>
  BY DEF PruneMark, history
<1>2. /\ pruners[r].backup \in Backups /\ pruners[r].step = "mark"
      /\ \A x \in Backups \ {pruners[r].backup} : RowStays(x)
      /\ PrunersMove(r) /\ pruners'[r].step = "count"
  BY MarkSteps
<1>3. \A j \in Jobs : WaitsOn(j)
  BY <1>1 DEF WaitsOn, RestoreWaits, At
<1>4. \A q \in Pruners : NoNewMark(q)
  BY <1>2 DEF PrunersMove, NoNewMark
<1>5. \A q \in Pruners, j \in Jobs : MarkOK(q, j)'
  BY <1>3, <1>4, MarkKept DEF SpareInv
<1>6. ASSUME NEW j \in Jobs PROVE WaitsOK(j)'
  <2> SUFFICES ASSUME RestoreWaits(j)'
               PROVE  /\ jobs'[j].on \in Backups
                      /\ j \notin late' => rows'[jobs'[j].on].status = "succeeded"
    BY DEF WaitsOK
  <2>1. RestoreWaits(j) /\ jobs'[j].on = jobs[j].on
    BY <1>1 DEF RestoreWaits, At
  <2>2. jobs[j].on \in Backups /\ (j \notin late => rows[jobs[j].on].status = "succeeded")
    BY <2>1 DEF SpareInv, WaitsOK
  <2>3. j \notin late => jobs[j].on # pruners[r].backup
    BY <1>2, <2>1 DEF SpareInv, MarkOK
  <2> QED BY <1>1, <1>2, <2>1, <2>2, <2>3 DEF RowStays
<1> QED BY <1>5, <1>6 DEF SpareInv

LEMMA SpareNext == IInv /\ SpareInv /\ [Next]_vars => SpareInv'
<1> SUFFICES ASSUME IInv, SpareInv, [Next]_vars PROVE SpareInv'
  OBVIOUS
<1>0. TypeOK
  BY DEF IInv
<1>1. ASSUME NEW j \in Jobs, JobActs(j) PROVE SpareInv'
  BY <1>1, SubmitSpares, WorkSpares DEF JobActs
<1>2. ASSUME NEW r \in Pruners, PruneActs(r) PROVE SpareInv'
  <2>1. CASE (\E p \in Policies : PruneList(r, p)) \/ PruneEnds(r) \/ PruneCount(r) \/ PruneRemove(r)
    <3>1. UNCHANGED <<rows, jobs, late>>
      BY <2>1 DEF PruneList, PruneEnds, PruneCount, PruneRemove, history
    <3>2. PrunersMove(r) /\ pruners'[r].step # "mark"
      BY <1>0, <2>1, ListPruner, EndPruner, CountPruner, RemoveSteps DEF PruneEnds
    <3>3. NoneLost /\ \A j \in Jobs : WaitsOn(j)
      BY <3>1 DEF NoneLost, WaitsOn, RestoreWaits, At
    <3>4. \A q \in Pruners : NoNewMark(q)
      BY <3>2 DEF PrunersMove, NoNewMark
    <3> QED BY <3>3, <3>4, SpareKept
  <2> QED BY <1>2, <2>1, AskSpares, MarkSpares DEF PruneActs, Considers
<1>3. CASE Restart
  <2>1. /\ \A b \in Backups : IF rows[b].status = "running"
                              THEN rows'[b].status = "failed" ELSE RowStays(b)
        /\ \A j \in Jobs : jobs'[j] = IF jobs[j].step = "queued" THEN jobs[j] ELSE Idle
        /\ \A r \in Pruners : pruners'[r] = AtRest
    BY <1>0, <1>3, RestartSteps
  <2>2. NoneLost
    BY <2>1 DEF NoneLost, RowStays
  <2>3. late' = {j \in late : jobs[j].step = "queued"}
    BY <1>3 DEF Restart
  <2>4. \A j \in Jobs : WaitsOn(j)
    BY <2>1, <2>3, IdleJob DEF WaitsOn, RestoreWaits, At
  <2>5. \A r \in Pruners : NoNewMark(r)
    BY <2>1, RestPruner DEF NoNewMark
  <2> QED BY <2>2, <2>4, <2>5, SpareKept
<1>4. CASE DaysPass \/ UNCHANGED vars
  <2>1. UNCHANGED <<rows, jobs, pruners, late>>
    BY <1>4 DEF DaysPass, vars, history
  <2>2. NoneLost /\ (\A j \in Jobs : WaitsOn(j)) /\ \A r \in Pruners : NoNewMark(r)
    BY <2>1 DEF NoneLost, WaitsOn, RestoreWaits, At, NoNewMark
  <2> QED BY <2>2, SpareKept
<1> QED BY <1>1, <1>2, <1>3, <1>4, Steps

\* A restore that was accepted keeps its backup while it waits, whatever is pruned, unless
\* it came in between the question of a prune and its mark (HasIncompleteOperation).
THEOREM WaitingRestoreIsSpared == Spec => []AcceptedRestoreIsSpared
<1>1. Init => SpareInv
  BY DEF Init, Idle, AtRest, SpareInv, WaitsOK, MarkOK, RestoreWaits, At
<1>2. SpareInv => AcceptedRestoreIsSpared
  BY DEF SpareInv, WaitsOK, RestoreWaits, AcceptedRestoreIsSpared
<1> QED BY <1>1, <1>2, SpareNext, BackupsInvariant, PTL DEF Spec
-----------------------------------------------------------------------------
(* Contents *)

\* A row that counts as succeeded, but for those that finished under a removal.
Counts(b) == rows[b].status = "succeeded" /\ b \notin raced
Finishing(j) == jobs[j].step = "finish"

\* The content a run is about to name is stored, and what a prune is about to remove is
\* no content of a succeeded row: from the count to the removal only a race can change it.
ContentOK(b) == Counts(b) => rows[b].content \in stored
FinishOK(j) == Finishing(j) => jobs[j].content \in stored \/ jobs[j].backup \in raced
RemoveOK(r) == pruners[r].step = "remove" =>
  \A b \in Backups : Counts(b) => rows[b].content # rows[pruners[r].backup].content
HoldInv ==
  /\ \A b \in Backups : ContentOK(b)
  /\ \A j \in Jobs : FinishOK(j)
  /\ \A r \in Pruners : RemoveOK(r)

NoneSucceeds == \A b \in Backups : rows'[b].status = "succeeded" =>
  rows[b].status = "succeeded" /\ rows'[b].content = rows[b].content
NoNewFinish == \A j \in Jobs : Finishing(j)' => jobs'[j] = jobs[j]
NoNewRemove == \A r \in Pruners : pruners'[r].step = "remove" => pruners'[r] = pruners[r]

LEMMA ContentKept ==
  ASSUME NEW b \in Backups, ContentOK(b), NoneSucceeds, raced \subseteq raced',
         stored \subseteq stored'
  PROVE  ContentOK(b)'
  BY DEF ContentOK, NoneSucceeds, Counts

LEMMA FinishKept ==
  ASSUME NEW j \in Jobs, FinishOK(j), Finishing(j)' => jobs'[j] = jobs[j],
         raced \subseteq raced', stored \subseteq stored'
  PROVE  FinishOK(j)'
  BY DEF FinishOK, Finishing

LEMMA RemoveKept ==
  ASSUME IInv, NEW r \in Pruners, RemoveOK(r), RowsMove, NoneSucceeds, raced \subseteq raced',
         pruners'[r].step = "remove" => pruners'[r] = pruners[r]
  PROVE  RemoveOK(r)'
<1> SUFFICES ASSUME pruners'[r].step = "remove", NEW b \in Backups, Counts(b)'
             PROVE  rows'[b].content # rows'[pruners'[r].backup].content
  BY DEF RemoveOK
<1>1. pruners'[r] = pruners[r] /\ pruners[r].step = "remove"
  OBVIOUS
<1>2. pruners[r].backup \in Backups /\ Settled(pruners[r].backup)
  BY <1>1 DEF IInv, PrunersInv, PrunerOK, Settled
<1>3. rows'[pruners[r].backup].content = rows[pruners[r].backup].content
  BY <1>2, SettledKept
<1>4. Counts(b) /\ rows'[b].content = rows[b].content
  BY DEF Counts, NoneSucceeds
<1> QED BY <1>1, <1>3, <1>4 DEF RemoveOK

LEMMA HoldKept ==
  ASSUME IInv, HoldInv, RowsMove, NoneSucceeds, NoNewFinish, NoNewRemove,
         raced \subseteq raced', stored \subseteq stored'
  PROVE  HoldInv'
<1>1. \A b \in Backups : ContentOK(b)'
  BY ContentKept DEF HoldInv
<1>2. \A j \in Jobs : FinishOK(j)'
  BY FinishKept DEF HoldInv, NoNewFinish
<1>3. \A r \in Pruners : RemoveOK(r)'
  BY RemoveKept DEF HoldInv, NoNewRemove
<1> QED BY <1>1, <1>2, <1>3 DEF HoldInv

LEMMA StaySucceeds == ASSUME RowsStay PROVE NoneSucceeds
  BY DEF RowsStay, RowStays, NoneSucceeds

LEMMA OthersFinish ==
  ASSUME NEW j \in Jobs, OthersStay(j), jobs'[j].step # "finish"
  PROVE  NoNewFinish
  BY DEF OthersStay, NoNewFinish, Finishing

\* The run names its content: stored already, unless a prune is about to remove it.
LEMMA FinishHolds ==
  ASSUME IInv, HoldInv, NEW j \in Jobs, RunFinishes(j)
  PROVE  HoldInv'
<1> PICK b \in Backups : b = jobs[j].backup
  BY RunEndRows
<1> PICK c \in Contents \union {None} : c = jobs[j].content
  BY DEF RunFinishes, At, IInv, JobsInv, JobOK
<1>0. TypeOK /\ Finishing(j)
  BY DEF IInv, RunFinishes, At, Finishing
<1>1. OthersStay(j) /\ jobs'[j].step = "cleanup"
  BY RunEndInv
<1>2. NoNewFinish /\ pruners' = pruners /\ stored' = stored /\ NoNewRemove
  BY <1>1, OthersFinish DEF RunFinishes, NoNewRemove
<1>3. RowsMove
  BY RunEndRows
<1>4. ASSUME rows' = rows, raced \subseteq raced' PROVE HoldInv'
  <2>1. NoneSucceeds
    BY <1>4 DEF NoneSucceeds
  <2> QED BY <1>2, <1>3, <1>4, <2>1, HoldKept
<1>5. ASSUME FinishBackup(b, "succeeded", c),
             raced' = IF \E r \in Pruners : pruners[r].step = "remove"
                                            /\ rows[pruners[r].backup].content = c
                      THEN raced \union {b} ELSE raced
      PROVE  HoldInv'
  <2>0. raced \subseteq raced' /\ "succeeded" \in {"succeeded", "failed"}
    BY <1>5
  <2>1. /\ \A x \in Backups \ {b} : RowStays(x)
        /\ \/ RowStays(b) /\ rows[b].status # "running"
           \/ RowEnds(b) /\ rows'[b].status = "succeeded" /\ rows'[b].content = c
    BY <1>0, <1>5, <2>0, EndRow
  <2>2. CASE RowStays(b)
    <3>1. NoneSucceeds
      BY <2>1, <2>2 DEF NoneSucceeds, RowStays
    <3> QED BY <1>2, <1>3, <2>0, <3>1, HoldKept
  <2>3. CASE rows'[b].status = "succeeded" /\ rows'[b].content = c
    <3>1. \A i \in Jobs : FinishOK(i)'
      BY <1>2, <2>0, FinishKept DEF HoldInv, NoNewFinish
    <3>2. ASSUME NEW x \in Backups PROVE ContentOK(x)'
      <4>1. CASE x = b
        <5>1. c \in stored \/ b \in raced
          BY <1>0 DEF HoldInv, FinishOK
        <5> QED BY <1>2, <2>0, <2>3, <4>1, <5>1 DEF ContentOK, Counts
      <4>2. CASE x # b
        BY <1>2, <2>0, <2>1, <4>2 DEF HoldInv, ContentOK, Counts, RowStays
      <4> QED BY <4>1, <4>2
    <3>3. ASSUME NEW r \in Pruners PROVE RemoveOK(r)'
      <4> SUFFICES ASSUME pruners[r].step = "remove", NEW x \in Backups, Counts(x)'
                   PROVE  rows'[x].content # rows'[pruners[r].backup].content
        BY <1>2 DEF RemoveOK
      <4>1. pruners[r].backup \in Backups /\ Settled(pruners[r].backup)
        BY DEF IInv, PrunersInv, PrunerOK, Settled
      <4>2. rows'[pruners[r].backup].content = rows[pruners[r].backup].content
        BY <1>3, <4>1, SettledKept
      <4>3. CASE x = b
        BY <1>5, <2>3, <4>2, <4>3 DEF Counts
      <4>4. CASE x # b
        BY <2>0, <2>1, <4>2, <4>4 DEF HoldInv, RemoveOK, Counts, RowStays
      <4> QED BY <4>3, <4>4
    <3> QED BY <3>1, <3>2, <3>3 DEF HoldInv
  <2> QED BY <2>1, <2>2, <2>3
<1> QED BY <1>4, <1>5 DEF RunFinishes

LEMMA WorkHolds ==
  ASSUME IInv, HoldInv, NEW j \in Jobs, JobActs(j)
  PROVE  HoldInv'
<1>0. TypeOK
  BY DEF IInv
<1> DEFINE Goal == /\ RowsMove /\ NoneSucceeds /\ NoNewFinish /\ pruners' = pruners
                   /\ raced' = raced /\ stored' = stored
<1>1. ASSUME Goal PROVE HoldInv'
  BY <1>1, HoldKept DEF NoNewRemove
<1>2. ASSUME NEW kind \in JobKinds, NEW on \in Policies \union Backups, Submits(j, kind, on)
      PROVE  Goal
  <2>1. kind \in Kinds /\ Submit(j, kind, on)
    BY <1>2 DEF JobKinds, Submits
  <2>2. OthersStay(j) /\ jobs'[j].step = "queued" /\ rows' = rows
    BY <1>0, <2>1, SubmitJob DEF Submit
  <2> QED BY <1>0, <2>1, <2>2, SameRows, StayMove, StaySucceeds, OthersFinish DEF Submit
<1>3. ASSUME NEW b \in Backups, CreateBackup(j, b) PROVE Goal
  <2>1. OthersStay(j) /\ jobs'[j].step = "stream"
    BY <1>0, <1>3, CreateJob
  <2>2. RowCreated(b) /\ \A x \in Backups \ {b} : RowStays(x)
    BY <1>3, CreateRow
  <2>3. NoneSucceeds /\ RowsMove
    BY <2>2 DEF NoneSucceeds, RowCreated, RowStays, RowsMove, RowMoves
  <2> QED BY <1>3, <2>1, <2>3, OthersFinish DEF CreateBackup, history
<1>4. ASSUME NEW c \in Contents, PutContent(j, c) PROVE HoldInv'
  <2>1. OthersStay(j) /\ jobs'[j].step = "finish" /\ jobs'[j].content = c
    BY <1>0, <1>4, PutJob
  <2>2. /\ rows' = rows /\ pruners' = pruners /\ raced' = raced /\ stored' = stored \union {c}
    BY <1>4 DEF PutContent, history
  <2>3. RowsMove /\ NoneSucceeds /\ NoNewRemove
    BY <1>0, <2>2, SameRows, StayMove, StaySucceeds DEF NoNewRemove
  <2>4. FinishOK(j)'
    BY <2>1, <2>2 DEF FinishOK
  <2>5. \A i \in Jobs \ {j} : FinishOK(i)'
    BY <2>1, <2>2, FinishKept DEF HoldInv, OthersStay
  <2>6. \A b \in Backups : ContentOK(b)'
    BY <2>2, <2>3, ContentKept DEF HoldInv
  <2>7. \A r \in Pruners : RemoveOK(r)'
    BY <2>2, <2>3, RemoveKept DEF HoldInv, NoNewRemove
  <2> QED BY <2>4, <2>5, <2>6, <2>7 DEF HoldInv
<1>5. ASSUME StreamFails(j) PROVE Goal
  <2>1. OthersStay(j) /\ jobs'[j].step = "cleanup"
    BY <1>5, RunEndInv
  <2>2. jobs[j].backup \in Backups /\ RowsMove
    BY <1>5, RunEndRows
  <2>3. NoneSucceeds
    <3>1. CASE rows' = rows
      BY <3>1 DEF NoneSucceeds
    <3>2. CASE FinishBackup(jobs[j].backup, "failed", None)
      <4> PICK b \in Backups : b = jobs[j].backup
        BY <2>2
      <4>1. "failed" \in {"succeeded", "failed"} /\ None \in Contents \union {None}
        OBVIOUS
      <4>2. /\ \A x \in Backups \ {b} : RowStays(x)
            /\ RowStays(b) \/ rows'[b].status = "failed"
        BY <1>0, <3>2, <4>1, EndRow
      <4> QED BY <4>2 DEF NoneSucceeds, RowStays
    <3> QED BY <1>5, <3>1, <3>2 DEF StreamFails
  <2> QED BY <1>5, <2>1, <2>2, <2>3, OthersFinish DEF StreamFails
<1>6. ASSUME Verified(j) PROVE Goal
  <2>1. OthersStay(j) /\ jobs'[j].step = "cleanup" /\ RowsStay
    BY <1>6, VerifiedInv
  <2> QED BY <1>6, <2>1, StayMove, StaySucceeds, OthersFinish DEF Verified, history
<1>7. ASSUME Carries(j) PROVE Goal
  <2>1. /\ OthersStay(j) /\ jobs'[j].step \in OutOfRun
        /\ UNCHANGED <<rows, stored, pruners, raced, stranded, day>>
    BY <1>0, <1>7, CarriesJob
  <2>2. jobs'[j].step # "finish"
    BY <2>1 DEF OutOfRun
  <2>3. RowsStay
    BY <1>0, <2>1, SameRows
  <2> QED BY <2>1, <2>2, <2>3, StayMove, StaySucceeds, OthersFinish
<1> QED BY <1>1, <1>2, <1>3, <1>4, <1>5, <1>6, <1>7, FinishHolds DEF JobActs

\* The count covers every policy: with nothing counted no row needs the content.
LEMMA CountHolds ==
  ASSUME IInv, HoldInv, NEW r \in Pruners, PruneCount(r)
  PROVE  HoldInv'
<1>0. TypeOK /\ Considers(r)
  BY DEF IInv, Considers
<1>1. /\ UNCHANGED <<rows, stored, jobs, raced>> /\ RowsStay
  BY <1>0, ConsidersStay DEF history
<1>2. /\ PrunersMove(r)
      /\ \/ pruners'[r].step = "ask"
         \/ /\ pruners'[r].step = "remove" /\ pruners'[r].backup = pruners[r].backup
            /\ ~(CountBackupReferences(rows[pruners[r].backup].content) > 0)
  BY <1>0, CountPruner
<1>3. RowsMove /\ NoneSucceeds /\ NoNewFinish
  BY <1>1, StayMove, StaySucceeds DEF NoNewFinish
<1>4. RemoveOK(r)'
  <2> SUFFICES ASSUME pruners'[r].step = "remove", NEW b \in Backups, Counts(b)'
               PROVE  rows'[b].content # rows'[pruners'[r].backup].content
    BY DEF RemoveOK
  <2> DEFINE c == rows[pruners[r].backup].content
             Needs == {x \in Backups : rows[x].content = c /\ rows[x].status # "pruned"}
  <2>1. ~(Cardinality(Needs) > 0)
    BY <1>2 DEF CountBackupReferences
  <2>2. IsFiniteSet(Needs) /\ Cardinality(Needs) \in Nat
    BY FiniteRows
  <2>3. Cardinality(Needs) = 0
    BY <2>1, <2>2
  <2>4. Needs = {}
    BY <2>2, <2>3, FS_EmptySet
  <2>5. rows[b].status = "succeeded"
    BY <1>1 DEF Counts
  <2> QED BY <1>1, <1>2, <2>4, <2>5
<1>5. \A q \in Pruners \ {r} : RemoveOK(q)'
  BY <1>1, <1>2, <1>3, RemoveKept DEF HoldInv, PrunersMove
<1>6. \A b \in Backups : ContentOK(b)'
  BY <1>1, <1>3, ContentKept DEF HoldInv
<1>7. \A j \in Jobs : FinishOK(j)'
  BY <1>1, <1>3, FinishKept DEF HoldInv, NoNewFinish
<1> QED BY <1>4, <1>5, <1>6, <1>7 DEF HoldInv

\* What goes is the content of no succeeded row; a run that was about to name it is noted.
LEMMA RemoveHolds ==
  ASSUME IInv, HoldInv, NEW r \in Pruners, PruneRemove(r)
  PROVE  HoldInv'
<1>0. TypeOK
  BY DEF IInv
<1>1. /\ pruners[r].step = "remove" /\ RowsStay /\ RowsMove /\ jobs' = jobs /\ rows' = rows
      /\ PrunersMove(r) /\ pruners'[r].step \in {"ask", "idle"}
  BY <1>0, RemoveSteps DEF PruneRemove
<1>2. NoneSucceeds /\ NoNewFinish /\ NoNewRemove /\ raced \subseteq raced'
  BY <1>1, StaySucceeds DEF NoNewFinish, NoNewRemove, PrunersMove, PruneRemove
<1>3. CASE stored' = stored
  BY <1>1, <1>2, <1>3, HoldKept
<1>4. CASE stored' # stored
  <2> DEFINE c == rows[pruners[r].backup].content
  <2>1. /\ stored' = stored \ {c}
        /\ raced' = raced \union {jobs[j].backup : j \in {k \in Jobs : jobs[k].content = c
                                                                     /\ jobs[k].step = "finish"}}
    BY <1>4 DEF PruneRemove
  <2>2. ASSUME NEW b \in Backups PROVE ContentOK(b)'
    <3>1. Counts(b)' => Counts(b) /\ rows'[b].content = rows[b].content
      BY <1>1, <1>2 DEF Counts
    <3>2. Counts(b) => rows[b].content \in stored /\ rows[b].content # c
      BY <1>1 DEF HoldInv, ContentOK, RemoveOK
    <3> QED BY <2>1, <3>1, <3>2 DEF ContentOK
  <2>3. ASSUME NEW j \in Jobs PROVE FinishOK(j)'
    <3> SUFFICES ASSUME Finishing(j) PROVE jobs[j].content \in stored' \/ jobs[j].backup \in raced'
      BY <1>1 DEF FinishOK, Finishing
    <3>1. jobs[j].content \in stored \/ jobs[j].backup \in raced
      BY DEF HoldInv, FinishOK
    <3>2. CASE jobs[j].content = c
      <4>1. j \in {k \in Jobs : jobs[k].content = c /\ jobs[k].step = "finish"}
        BY <3>2 DEF Finishing
      <4> QED BY <2>1, <4>1
    <3> QED BY <2>1, <3>1, <3>2
  <2>4. \A q \in Pruners : RemoveOK(q)'
    BY <1>1, <1>2, RemoveKept DEF HoldInv, NoNewRemove
  <2> QED BY <2>2, <2>3, <2>4 DEF HoldInv
<1> QED BY <1>3, <1>4

LEMMA HoldNext == IInv /\ HoldInv /\ [Next]_vars => HoldInv'
<1> SUFFICES ASSUME IInv, HoldInv, [Next]_vars PROVE HoldInv'
  OBVIOUS
<1>0. TypeOK
  BY DEF IInv
<1>1. ASSUME NEW r \in Pruners, PruneActs(r) PROVE HoldInv'
  <2>1. CASE (\E p \in Policies : PruneList(r, p)) \/ PruneAsk(r) \/ PruneEnds(r)
    <3>1. Considers(r)
      BY <2>1 DEF Considers
    <3>2. UNCHANGED <<rows, stored, jobs, raced>> /\ RowsStay
      BY <1>0, <3>1, ConsidersStay DEF history
    <3>3. PrunersMove(r) /\ pruners'[r].step # "remove"
      BY <1>0, <2>1, ListPruner, AskPruner, EndPruner DEF PruneEnds
    <3>4. RowsMove /\ NoneSucceeds /\ NoNewFinish /\ NoNewRemove
      BY <3>2, <3>3, StayMove, StaySucceeds DEF NoNewFinish, NoNewRemove, PrunersMove
    <3> QED BY <3>2, <3>4, HoldKept
  <2>2. CASE PruneMark(r)
    <3>1. /\ RowsMove /\ pruners[r].backup \in Backups
          /\ \A x \in Backups \ {pruners[r].backup} : RowStays(x)
          /\ \/ RowPruned(pruners[r].backup)
             \/ RowStays(pruners[r].backup) /\ rows[pruners[r].backup].status = "pruned"
          /\ PrunersMove(r) /\ pruners'[r].step = "count"
      BY <2>2, MarkSteps
    <3>2. NoneSucceeds
      BY <3>1 DEF NoneSucceeds, RowStays, RowPruned
    <3>3. UNCHANGED <<stored, jobs, raced>>
      BY <2>2 DEF PruneMark, history
    <3>4. NoNewFinish /\ NoNewRemove
      BY <3>1, <3>3 DEF NoNewFinish, NoNewRemove, PrunersMove
    <3> QED BY <3>1, <3>2, <3>3, <3>4, HoldKept
  <2> QED BY <1>1, <2>1, <2>2, CountHolds, RemoveHolds DEF PruneActs, Considers
<1>2. CASE Restart
  <2>1. /\ RowsMove
        /\ \A b \in Backups : IF rows[b].status = "running"
                              THEN rows'[b].status = "failed" ELSE RowStays(b)
        /\ \A j \in Jobs : jobs'[j] = IF jobs[j].step = "queued" THEN jobs[j] ELSE Idle
        /\ \A r \in Pruners : pruners'[r] = AtRest
    BY <1>0, <1>2, RestartSteps
  <2>2. NoneSucceeds
    BY <2>1 DEF NoneSucceeds, RowStays
  <2>3. NoNewFinish /\ NoNewRemove
    BY <2>1, IdleJob, RestPruner DEF NoNewFinish, NoNewRemove, Finishing
  <2>4. stored' = stored /\ raced' = raced
    BY <1>2 DEF Restart
  <2> QED BY <2>1, <2>2, <2>3, <2>4, HoldKept
<1>3. CASE DaysPass \/ UNCHANGED vars
  <2>1. UNCHANGED <<rows, jobs, pruners, stored, raced>>
    BY <1>3 DEF DaysPass, vars, history
  <2>2. RowsMove /\ NoneSucceeds
    BY <1>0, <2>1, SameRows, StayMove, StaySucceeds
  <2>3. NoNewFinish /\ NoNewRemove
    BY <2>1 DEF NoNewFinish, NoNewRemove
  <2> QED BY <2>1, <2>2, <2>3, HoldKept
<1> QED BY <1>1, <1>2, <1>3, WorkHolds, Steps

\* A backup that counts as succeeded can be read: no prune removes a content that a row of
\* any policy still needs (CountBackupReferences), but for the rows that finish while the
\* prune is between its count and the removal.
THEOREM SucceededCanBeRead == Spec => []SucceededHasContent
<1>1. Init => HoldInv
  BY DEF Init, NoRow, Idle, AtRest, HoldInv, ContentOK, FinishOK, RemoveOK, Counts, Finishing
<1>2. HoldInv => SucceededHasContent
  BY DEF HoldInv, ContentOK, Counts, SucceededHasContent
<1> QED BY <1>1, <1>2, HoldNext, BackupsInvariant, PTL DEF Spec
-----------------------------------------------------------------------------
(* What a policy keeps *)

\* The backups of the policy that succeeded, are more recent, and were found usable.
Ahead(b) == {c \in counted : /\ rows[c].policy = rows[b].policy /\ rows[c].status = "succeeded"
                             /\ MoreRecent(c, b)}
AheadOK(b) == Cardinality(Ahead(b)) >= KeepLast[rows[b].policy]

\* What is pruned, or in the hands of a prune, has enough backups ahead of it: the rule
\* promises them, and those taken first leave as many ahead of those taken later.
Given(b) ==
  \/ rows[b].status = "pruned"
  \/ \E r \in Pruners : b \in pruners[r].todo
                         \/ (pruners[r].step = "mark" /\ pruners[r].backup = b)
KeepInv == counted \subseteq Backups /\ \A b \in Backups : Given(b) => AheadOK(b)

MoreCounted == counted \subseteq counted' /\ counted' \subseteq Backups

LEMMA CountedStay ==
  ASSUME KeepInv, [Next]_vars
  PROVE  MoreCounted
<1>1. ASSUME NEW j \in Jobs, JobNext(j) PROVE counted' = counted
  BY <1>1 DEF JobNext, SubmitRun, SubmitVerify, SubmitRestore, Submit, RunRefused, CreateBackup,
              PutContent, StreamFails, RunFinishes, OpenFails, OpenVerify, Verified, OpenInPlace,
              RestoreInPlace, OpenIsolated, RestoreIsolated, DropTemp, Cleanup, history
<1>2. ASSUME NEW r \in Pruners, NEW p \in Policies, PruneList(r, p) PROVE MoreCounted
  BY <1>2 DEF PruneList, KeepInv, MoreCounted
<1>3. ASSUME NEW r \in Pruners,
             PruneAsk(r) \/ PruneEnds(r) \/ PruneMark(r) \/ PruneCount(r) \/ PruneRemove(r)
      PROVE  counted' = counted
  BY <1>3 DEF PruneAsk, PruneEnds, PruneMark, PruneCount, PruneRemove, history
<1>4. CASE Restart \/ DaysPass \/ UNCHANGED vars
  BY <1>4 DEF Restart, DaysPass, vars, history, KeepInv, MoreCounted
<1> QED BY <1>1, <1>2, <1>3, <1>4 DEF Next, PruneNext, KeepInv, MoreCounted

LEMMA GivenSettled ==
  ASSUME IInv, NEW b \in Backups, Given(b)
  PROVE  Settled(b) /\ rows[b].policy \in Policies /\ KeepLast[rows[b].policy] \in Nat
<1>1. Settled(b)
  BY DEF IInv, PrunersInv, PrunerOK, Given, Settled
<1> QED BY <1>1, BackupAssumption DEF Settled, IInv, RowsInv

\* Enough of those ahead are still there.
LEMMA AheadStays ==
  ASSUME IInv, KeepInv, MoreCounted, RowsMove, NEW b \in Backups, Given(b),
         NEW T, T \subseteq Ahead(b),
         \A c \in T : rows'[c].status = "succeeded",
         Cardinality(T) >= KeepLast[rows[b].policy]
  PROVE  AheadOK(b)'
<1>1. /\ rows'[b].policy = rows[b].policy /\ rows'[b].finished = rows[b].finished
      /\ KeepLast[rows[b].policy] \in Nat
  BY GivenSettled, SettledKept
<1>2. ASSUME NEW c \in T PROVE c \in Ahead(b)'
  <2>1. c \in Backups /\ rows[c].policy = rows[b].policy /\ Settled(c) /\ MoreRecent(c, b)
    BY DEF Ahead, Settled, KeepInv
  <2>2. rows'[c].policy = rows[c].policy /\ rows'[c].finished = rows[c].finished
    BY <2>1, SettledKept
  <2> QED BY <1>1, <2>1, <2>2 DEF Ahead, MoreRecent, MoreCounted
<1>3. IsFiniteSet(Ahead(b)') /\ T \subseteq Ahead(b)'
  BY <1>2, FiniteRows DEF Ahead, MoreCounted
<1>4. Cardinality(T) \in Nat /\ Cardinality(Ahead(b)') \in Nat
      /\ Cardinality(T) <= Cardinality(Ahead(b)')
  BY <1>3, FS_Subset, FS_CardinalityType
<1> QED BY <1>1, <1>4 DEF AheadOK

LEMMA KeepKept ==
  ASSUME IInv, KeepInv, MoreCounted, RowsMove, NoneLost, \A b \in Backups : Given(b)' => Given(b)
  PROVE  KeepInv'
<1> SUFFICES ASSUME NEW b \in Backups, Given(b) PROVE AheadOK(b)'
  BY DEF KeepInv, MoreCounted
<1>1. \A c \in Ahead(b) : rows'[c].status = "succeeded"
  BY DEF Ahead, NoneLost, KeepInv
<1>2. Cardinality(Ahead(b)) >= KeepLast[rows[b].policy]
  BY DEF KeepInv, AheadOK
<1> QED BY <1>1, <1>2, AheadStays

\* The list: what it takes up is not among the last of what can be used.
LEMMA ListKeeps ==
  ASSUME IInv, KeepInv, MoreCounted, NEW r \in Pruners, NEW p \in Policies, PruneList(r, p)
  PROVE  KeepInv'
<1> DEFINE usable == {b \in Backups : rows[b].policy = p /\ Usable(rows[b])}
<1>0. TypeOK
  BY DEF IInv
<1>1. rows' = rows /\ RowsMove /\ NoneLost
  BY <1>0, SameRows, StayMove DEF PruneList, NoneLost
<1>2. /\ PrunersMove(r) /\ pruners'[r].step = "ask" /\ pruners'[r].todo = PlanRetention(usable)
  BY <1>0, ListPruner
<1> SUFFICES ASSUME NEW b \in Backups, Given(b)' PROVE AheadOK(b)'
  BY DEF KeepInv, MoreCounted
<1>3. CASE Given(b)
  <2>1. \A c \in Ahead(b) : rows'[c].status = "succeeded"
    BY <1>1 DEF Ahead
  <2>2. Cardinality(Ahead(b)) >= KeepLast[rows[b].policy]
    BY <1>3 DEF KeepInv, AheadOK
  <2> QED BY <1>1, <1>3, <2>1, <2>2, AheadStays
<1>4. CASE ~Given(b)
  <2>1. b \in PlanRetention(usable)
    BY <1>1, <1>2, <1>4 DEF Given, PrunersMove
  <2> DEFINE T == {c \in usable : MoreRecent(c, b)}
  <2>2. b \in usable /\ ~(Cardinality(T) < KeepLast[rows[b].policy])
    BY <2>1 DEF PlanRetention, AmongTheLast
  <2>3. T \subseteq Ahead(b)'
    BY <1>1, <2>2 DEF Ahead, Usable, PruneList, MoreRecent
  <2>4. IsFiniteSet(Ahead(b)')
    BY FiniteRows DEF Ahead, MoreCounted
  <2>5. /\ Cardinality(T) \in Nat /\ Cardinality(Ahead(b)') \in Nat
        /\ Cardinality(T) <= Cardinality(Ahead(b)')
    BY <2>3, <2>4, FS_Subset, FS_CardinalityType
  <2>6. KeepLast[rows[b].policy] \in Nat
    BY <2>2, BackupAssumption
  <2> HIDE DEF T
  <2>7. Cardinality(Ahead(b)') >= KeepLast[rows[b].policy]
    BY <2>2, <2>5, <2>6
  <2> QED BY <1>1, <2>7 DEF AheadOK
<1> QED BY <1>3, <1>4

\* The mark takes one row from ahead of the older ones; those ahead of it are ahead of
\* them too, and they are enough.
LEMMA MarkKeeps ==
  ASSUME IInv, KeepInv, MoreCounted, NEW r \in Pruners, PruneMark(r)
  PROVE  KeepInv'
<1> PICK d \in Backups : d = pruners[r].backup
  BY MarkSteps
<1>0. TypeOK
  BY DEF IInv
<1>1. /\ pruners[r].step = "mark" /\ RowsMove /\ \A x \in Backups \ {d} : RowStays(x)
      /\ PrunersMove(r) /\ pruners'[r].step = "count" /\ pruners'[r].todo = pruners[r].todo
  BY MarkSteps
<1>2. Given(d)
  BY <1>1 DEF Given
<1> SUFFICES ASSUME NEW b \in Backups, Given(b)' PROVE AheadOK(b)'
  BY DEF KeepInv, MoreCounted
<1>3. Given(b)
  BY <1>1, <1>2 DEF Given, PrunersMove, RowStays
<1>4. AheadOK(b) /\ AheadOK(d)
  BY <1>2, <1>3 DEF KeepInv
<1>5. CASE d \notin Ahead(b)
  <2>1. \A c \in Ahead(b) : rows'[c].status = "succeeded"
    BY <1>1, <1>5 DEF Ahead, RowStays, KeepInv
  <2> QED BY <1>1, <1>3, <1>4, <2>1, AheadStays DEF AheadOK
<1>6. CASE d \in Ahead(b)
  <2>1. rows[d].policy = rows[b].policy /\ MoreRecent(d, b)
    BY <1>6 DEF Ahead
  <2>2. Ahead(d) \subseteq Ahead(b)
    BY <1>0, <2>1, RecentOrder DEF Ahead, KeepInv
  <2>3. d \notin Ahead(d)
    BY <1>0, RecentOrder DEF Ahead
  <2>4. \A c \in Ahead(d) : rows'[c].status = "succeeded"
    BY <1>1, <2>3 DEF Ahead, RowStays, KeepInv
  <2>5. Cardinality(Ahead(d)) >= KeepLast[rows[b].policy]
    BY <1>4, <2>1 DEF AheadOK
  <2> QED BY <1>1, <1>3, <2>2, <2>4, <2>5, AheadStays
<1> QED BY <1>5, <1>6

LEMMA KeepNext == IInv /\ KeepInv /\ [Next]_vars => KeepInv'
<1> SUFFICES ASSUME IInv, KeepInv, [Next]_vars PROVE KeepInv'
  OBVIOUS
<1>0. TypeOK /\ MoreCounted
  BY CountedStay DEF IInv
<1>1. ASSUME NEW j \in Jobs, JobActs(j) PROVE KeepInv'
  <2>1. RowsMove /\ NoneLost /\ NonePruned /\ pruners' = pruners
    BY <1>1, JobRows, WorkKeeps
  <2>2. \A b \in Backups : Given(b)' => Given(b)
    BY <2>1 DEF Given, NonePruned
  <2> QED BY <1>0, <2>1, <2>2, KeepKept
<1>2. ASSUME NEW r \in Pruners, PruneActs(r) PROVE KeepInv'
  <2>1. CASE PruneAsk(r) \/ PruneEnds(r) \/ PruneCount(r) \/ PruneRemove(r)
    <3>1. rows' = rows
      BY <2>1 DEF PruneAsk, PruneEnds, PruneCount, PruneRemove
    <3>2. RowsMove /\ NoneLost
      BY <1>0, <3>1, SameRows, StayMove DEF NoneLost
    <3>3. /\ PrunersMove(r) /\ pruners'[r].todo \subseteq pruners[r].todo
          /\ pruners'[r].step = "mark" => pruners'[r].backup \in pruners[r].todo
      BY <1>0, <2>1, AskPruner, EndPruner, CountPruner, RemoveSteps DEF PruneEnds
    <3>4. \A b \in Backups : Given(b)' => Given(b)
      BY <3>1, <3>3 DEF Given, PrunersMove
    <3> QED BY <1>0, <3>2, <3>4, KeepKept
  <2> QED BY <1>0, <1>2, <2>1, ListKeeps, MarkKeeps DEF PruneActs, Considers
<1>3. CASE Restart
  <2>1. /\ RowsMove
        /\ \A b \in Backups : IF rows[b].status = "running"
                              THEN rows'[b].status = "failed" ELSE RowStays(b)
        /\ \A r \in Pruners : pruners'[r] = AtRest
    BY <1>0, <1>3, RestartSteps
  <2>2. NoneLost
    BY <2>1 DEF NoneLost, RowStays
  <2>3. \A b \in Backups : Given(b)' => Given(b)
    BY <2>1, RestPruner DEF Given, RowStays
  <2> QED BY <1>0, <2>1, <2>2, <2>3, KeepKept
<1>4. CASE DaysPass \/ UNCHANGED vars
  <2>1. UNCHANGED <<rows, pruners>>
    BY <1>4 DEF DaysPass, vars
  <2>2. RowsMove /\ NoneLost
    BY <1>0, <2>1, SameRows, StayMove DEF NoneLost
  <2>3. \A b \in Backups : Given(b)' => Given(b)
    BY <2>1 DEF Given
  <2> QED BY <1>0, <2>2, <2>3, KeepKept
<1> QED BY <1>1, <1>2, <1>3, <1>4, Steps

\* Whatever is pruned, by how many prunes at once and next to whatever runs and verifies,
\* what one prune counts on to stay another does not take: every pruned backup has as many
\* usable ones ahead of it as its rule promises (PlanRetention, Prune).
THEOREM PolicyKeepsItsLast == Spec => []KeepLastRemain
<1>1. Init => KeepInv
  BY DEF Init, NoRow, AtRest, KeepInv, Given
<1>2. KeepInv => KeepLastRemain
  <2> SUFFICES ASSUME KeepInv, NEW b \in Backups, rows[b].status = "pruned"
               PROVE  AheadOK(b)
    BY DEF KeepLastRemain, AheadOK, Ahead
  <2> QED BY DEF KeepInv, Given
<1> QED BY <1>1, <1>2, KeepNext, BackupsInvariant, PTL DEF Spec
-----------------------------------------------------------------------------
(* The encoding of one backup *)

\* The stream below gzip: the items in order, then the trailer.
Total == policy.length + (IF policy.compression = "gzip" THEN 1 ELSE 0)
Item(k) == IF k <= policy.length THEN k ELSE Trailer(policy.length)

\* The piece is the j-th chunk of it.
ChunkOf(piece, j) ==
  /\ piece.key = policy.key /\ piece.at = j - 1
  /\ \A i \in 1 .. Len(piece.plain) :
       /\ (j - 1) * ChunkSize + i <= Total
       /\ piece.plain[i] = Item((j - 1) * ChunkSize + i)

\* A frame writer that n items have gone into: full chunks, and the rest in its buffer.
Framed(f, n) ==
  /\ n \in 0 .. Total
  /\ f.index = Len(f.out.pieces)
  /\ f.index * ChunkSize + Len(f.buf) = n
  /\ \A i \in 1 .. Len(f.buf) : f.buf[i] = Item(f.index * ChunkSize + i)
  /\ \A j \in 1 .. f.index :
       ChunkOf(f.out.pieces[j], j) /\ Len(f.out.pieces[j].plain) = ChunkSize

\* A closed one: only the last data chunk may be short, behind which nothing is missing, and
\* only the last chunk is empty.
Finished(pieces) ==
  /\ \A j \in 1 .. Len(pieces) : ChunkOf(pieces[j], j)
  /\ \A j \in 1 .. Len(pieces) :
       Len(pieces[j].plain) < ChunkSize => (j - 1) * ChunkSize + Len(pieces[j].plain) >= Total
  /\ \A j, k \in 1 .. Len(pieces) :
       j < k /\ Len(pieces[j].plain) < ChunkSize => Len(pieces[k].plain) = 0
  /\ \A j \in 1 .. Len(pieces) : Len(pieces[j].plain) = 0 => j = Len(pieces)

\* What n items become without a key.
Bared(f, n) ==
  /\ n \in 0 .. Total /\ Len(f.out.pieces) = n
  /\ \A j \in 1 .. n : f.out.pieces[j] = Bare(Item(j))

\* All that went in comes out, in its order.
InOrder(f, n) == IF Encrypted THEN Framed(f, n) ELSE Bared(f, n)
AllOut(f) == IF Encrypted THEN Finished(f.out.pieces) ELSE Bared(f, Total)

EncoderInv ==
  /\ produced <= policy.length
  /\ encoder.out.header \in {"none", IF Encrypted THEN "encrypted" ELSE "plain"}
  /\ encoder.closed => encoder.out.header # "none"
  /\ put = "stored" => encoder.closed
  /\ IF encoder.closed THEN AllOut(encoder) ELSE InOrder(encoder, produced)

\* What opens under a key is a chunk that was written, wherever it now stands.
Written(piece) ==
  piece.key \in Keys =>
    \E j \in 1 .. Len(encoder.out.pieces) : piece = encoder.out.pieces[j]

MediumInv ==
  put = "stored" => \A i \in 1 .. Len(medium.pieces) : Written(medium.pieces[i])

\* Items that reached the gzip reader.
Taken == Len(reader.got) + (IF reader.trailer THEN 1 ELSE 0)

GotInOrder ==
  /\ Len(reader.got) <= policy.length
  /\ \A i \in 1 .. Len(reader.got) : reader.got[i] = i

TrailerInv ==
  reader.trailer => Len(reader.got) = policy.length /\ policy.compression = "gzip"

\* A reader in the middle of an encrypted stream.
ReadingInv ==
  /\ reader.key \in Keys /\ reader.index <= Len(encoder.out.pieces)
  /\ TrailerInv
  /\ Taken + Len(reader.pending) <= Total
  /\ \A i \in 1 .. Len(reader.pending) : reader.pending[i] = Item(Taken + i)
  /\ \/ Taken + Len(reader.pending) = reader.index * ChunkSize
     \/ /\ Taken + Len(reader.pending) = Total
        /\ \A k \in reader.index + 1 .. Len(encoder.out.pieces) :
             Len(encoder.out.pieces[k].plain) = 0
  /\ reader.done => Taken + Len(reader.pending) = Total

\* As far as the pieces read are those that were written without a key, so are the items.
InStep == \A i \in 1 .. Len(reader.read) : i <= Total /\ reader.read[i] = Bare(Item(i))
BareInv == InStep => Taken = Len(reader.read) /\ GotInOrder /\ TrailerInv

ReaderInv ==
  /\ reader.phase = "closed" => reader = NoReader
  /\ put # "stored" => reader.phase = "closed"
  /\ Encrypted /\ reader.header = "encrypted" =>
       /\ GotInOrder
       /\ reader.phase \in {"reading", "draining"} => ReadingInv
       /\ reader.phase \in {"ended", "drained"} => Len(reader.got) = policy.length
  /\ ~Encrypted /\ reader.header = "plain" /\ reader.phase # "refused" => BareInv

CodecInv ==
  /\ CodecTypeOK
  /\ EncoderInv /\ MediumInv /\ ReaderInv
  /\ VerifiedIsWhole

-----------------------------------------------------------------------------
(* Sequences *)

\* The number of items before a chunk.
LEMMA NextStart ==
  ASSUME NEW j \in Nat
  PROVE  /\ j * ChunkSize \in Nat
         /\ (j + 1) * ChunkSize = (j * ChunkSize) + ChunkSize
  <1>1. ChunkSize \in Nat
    BY CodecAssumption
  <1> QED BY <1>1

LEMMA AppendedPiece ==
  ASSUME NEW S, NEW s \in Seq(S), NEW e \in S
  PROVE  /\ Append(s, e) \in Seq(S)
         /\ Len(Append(s, e)) = Len(s) + 1
         /\ \A j \in 1 .. Len(s) : Append(s, e)[j] = s[j]
         /\ Append(s, e)[Len(s) + 1] = e
  OBVIOUS

-----------------------------------------------------------------------------
(* The writer *)

LEMMA WriteChunkFields ==
  ASSUME NEW f \in Encoders, NEW plain \in Chunks, Encrypted,
         NEW r, r = WriteChunk(f, plain),
         NEW piece, piece = [at |-> f.index, key |-> policy.key, plain |-> plain]
  PROVE  /\ r \in Encoders /\ piece \in Pieces
         /\ r.buf = f.buf /\ r.closed = f.closed /\ r.index = f.index + 1
         /\ r.out.header = f.out.header
         /\ Len(r.out.pieces) = Len(f.out.pieces) + 1
         /\ \A j \in 1 .. Len(f.out.pieces) : r.out.pieces[j] = f.out.pieces[j]
         /\ r.out.pieces[Len(f.out.pieces) + 1] = piece
  <1>2. piece \in Pieces
    BY CodecAssumption DEF Encoders, Pieces, Encrypted
  <1>3. PICK s \in Seq(Pieces) : s = f.out.pieces
    BY DEF Encoders, Streams
  <1>6. /\ Append(s, piece) \in Seq(Pieces)
        /\ Len(Append(s, piece)) = Len(s) + 1
        /\ \A j \in 1 .. Len(s) : Append(s, piece)[j] = s[j]
        /\ Append(s, piece)[Len(s) + 1] = piece
    BY <1>2, AppendedPiece
  <1>7. PICK t \in Seq(Pieces) : t = Append(s, piece)
    BY <1>6
  <1>8. PICK o : o = [f.out EXCEPT !.pieces = t]
    OBVIOUS
  <1>9. o \in Streams /\ o.header = f.out.header /\ o.pieces = t
    BY <1>8 DEF Encoders, Streams
  <1>10. r = [f EXCEPT !.out = o, !.index = f.index + 1]
    BY <1>3, <1>7, <1>8 DEF WriteChunk, ChunkAAD, Encoders
  <1>11. /\ r \in Encoders
         /\ r.buf = f.buf /\ r.closed = f.closed /\ r.index = f.index + 1 /\ r.out = o
    <2>1. f.index + 1 \in Nat /\ o \in Streams
      BY <1>9 DEF Encoders
    <2> HIDE <1>8
    <2>2. r \in Encoders
      BY <1>10, <2>1 DEF Encoders
    <2>3. r.index = f.index + 1 /\ r.out = o
      BY <1>10 DEF Encoders
    <2>4. r.buf = f.buf /\ r.closed = f.closed
      BY <1>10 DEF Encoders
    <2> QED BY <2>2, <2>3, <2>4
  <1> QED BY <1>2, <1>3, <1>6, <1>7, <1>9, <1>11

LEMMA EmptyChunk == <<>> \in Chunks /\ Len(<<>>) = 0
  <1>1. <<>> \in Seq(Items) /\ Len(<<>>) = 0
    OBVIOUS
  <1> QED BY <1>1, CodecAssumption DEF Chunks

\* Flushing what the buffer holds.
Emptied(f) == [WriteChunk(f, f.buf) EXCEPT !.buf = <<>>]

LEMMA EmptiedFields ==
  ASSUME NEW f \in Encoders, Encrypted,
         NEW r, r = Emptied(f),
         NEW piece, piece = [at |-> f.index, key |-> policy.key, plain |-> f.buf]
  PROVE  /\ r \in Encoders
         /\ r.buf = <<>> /\ r.closed = f.closed /\ r.index = f.index + 1
         /\ r.out.header = f.out.header
         /\ Len(r.out.pieces) = Len(f.out.pieces) + 1
         /\ \A j \in 1 .. Len(f.out.pieces) : r.out.pieces[j] = f.out.pieces[j]
         /\ r.out.pieces[Len(f.out.pieces) + 1] = piece
  <1>1. f.buf \in Chunks
    BY DEF Encoders
  <1>2. PICK w : w = WriteChunk(f, f.buf)
    OBVIOUS
  <1>3. /\ w \in Encoders
        /\ w.buf = f.buf /\ w.closed = f.closed /\ w.index = f.index + 1
        /\ w.out.header = f.out.header
        /\ Len(w.out.pieces) = Len(f.out.pieces) + 1
        /\ \A j \in 1 .. Len(f.out.pieces) : w.out.pieces[j] = f.out.pieces[j]
        /\ w.out.pieces[Len(f.out.pieces) + 1] = piece
    BY <1>1, <1>2, WriteChunkFields
  <1>4. r = [w EXCEPT !.buf = <<>>]
    BY <1>2 DEF Emptied
  <1>5. r \in Encoders
    BY <1>3, <1>4, EmptyChunk DEF Encoders
  <1>6. r.buf = <<>> /\ r.index = w.index /\ r.out = w.out
    BY <1>3, <1>4 DEF Encoders
  <1>7. r.closed = w.closed
    BY <1>3, <1>4 DEF Encoders
  <1> HIDE <1>2, <1>4
  <1> QED BY <1>3, <1>5, <1>6, <1>7

LEMMA EncoderTypes ==
  ASSUME NEW f \in Encoders
  PROVE  /\ f.index \in Nat /\ f.buf \in Seq(Items) /\ Len(f.buf) \in Nat
         /\ Len(f.buf) <= ChunkSize /\ f.out.pieces \in Seq(Pieces)
         /\ Len(f.out.pieces) \in Nat
  <1>1. f.index \in Nat /\ f.buf \in Chunks /\ f.out \in Streams
    BY DEF Encoders
  <1>2. f.buf \in Seq(Items) /\ Len(f.buf) <= ChunkSize
    BY <1>1 DEF Chunks
  <1>3. f.out.pieces \in Seq(Pieces)
    BY <1>1 DEF Streams
  <1> QED BY <1>1, <1>2, <1>3, LenProperties

LEMMA PolicyTypes ==
  ASSUME CodecTypeOK
  PROVE  /\ policy.length \in Nat /\ policy.length <= MaxLength
         /\ Total \in {policy.length, policy.length + 1}
         /\ policy.compression = "gzip" => Total = policy.length + 1
         /\ policy.compression # "gzip" => Total = policy.length
  BY CodecAssumption DEF CodecTypeOK, Total

\* What the buffer holds is the next chunk.
LEMMA BufferedChunk ==
  ASSUME CodecTypeOK, NEW f \in Encoders, NEW n, Framed(f, n),
         NEW piece, piece = [at |-> f.index, key |-> policy.key, plain |-> f.buf]
  PROVE  ChunkOf(piece, f.index + 1)
  <1>1. piece.key = policy.key /\ piece.at = f.index /\ piece.plain = f.buf
    OBVIOUS
  <1>2. /\ f.index \in Nat /\ (f.index + 1) - 1 = f.index /\ Len(f.buf) \in Nat
        /\ f.index * ChunkSize \in Nat
    <2>1. f.index \in Nat /\ Len(f.buf) \in Nat
      BY EncoderTypes
    <2>2. ChunkSize \in Nat
      BY CodecAssumption
    <2> QED BY <2>1, <2>2
  <1>3. /\ f.index * ChunkSize + Len(f.buf) = n /\ n <= Total /\ Total \in Int
        /\ \A i \in 1 .. Len(f.buf) : f.buf[i] = Item(f.index * ChunkSize + i)
    BY PolicyTypes DEF Framed
  <1>4. \A i \in 1 .. Len(f.buf) : f.index * ChunkSize + i <= Total
    BY <1>2, <1>3
  <1> QED BY <1>1, <1>2, <1>3, <1>4 DEF ChunkOf

\* A full buffer becomes a full chunk.
LEMMA FullFlush ==
  ASSUME CodecTypeOK, Encrypted, NEW f \in Encoders, NEW n, Framed(f, n),
         Len(f.buf) = ChunkSize, NEW r, r = Emptied(f)
  PROVE  /\ r \in Encoders /\ Framed(r, n)
         /\ r.buf = <<>> /\ r.closed = f.closed /\ r.out.header = f.out.header
  <1>3. PICK piece : piece = [at |-> f.index, key |-> policy.key, plain |-> f.buf]
    OBVIOUS
  <1>4. /\ r \in Encoders
        /\ r.buf = <<>> /\ r.closed = f.closed /\ r.index = f.index + 1
        /\ r.out.header = f.out.header
        /\ Len(r.out.pieces) = Len(f.out.pieces) + 1
        /\ \A j \in 1 .. Len(f.out.pieces) : r.out.pieces[j] = f.out.pieces[j]
        /\ r.out.pieces[Len(f.out.pieces) + 1] = piece
    BY <1>3, EmptiedFields
  <1>5. ChunkOf(piece, f.index + 1) /\ Len(piece.plain) = ChunkSize
    BY <1>3, BufferedChunk
  <1>6. /\ f.index \in Nat /\ f.index = Len(f.out.pieces)
        /\ f.index * ChunkSize + ChunkSize = n /\ n \in 0 .. Total
        /\ \A j \in 1 .. f.index :
             ChunkOf(f.out.pieces[j], j) /\ Len(f.out.pieces[j].plain) = ChunkSize
    BY EncoderTypes DEF Framed
  <1>7. r.index * ChunkSize + Len(r.buf) = n /\ Len(r.buf) = 0
    <2>1. Len(r.buf) = 0
      BY <1>4, EmptyChunk
    <2>2. PICK x \in Nat : x = f.index * ChunkSize
      BY <1>6, NextStart
    <2>3. r.index * ChunkSize = x + ChunkSize
      BY <1>4, <1>6, <2>2, NextStart
    <2>4. x + ChunkSize = n /\ n \in Int
      BY <1>6, <2>2, PolicyTypes
    <2> QED BY <2>1, <2>3, <2>4
  <1>8. \A j \in 1 .. r.index :
          ChunkOf(r.out.pieces[j], j) /\ Len(r.out.pieces[j].plain) = ChunkSize
    <2> SUFFICES ASSUME NEW j \in 1 .. r.index
                 PROVE  ChunkOf(r.out.pieces[j], j) /\ Len(r.out.pieces[j].plain) = ChunkSize
      OBVIOUS
    <2>1. CASE j \in 1 .. f.index
      <3>1. r.out.pieces[j] = f.out.pieces[j]
        BY <1>4, <1>6, <2>1
      <3> QED BY <1>6, <2>1, <3>1
    <2>2. CASE j = f.index + 1
      <3>1. r.out.pieces[j] = piece
        BY <1>4, <1>6, <2>2
      <3> QED BY <1>5, <2>2, <3>1
    <2>3. j \in 1 .. f.index \/ j = f.index + 1
      BY <1>4, <1>6
    <2> QED BY <2>1, <2>2, <2>3
  <1> QED BY <1>4, <1>6, <1>7, <1>8 DEF Framed

\* One more item in the buffer.
Buffered(f, item) == [f EXCEPT !.buf = Append(@, item)]

LEMMA BufferItem ==
  ASSUME CodecTypeOK, NEW f \in Encoders, NEW n, Framed(f, n), Len(f.buf) # ChunkSize,
         n + 1 <= Total, NEW item \in Items, item = Item(n + 1),
         NEW r, r = Buffered(f, item)
  PROVE  /\ r \in Encoders /\ Framed(r, n + 1)
         /\ r.closed = f.closed /\ r.out.header = f.out.header
  <1>1. /\ f.index \in Nat /\ f.buf \in Seq(Items) /\ Len(f.buf) \in Nat
        /\ Len(f.buf) <= ChunkSize
    BY EncoderTypes
  <1>2. PICK b \in Seq(Items) : b = Append(f.buf, item)
    BY <1>1, AppendedPiece
  <1>3. /\ Len(b) = Len(f.buf) + 1 /\ b[Len(f.buf) + 1] = item
        /\ \A i \in 1 .. Len(f.buf) : b[i] = f.buf[i]
    BY <1>1, <1>2, AppendedPiece
  <1>4. Len(b) <= ChunkSize
    BY <1>1, <1>3, CodecAssumption
  <1>5. b \in Chunks
    BY <1>2, <1>4 DEF Chunks
  <1>6. r = [f EXCEPT !.buf = b]
    BY <1>2 DEF Buffered, Encoders
  <1>7. r \in Encoders
    BY <1>5, <1>6 DEF Encoders
  <1>8. r.buf = b /\ r.index = f.index /\ r.out = f.out
    BY <1>6 DEF Encoders
  <1>9. r.closed = f.closed
    BY <1>6 DEF Encoders
  <1> HIDE <1>2, <1>6
  <1>10. /\ f.index * ChunkSize \in Nat /\ Total \in Int
    <2>1. ChunkSize \in Nat
      BY CodecAssumption
    <2> QED BY <1>1, <2>1, PolicyTypes
  <1>11. /\ n \in 0 .. Total /\ f.index = Len(f.out.pieces)
         /\ f.index * ChunkSize + Len(f.buf) = n
         /\ \A i \in 1 .. Len(f.buf) : f.buf[i] = Item(f.index * ChunkSize + i)
         /\ \A j \in 1 .. f.index :
              ChunkOf(f.out.pieces[j], j) /\ Len(f.out.pieces[j].plain) = ChunkSize
    BY DEF Framed
  <1>12. \A i \in 1 .. Len(b) : b[i] = Item(f.index * ChunkSize + i)
    <2> SUFFICES ASSUME NEW i \in 1 .. Len(b) PROVE b[i] = Item(f.index * ChunkSize + i)
      OBVIOUS
    <2>1. CASE i \in 1 .. Len(f.buf)
      BY <1>3, <1>11, <2>1
    <2>2. CASE i = Len(f.buf) + 1
      <3>1. f.index * ChunkSize + i = n + 1
        <4>1. PICK x \in Nat : x = f.index * ChunkSize
          BY <1>10
        <4>2. x + Len(f.buf) = n
          BY <1>11, <4>1
        <4>3. x + i = n + 1
          BY <1>1, <2>2, <4>2
        <4> QED BY <4>1, <4>3
      <3> QED BY <1>3, <2>2, <3>1
    <2> QED BY <1>1, <1>3, <2>1, <2>2
  <1>13. f.index * ChunkSize + Len(b) = n + 1 /\ n + 1 \in 0 .. Total
    <2>1. PICK x \in Nat : x = f.index * ChunkSize
      BY <1>10
    <2>2. x + Len(f.buf) = n /\ n \in 0 .. Total
      BY <1>11, <2>1
    <2>3. x + Len(b) = n + 1 /\ n + 1 \in 0 .. Total
      BY <1>1, <1>3, <1>10, <2>2
    <2> QED BY <2>1, <2>3
  <1> QED BY <1>7, <1>8, <1>9, <1>11, <1>12, <1>13 DEF Framed

LEMMA FrameWriteFramed ==
  ASSUME CodecTypeOK, Encrypted, NEW f \in Encoders, NEW n, Framed(f, n),
         n + 1 <= Total, NEW item \in Items, item = Item(n + 1),
         NEW r, r = FrameWrite(f, item)
  PROVE  /\ r \in Encoders /\ Framed(r, n + 1)
         /\ r.closed = f.closed /\ r.out.header = f.out.header
  <1>1. CASE Len(f.buf) = ChunkSize
    <2>1. f.buf # <<>>
      BY <1>1, CodecAssumption, EmptyChunk
    <2>2. PICK g : g = Emptied(f)
      OBVIOUS
    <2>3. r = Buffered(g, item)
      BY <1>1, <2>1, <2>2 DEF FrameWrite, Flush, Emptied, Buffered
    <2>4. /\ g \in Encoders /\ Framed(g, n) /\ g.buf = <<>>
          /\ g.closed = f.closed /\ g.out.header = f.out.header
      BY <1>1, <2>2, FullFlush
    <2>5. Len(g.buf) # ChunkSize
      BY <2>4, CodecAssumption, EmptyChunk
    <2> QED BY <2>3, <2>4, <2>5, BufferItem
  <1>2. CASE Len(f.buf) # ChunkSize
    <2>1. r = Buffered(f, item)
      BY <1>2 DEF FrameWrite, Buffered
    <2> QED BY <1>2, <2>1, BufferItem
  <1> QED BY <1>1, <1>2

\* The data chunks of n items: all full, but for the last one, and none empty.
DataChunks(pieces, n) ==
  /\ Len(pieces) * ChunkSize >= n
  /\ \A j \in 1 .. Len(pieces) :
       /\ ChunkOf(pieces[j], j) /\ Len(pieces[j].plain) > 0
       /\ j < Len(pieces) => Len(pieces[j].plain) = ChunkSize
       /\ Len(pieces[j].plain) < ChunkSize => (j - 1) * ChunkSize + Len(pieces[j].plain) = n

\* What the buffer still holds is the last data chunk.
LEMMA LastDataChunk ==
  ASSUME CodecTypeOK, Encrypted, NEW f \in Encoders, NEW n, Framed(f, n),
         NEW g, g = IF f.buf = <<>> THEN f ELSE Emptied(f)
  PROVE  /\ g \in Encoders /\ g.index = Len(g.out.pieces) /\ DataChunks(g.out.pieces, n)
         /\ g.closed = f.closed /\ g.out.header = f.out.header
  <1>1. /\ f.index \in Nat /\ f.index = Len(f.out.pieces)
        /\ \A j \in 1 .. f.index :
             ChunkOf(f.out.pieces[j], j) /\ Len(f.out.pieces[j].plain) = ChunkSize
        /\ ChunkSize > 0
    BY EncoderTypes, CodecAssumption DEF Framed
  <1>4. ChunkSize \in Nat /\ ChunkSize > 0
    BY CodecAssumption
  <1>2. CASE f.buf = <<>>
    <2>1. g = f
      BY <1>2
    <2>2. f.index * ChunkSize + Len(f.buf) = n /\ Len(f.buf) = 0
      BY <1>2, EmptyChunk DEF Framed
    <2>3. PICK x \in Nat : x = f.index * ChunkSize
      BY <1>1, NextStart
    <2>4. x >= n
      BY <2>2, <2>3
    <2>5. Len(f.out.pieces) * ChunkSize >= n
      BY <1>1, <2>3, <2>4
    <2>6. \A j \in 1 .. Len(f.out.pieces) :
            /\ ChunkOf(f.out.pieces[j], j) /\ Len(f.out.pieces[j].plain) = ChunkSize
      BY <1>1
    <2>8. \A j \in 1 .. Len(f.out.pieces) :
            /\ Len(f.out.pieces[j].plain) > 0
            /\ Len(f.out.pieces[j].plain) < ChunkSize => FALSE
      BY <1>4, <2>6
    <2>7. DataChunks(f.out.pieces, n)
      BY <2>5, <2>6, <2>8 DEF DataChunks
    <2> QED BY <1>1, <2>1, <2>7
  <1>3. CASE f.buf # <<>>
    <2>1. g = Emptied(f)
      BY <1>3
    <2>2. PICK piece : piece = [at |-> f.index, key |-> policy.key, plain |-> f.buf]
      OBVIOUS
    <2>3. /\ g \in Encoders
          /\ g.buf = <<>> /\ g.closed = f.closed /\ g.index = f.index + 1
          /\ g.out.header = f.out.header
          /\ Len(g.out.pieces) = Len(f.out.pieces) + 1
          /\ \A j \in 1 .. Len(f.out.pieces) : g.out.pieces[j] = f.out.pieces[j]
          /\ g.out.pieces[Len(f.out.pieces) + 1] = piece
      BY <2>1, <2>2, EmptiedFields
    <2>4. Len(f.buf) > 0
      <3>1. f.buf \in Seq(Items)
        BY EncoderTypes
      <3> QED BY <1>3, <3>1
    <2>5. ChunkOf(piece, f.index + 1) /\ Len(piece.plain) > 0
      BY <2>2, <2>4, BufferedChunk
    <2>7. PICK x \in Nat : x = f.index * ChunkSize /\ (f.index + 1) * ChunkSize = x + ChunkSize
      BY <1>1, NextStart
    <2>8. x + Len(f.buf) = n /\ Len(f.buf) \in Nat /\ Len(f.buf) <= ChunkSize
      BY <2>7, EncoderTypes DEF Framed
    <2>9. Len(g.out.pieces) * ChunkSize >= n
      <3>1. x + ChunkSize >= n
        BY <1>1, <2>8, CodecAssumption
      <3>2. Len(g.out.pieces) = f.index + 1
        BY <1>1, <2>3
      <3> QED BY <2>7, <3>1, <3>2
    <2>6. \A j \in 1 .. Len(g.out.pieces) :
            /\ ChunkOf(g.out.pieces[j], j) /\ Len(g.out.pieces[j].plain) > 0
            /\ j < Len(g.out.pieces) => Len(g.out.pieces[j].plain) = ChunkSize
            /\ Len(g.out.pieces[j].plain) < ChunkSize =>
                 (j - 1) * ChunkSize + Len(g.out.pieces[j].plain) = n
      <3> SUFFICES ASSUME NEW j \in 1 .. Len(g.out.pieces)
                   PROVE  /\ ChunkOf(g.out.pieces[j], j) /\ Len(g.out.pieces[j].plain) > 0
                          /\ j < Len(g.out.pieces) => Len(g.out.pieces[j].plain) = ChunkSize
                          /\ Len(g.out.pieces[j].plain) < ChunkSize =>
                               (j - 1) * ChunkSize + Len(g.out.pieces[j].plain) = n
        OBVIOUS
      <3>1. CASE j \in 1 .. f.index
        <4>1. g.out.pieces[j] = f.out.pieces[j]
          BY <1>1, <2>3, <3>1
        <4>2. ChunkOf(f.out.pieces[j], j) /\ Len(f.out.pieces[j].plain) = ChunkSize
          BY <1>1, <3>1
        <4>3. ChunkOf(g.out.pieces[j], j) /\ Len(g.out.pieces[j].plain) = ChunkSize
          BY <4>1, <4>2
        <4>4. Len(g.out.pieces[j].plain) > 0 /\ ~(Len(g.out.pieces[j].plain) < ChunkSize)
          BY <1>4, <4>3
        <4> QED BY <4>3, <4>4
      <3>2. CASE j = f.index + 1
        <4>1. g.out.pieces[j] = piece
          BY <1>1, <2>3, <3>2
        <4>2. ~(j < Len(g.out.pieces)) /\ j - 1 = f.index
          BY <1>1, <2>3, <3>2
        <4>3. piece.plain = f.buf
          BY <2>2
        <4>4. (j - 1) * ChunkSize + Len(piece.plain) = n
          BY <2>7, <2>8, <4>2, <4>3
        <4> QED BY <2>5, <3>2, <4>1, <4>2, <4>4
      <3>3. j \in 1 .. f.index \/ j = f.index + 1
        BY <1>1, <2>3
      <3> QED BY <3>1, <3>2, <3>3
    <2>10. DataChunks(g.out.pieces, n)
      BY <2>6, <2>9 DEF DataChunks
    <2> QED BY <1>1, <2>3, <2>10
  <1> QED BY <1>2, <1>3

\* Behind them the empty chunk ends the stream.
LEMMA EmptyChunkFinishes ==
  ASSUME CodecTypeOK, Encrypted, NEW g \in Encoders, g.index = Len(g.out.pieces),
         DataChunks(g.out.pieces, Total),
         NEW e \in Chunks, Len(e) = 0, NEW r, r = WriteChunk(g, e)
  PROVE  /\ r \in Encoders /\ Finished(r.out.pieces)
         /\ r.closed = g.closed /\ r.out.header = g.out.header
  <1>1. PICK piece : piece = [at |-> g.index, key |-> policy.key, plain |-> e]
    OBVIOUS
  <1>2. /\ r \in Encoders /\ r.closed = g.closed /\ r.out.header = g.out.header
        /\ Len(r.out.pieces) = Len(g.out.pieces) + 1
        /\ \A j \in 1 .. Len(g.out.pieces) : r.out.pieces[j] = g.out.pieces[j]
        /\ r.out.pieces[Len(g.out.pieces) + 1] = piece
    BY <1>1, WriteChunkFields
  <1>3. PICK N \in Nat : N = Len(g.out.pieces)
    BY EncoderTypes
  <1>4. piece.key = policy.key /\ piece.at = N /\ piece.plain = e
    BY <1>1, <1>3
  <1>5. ChunkOf(piece, N + 1)
    BY <1>4 DEF ChunkOf
  <1>6. PICK s : s = r.out.pieces
    OBVIOUS
  <1>7. /\ Len(s) = N + 1 /\ s[N + 1] = piece
        /\ \A j \in 1 .. N : s[j] = g.out.pieces[j]
    BY <1>2, <1>3, <1>6
  <1>8. \A j \in 1 .. N :
          /\ ChunkOf(s[j], j) /\ Len(s[j].plain) > 0
          /\ j < N => Len(s[j].plain) = ChunkSize
          /\ Len(s[j].plain) < ChunkSize => (j - 1) * ChunkSize + Len(s[j].plain) = Total
    <2> SUFFICES ASSUME NEW j \in 1 .. N
                 PROVE  /\ ChunkOf(s[j], j) /\ Len(s[j].plain) > 0
                        /\ j < N => Len(s[j].plain) = ChunkSize
                        /\ Len(s[j].plain) < ChunkSize =>
                             (j - 1) * ChunkSize + Len(s[j].plain) = Total
      OBVIOUS
    <2>1. s[j] = g.out.pieces[j]
      BY <1>7
    <2>2. /\ ChunkOf(g.out.pieces[j], j) /\ Len(g.out.pieces[j].plain) > 0
          /\ j < N => Len(g.out.pieces[j].plain) = ChunkSize
          /\ Len(g.out.pieces[j].plain) < ChunkSize =>
               (j - 1) * ChunkSize + Len(g.out.pieces[j].plain) = Total
      BY <1>3 DEF DataChunks
    <2> QED BY <2>1, <2>2
  <1>9. Len(s[N + 1].plain) = 0 /\ ChunkOf(s[N + 1], N + 1)
    BY <1>4, <1>5, <1>7
  <1>10. \A j \in 1 .. Len(s) : j \in 1 .. N \/ j = N + 1
    BY <1>7
  <1>11. \A j \in 1 .. Len(s) : ChunkOf(s[j], j)
    BY <1>8, <1>9, <1>10
  <1>12. \A j \in 1 .. Len(s) : Len(s[j].plain) = 0 => j = Len(s)
    BY <1>7, <1>8, <1>9, <1>10
  <1>13. ASSUME NEW j \in 1 .. Len(s), NEW k \in 1 .. Len(s), j < k,
                Len(s[j].plain) < ChunkSize
         PROVE  Len(s[k].plain) = 0
    <2>1. j \in 1 .. N /\ k \in Nat
      BY <1>7, <1>13
    <2>2. CASE k = N + 1
      BY <1>9, <2>2
    <2>3. CASE k \in 1 .. N
      <3>1. j < N
        BY <1>13, <2>3
      <3>2. Len(s[j].plain) = ChunkSize
        BY <1>8, <2>1, <3>1
      <3> QED BY <1>13, <3>2, CodecAssumption
    <2> QED BY <1>10, <2>2, <2>3
  <1>15. ASSUME NEW j \in 1 .. Len(s), Len(s[j].plain) < ChunkSize
         PROVE  (j - 1) * ChunkSize + Len(s[j].plain) >= Total
    <2>1. PICK T \in Int : T = Total
      BY PolicyTypes
    <2>2. CASE j \in 1 .. N
      <3>1. (j - 1) * ChunkSize + Len(s[j].plain) = T
        BY <1>8, <1>15, <2>1, <2>2
      <3> QED BY <2>1, <3>1
    <2>3. CASE j = N + 1
      <3>1. PICK x \in Nat : x = N * ChunkSize
        BY <1>3, NextStart
      <3>2. x >= T
        BY <1>3, <2>1, <3>1 DEF DataChunks
      <3>3. (j - 1) * ChunkSize = x
        BY <1>3, <2>3, <3>1
      <3> QED BY <1>9, <2>1, <2>3, <3>2, <3>3
    <2> QED BY <1>10, <2>2, <2>3
  <1>14. Finished(s)
    BY <1>11, <1>12, <1>13, <1>15 DEF Finished
  <1> QED BY <1>2, <1>6, <1>14

-----------------------------------------------------------------------------
(* What the encoder has written, from the first item to the empty chunk *)

LEMMA ItemTypes ==
  ASSUME CodecTypeOK, NEW k \in 1 .. Total
  PROVE  Item(k) \in Items
  <1>1. policy.length \in Nat /\ policy.length <= MaxLength /\ MaxLength \in Nat
    BY PolicyTypes, CodecAssumption
  <1>2. k \in Nat
    BY PolicyTypes
  <1> QED BY <1>1, <1>2 DEF Item, Items, Trailer

LEMMA BarePieces ==
  ASSUME NEW item \in Items
  PROVE  Bare(item) \in Pieces
  <1>1. <<item>> \in Seq(Items) /\ Len(<<item>>) = 1
    OBVIOUS
  <1>2. <<item>> \in Chunks
    BY <1>1, CodecAssumption DEF Chunks
  <1> QED BY <1>1, <1>2 DEF Bare, Pieces

\* Without a key the bytes go as they come.
LEMMA PlainSink ==
  ASSUME CodecTypeOK, NEW f \in Encoders, NEW n \in Nat, Bared(f, n), n + 1 <= Total,
         NEW item \in Items, item = Item(n + 1), ~Encrypted, NEW r, r = Sink(f, item)
  PROVE  /\ r \in Encoders /\ Bared(r, n + 1)
         /\ r.closed = f.closed /\ r.out.header = f.out.header
  <1>1. PICK s \in Seq(Pieces) : s = f.out.pieces
    BY DEF Encoders, Streams
  <1>10. PICK piece \in Pieces : piece = Bare(item)
    BY BarePieces
  <1>2. PICK t \in Seq(Pieces) : t = Append(s, piece)
    BY AppendedPiece
  <1>9. /\ Len(t) = Len(s) + 1 /\ t[Len(s) + 1] = piece
        /\ \A j \in 1 .. Len(s) : t[j] = s[j]
    BY <1>2, AppendedPiece
  <1>3. PICK o : o = [f.out EXCEPT !.pieces = t]
    OBVIOUS
  <1>4. o \in Streams /\ o.header = f.out.header /\ o.pieces = t
    BY <1>3 DEF Encoders, Streams
  <1>5. r = [f EXCEPT !.out = o]
    BY <1>1, <1>2, <1>3, <1>10 DEF Sink, Encoders
  <1> HIDE <1>2, <1>3
  <1>6. r \in Encoders
    BY <1>4, <1>5 DEF Encoders
  <1>7. r.closed = f.closed
    BY <1>5 DEF Encoders
  <1>8. r.out = o
    BY <1>5 DEF Encoders
  <1>11. Len(s) = n /\ n + 1 \in 0 .. Total /\ \A j \in 1 .. n : s[j] = Bare(Item(j))
    BY <1>1, PolicyTypes DEF Bared
  <1>12. \A j \in 1 .. n + 1 : t[j] = Bare(Item(j))
    <2> SUFFICES ASSUME NEW j \in 1 .. n + 1 PROVE t[j] = Bare(Item(j))
      OBVIOUS
    <2>1. CASE j \in 1 .. n
      BY <1>9, <1>11, <2>1
    <2>2. CASE j = n + 1
      BY <1>9, <1>10, <1>11, <2>2
    <2> QED BY <2>1, <2>2
  <1>13. Bared(r, n + 1)
    BY <1>4, <1>8, <1>9, <1>11, <1>12 DEF Bared
  <1> QED BY <1>4, <1>6, <1>7, <1>8, <1>13

\* One item more below gzip.
LEMMA SinkKeeps ==
  ASSUME CodecTypeOK, NEW f \in Encoders, NEW n \in Nat, InOrder(f, n),
         n + 1 <= Total, NEW item \in Items, item = Item(n + 1),
         NEW r, r = Sink(f, item)
  PROVE  /\ r \in Encoders /\ InOrder(r, n + 1)
         /\ r.closed = f.closed /\ r.out.header = f.out.header
  <1>1. CASE Encrypted
    <2>1. r = FrameWrite(f, item)
      BY <1>1 DEF Sink
    <2>2. Framed(f, n)
      BY <1>1 DEF InOrder
    <2>3. /\ r \in Encoders /\ Framed(r, n + 1)
          /\ r.closed = f.closed /\ r.out.header = f.out.header
      BY <1>1, <2>1, <2>2, FrameWriteFramed
    <2> QED BY <1>1, <2>3 DEF InOrder
  <1>2. CASE ~Encrypted
    <2>1. Bared(f, n)
      BY <1>2 DEF InOrder
    <2>2. /\ r \in Encoders /\ Bared(r, n + 1)
          /\ r.closed = f.closed /\ r.out.header = f.out.header
      BY <1>2, <2>1, PlainSink
    <2> QED BY <1>2, <2>2 DEF InOrder
  <1> QED BY <1>1, <1>2

\* Closing: the trailer of gzip, then what is left and the empty chunk.
Zipped(f) == IF policy.compression = "gzip" THEN Sink(f, Trailer(produced)) ELSE f
Rest(f) == IF f.buf = <<>> THEN f ELSE Emptied(f)

LEMMA ClosedEncoder ==
  ASSUME CodecTypeOK, InOrder(encoder, produced), produced = policy.length,
         NEW r, r = EncoderClose(encoder)
  PROVE  /\ r \in Encoders /\ AllOut(r)
         /\ r.closed = encoder.closed /\ r.out.header = encoder.out.header
  <1>1. PICK z : z = Zipped(encoder)
    OBVIOUS
  <1>2. encoder \in Encoders /\ produced \in Nat
    BY DEF CodecTypeOK
  <1>3. /\ z \in Encoders /\ InOrder(z, Total)
        /\ z.closed = encoder.closed /\ z.out.header = encoder.out.header
    <2>1. CASE policy.compression = "gzip"
      <3>1. produced + 1 \in 1 .. Total /\ produced + 1 = Total
        BY <1>2, <2>1, PolicyTypes
      <3>2. Item(produced + 1) = Trailer(produced)
        BY <1>2, PolicyTypes DEF Item
      <3>3. PICK item \in Items : item = Trailer(produced)
        BY <3>1, <3>2, ItemTypes
      <3>4. z = Sink(encoder, item)
        BY <1>1, <2>1, <3>3 DEF Zipped
      <3>5. item = Item(produced + 1) /\ produced + 1 <= Total
        BY <3>1, <3>2, <3>3
      <3>6. /\ z \in Encoders /\ InOrder(z, produced + 1)
            /\ z.closed = encoder.closed /\ z.out.header = encoder.out.header
        BY <1>2, <3>4, <3>5, SinkKeeps
      <3> QED BY <3>1, <3>6
    <2>2. CASE policy.compression # "gzip"
      <3>1. z = encoder
        BY <1>1, <2>2 DEF Zipped
      <3>2. Total = produced
        BY <2>2, PolicyTypes
      <3> QED BY <1>2, <3>1, <3>2
    <2> QED BY <2>1, <2>2
  <1>4. CASE ~Encrypted
    <2>1. r = z
      BY <1>1, <1>4 DEF EncoderClose, Zipped
    <2>2. AllOut(z)
      BY <1>3, <1>4 DEF InOrder, AllOut
    <2> QED BY <1>3, <2>1, <2>2
  <1>5. CASE Encrypted
    <2>1. PICK n : n = Total /\ Framed(z, n)
      BY <1>3, <1>5 DEF InOrder
    <2>2. PICK g : g = Rest(z)
      OBVIOUS
    <2>3. g = IF z.buf = <<>> THEN z ELSE Emptied(z)
      BY <2>2 DEF Rest
    <2>4. /\ g \in Encoders /\ g.index = Len(g.out.pieces) /\ DataChunks(g.out.pieces, n)
          /\ g.closed = z.closed /\ g.out.header = z.out.header
      BY <1>3, <1>5, <2>1, <2>3, LastDataChunk
    <2>8. DataChunks(g.out.pieces, Total)
      BY <2>1, <2>4
    <2>5. PICK e \in Chunks : e = <<>> /\ Len(e) = 0
      BY EmptyChunk
    <2>6. r = WriteChunk(g, e)
      BY <1>1, <1>5, <2>2, <2>5 DEF EncoderClose, Zipped, Flush, Rest, Emptied
    <2>7. /\ r \in Encoders /\ Finished(r.out.pieces)
          /\ r.closed = g.closed /\ r.out.header = g.out.header
      BY <1>5, <2>4, <2>5, <2>6, <2>8, EmptyChunkFinishes
    <2> QED BY <1>3, <1>5, <2>4, <2>7 DEF AllOut
  <1> QED BY <1>4, <1>5

-----------------------------------------------------------------------------
(* The steps of writing *)

LEMMA SameEncoder ==
  ASSUME EncoderInv, UNCHANGED <<policy, encoder, produced>>,
         put' = "stored" => encoder.closed
  PROVE  EncoderInv'
  BY DEF EncoderInv, Encrypted, InOrder, AllOut, Bared, Framed, Finished, ChunkOf, Item, Total

LEMMA SameReading ==
  ASSUME ReaderInv, VerifiedIsWhole, UNCHANGED <<policy, encoder, reader, put>>
  PROVE  ReaderInv' /\ VerifiedIsWhole'
  <1>1. ReadingInv' <=> ReadingInv
    BY DEF ReadingInv, Taken, TrailerInv, Item, Total
  <1>2. BareInv' <=> BareInv
    BY DEF BareInv, InStep, Taken, GotInOrder, TrailerInv, Item, Total
  <1>3. (GotInOrder' <=> GotInOrder) /\ (Encrypted' <=> Encrypted)
    BY DEF GotInOrder, Encrypted
  <1>4. ReaderInv'
    BY <1>1, <1>2, <1>3 DEF ReaderInv
  <1>5. VerifiedIsWhole'
    BY DEF VerifiedIsWhole, Whole
  <1> QED BY <1>4, <1>5

LEMMA SameMedium ==
  ASSUME MediumInv, UNCHANGED <<encoder, medium, put>>
  PROVE  MediumInv'
  BY DEF MediumInv, Written

\* Before the backup is stored nobody reads it.
LEMMA NobodyReads ==
  ASSUME CodecInv, UNCHANGED reader, put # "stored"
  PROVE  /\ reader = NoReader /\ reader' = NoReader /\ reader'.phase = "closed"
         /\ VerifiedIsWhole'
         /\ put' # "stored" => MediumInv' /\ ReaderInv'
  <1>1. reader.phase = "closed" /\ reader = NoReader
    BY DEF CodecInv, ReaderInv
  <1>2. VerifiedIsWhole'
    BY <1>1 DEF VerifiedIsWhole
  <1>3. put' # "stored" => MediumInv'
    BY DEF MediumInv
  <1>4. put' # "stored" => ReaderInv'
    BY <1>1 DEF ReaderInv, NoReader
  <1> QED BY <1>1, <1>2, <1>3, <1>4

LEMMA CodecStarts == CodecInit => CodecInv
  <1> SUFFICES ASSUME CodecInit PROVE CodecInv
    OBVIOUS
  <1> USE DEF CodecInit
  <1>1. NoStream \in Streams
    BY DEF NoStream, Streams
  <1>2. encoder \in Encoders /\ encoder.out = NoStream
    BY <1>1, EmptyChunk DEF Encoders
  <1>3. NoReader \in Readers
    BY DEF NoReader, Readers
  <1>4. CodecTypeOK
    BY <1>1, <1>2, <1>3, CodecAssumption DEF CodecTypeOK
  <1>5. InOrder(encoder, produced)
    <2>1. encoder.index = 0 /\ encoder.buf = <<>> /\ encoder.out.pieces = <<>>
      BY DEF NoStream
    <2>2. 0 * ChunkSize = 0 /\ Len(<<>>) = 0
      BY CodecAssumption
    <2>3. encoder.index * ChunkSize + Len(encoder.buf) = 0
      BY <2>1, <2>2
    <2>4. 0 \in 0 .. Total
      BY <1>4, PolicyTypes
    <2>5. Framed(encoder, produced)
      BY <2>1, <2>2, <2>3, <2>4 DEF Framed
    <2>6. Bared(encoder, produced)
      BY <2>1, <2>2, <2>4 DEF Bared
    <2> QED BY <2>5, <2>6 DEF InOrder
  <1>6. EncoderInv
    <2>1. encoder.closed = FALSE /\ encoder.out.header = "none" /\ put = "open"
      BY DEF NoStream
    <2>2. produced <= policy.length
      BY CodecAssumption
    <2> QED BY <1>5, <2>1, <2>2 DEF EncoderInv
  <1>7. MediumInv /\ ReaderInv /\ VerifiedIsWhole
    BY DEF MediumInv, ReaderInv, VerifiedIsWhole, NoReader
  <1> QED BY <1>4, <1>6, <1>7 DEF CodecInv

LEMMA KeyUnresolvedKeeps == CodecInv /\ (KeyUnresolved \/ ToolFails) => CodecInv'
  <1> SUFFICES ASSUME CodecInv, KeyUnresolved \/ ToolFails PROVE CodecInv'
    OBVIOUS
  <1>1. /\ put = "open" /\ put' = "failed"
        /\ UNCHANGED <<policy, encoder, produced, medium, damages, reader>>
    BY DEF KeyUnresolved, ToolFails, Producing
  <1>2. CodecTypeOK'
    BY <1>1 DEF CodecInv, CodecTypeOK
  <1>3. EncoderInv'
    BY <1>1, SameEncoder DEF CodecInv
  <1>4. MediumInv' /\ ReaderInv' /\ VerifiedIsWhole'
    BY <1>1, NobodyReads
  <1> QED BY <1>2, <1>3, <1>4 DEF CodecInv

LEMMA NewWriterKeeps == CodecInv /\ NewWriter => CodecInv'
  <1> SUFFICES ASSUME CodecInv, NewWriter PROVE CodecInv'
    OBVIOUS
  <1>1. /\ put = "open" /\ put' = "open" /\ encoder.out.header = "none"
        /\ UNCHANGED <<policy, produced, medium, damages, reader>>
    BY DEF NewWriter
  <1>2. PICK h \in {"plain", "encrypted"} : h = IF Encrypted THEN "encrypted" ELSE "plain"
    OBVIOUS
  <1>3. encoder' = [encoder EXCEPT !.out.header = h]
    BY <1>2 DEF NewWriter
  <1>4. PICK o : o = [encoder.out EXCEPT !.header = h]
    OBVIOUS
  <1>5. encoder \in Encoders /\ encoder.out \in Streams
    BY DEF CodecInv, CodecTypeOK, Encoders
  <1>6. o \in Streams /\ o.header = h /\ o.pieces = encoder.out.pieces
    BY <1>2, <1>4, <1>5 DEF Streams
  <1>7. encoder' = [encoder EXCEPT !.out = o]
    BY <1>3, <1>4
  <1> HIDE <1>2, <1>4
  <1>8. encoder' \in Encoders
    BY <1>5, <1>6, <1>7 DEF Encoders
  <1>9. /\ encoder'.buf = encoder.buf /\ encoder'.index = encoder.index
        /\ encoder'.out = o
    BY <1>5, <1>7 DEF Encoders
  <1>10. encoder'.closed = encoder.closed
    BY <1>5, <1>7 DEF Encoders
  <1>11. CodecTypeOK'
    BY <1>1, <1>8 DEF CodecInv, CodecTypeOK
  <1>12. ~encoder.closed
    BY <1>1 DEF CodecInv, EncoderInv
  <1>13. InOrder(encoder, produced)
    BY <1>12 DEF CodecInv, EncoderInv
  <1>14. EncoderInv'
    <2>1. produced' <= policy'.length /\ ~encoder'.closed /\ put' # "stored"
      BY <1>1, <1>10, <1>12 DEF CodecInv, EncoderInv
    <2>2. encoder'.out.header = IF Encrypted' THEN "encrypted" ELSE "plain"
      BY <1>1, <1>2, <1>6, <1>9 DEF Encrypted
    <2>3. InOrder(encoder, produced)'
      <3>1. Framed(encoder, produced) => Framed(encoder, produced)'
        <4>1. policy' = policy /\ produced' = produced
          BY <1>1
        <4>2. PICK P : P = encoder.out.pieces /\ encoder'.out.pieces = P
          BY <1>6, <1>9
        <4>3. \A piece, j : ChunkOf(piece, j)' <=> ChunkOf(piece, j)
          BY <4>1 DEF ChunkOf, Item, Total
        <4> QED BY <1>9, <4>1, <4>2, <4>3 DEF Framed, Item, Total
      <3>2. Bared(encoder, produced) => Bared(encoder, produced)'
        BY <1>1, <1>6, <1>9 DEF Bared, Item, Total
      <3> QED BY <1>1, <1>13, <3>1, <3>2 DEF InOrder, Encrypted
    <2> QED BY <2>1, <2>2, <2>3 DEF EncoderInv
  <1>15. MediumInv' /\ ReaderInv' /\ VerifiedIsWhole'
    BY <1>1, NobodyReads
  <1> QED BY <1>11, <1>14, <1>15 DEF CodecInv

LEMMA ProduceKeeps == CodecInv /\ Produce => CodecInv'
  <1> SUFFICES ASSUME CodecInv, Produce PROVE CodecInv'
    OBVIOUS
  <1>1. /\ put = "open" /\ put' = "open" /\ encoder.out.header # "none" /\ ~encoder.closed
        /\ produced < policy.length /\ produced' = produced + 1
        /\ encoder' = Sink(encoder, produced + 1)
        /\ UNCHANGED <<policy, medium, damages, reader>>
    BY DEF Produce, Producing
  <1>2. /\ CodecTypeOK /\ encoder \in Encoders /\ produced \in Nat
        /\ policy.length \in Nat /\ policy.length <= MaxLength /\ MaxLength \in Nat
    BY PolicyTypes, CodecAssumption DEF CodecInv, CodecTypeOK
  <1>3. InOrder(encoder, produced)
    BY <1>1 DEF CodecInv, EncoderInv
  <1>4. produced + 1 \in 1 .. Total /\ Item(produced + 1) = produced + 1
    BY <1>1, <1>2, PolicyTypes DEF Item
  <1>5. PICK item \in Items : item = produced + 1 /\ item = Item(produced + 1)
    BY <1>2, <1>4, ItemTypes
  <1>6. PICK r : r = encoder'
    OBVIOUS
  <1>7. r = Sink(encoder, item)
    BY <1>1, <1>5, <1>6
  <1>8. /\ r \in Encoders /\ InOrder(r, produced + 1)
        /\ r.closed = encoder.closed /\ r.out.header = encoder.out.header
    <2>1. produced + 1 <= Total
      BY <1>4
    <2> QED BY <1>2, <1>3, <1>5, <1>7, <2>1, SinkKeeps
  <1>9. CodecTypeOK'
    <2>1. produced' \in 0 .. MaxLength /\ encoder' \in Encoders
      BY <1>1, <1>2, <1>6, <1>8
    <2> QED BY <1>1, <2>1 DEF CodecInv, CodecTypeOK
  <1>10. EncoderInv'
    <2>1. produced' <= policy'.length /\ ~encoder'.closed /\ put' # "stored"
      BY <1>1, <1>2, <1>6, <1>8
    <2>2. encoder'.out.header \in {"none", IF Encrypted' THEN "encrypted" ELSE "plain"}
      BY <1>1, <1>6, <1>8 DEF Encrypted, CodecInv, EncoderInv
    <2>3. InOrder(encoder, produced)'
      BY <1>1, <1>6, <1>8 DEF InOrder, Bared, Encrypted, Framed, ChunkOf, Item, Total
    <2> QED BY <2>1, <2>2, <2>3 DEF EncoderInv
  <1>11. MediumInv' /\ ReaderInv' /\ VerifiedIsWhole'
    BY <1>1, NobodyReads
  <1> QED BY <1>9, <1>10, <1>11 DEF CodecInv

LEMMA CloseStreamKeeps == CodecInv /\ CloseStream => CodecInv'
  <1> SUFFICES ASSUME CodecInv, CloseStream PROVE CodecInv'
    OBVIOUS
  <1>1. /\ put = "open" /\ put' = "open" /\ encoder.out.header # "none" /\ ~encoder.closed
        /\ produced = policy.length
        /\ encoder' = [EncoderClose(encoder) EXCEPT !.closed = TRUE]
        /\ UNCHANGED <<policy, produced, medium, damages, reader>>
    BY DEF CloseStream, Producing
  <1>2. PICK r : r = EncoderClose(encoder)
    OBVIOUS
  <1>3. /\ r \in Encoders /\ AllOut(r)
        /\ r.closed = encoder.closed /\ r.out.header = encoder.out.header
    BY <1>1, <1>2, ClosedEncoder DEF CodecInv, EncoderInv
  <1>4. encoder' = [r EXCEPT !.closed = TRUE]
    BY <1>1, <1>2
  <1> HIDE <1>2
  <1>5. encoder' \in Encoders /\ encoder'.closed /\ encoder'.out = r.out
    BY <1>3, <1>4 DEF Encoders
  <1>6. CodecTypeOK'
    BY <1>1, <1>5 DEF CodecInv, CodecTypeOK
  <1>7. EncoderInv'
    <2>1. produced' <= policy'.length /\ put' # "stored"
      BY <1>1 DEF CodecInv, EncoderInv
    <2>2. /\ encoder'.out.header \in {"none", IF Encrypted' THEN "encrypted" ELSE "plain"}
          /\ encoder'.out.header # "none"
      BY <1>1, <1>3, <1>5 DEF Encrypted, CodecInv, EncoderInv
    <2>3. AllOut(encoder)'
      <3>1. PICK o : o = r.out /\ encoder'.out = o
        BY <1>5
      <3>2. (Encrypted' <=> Encrypted) /\ Total' = Total
        BY <1>1 DEF Encrypted, Total
      <3>3. CASE Encrypted
        <4>1. Finished(o.pieces)
          BY <1>3, <3>1, <3>3 DEF AllOut
        <4>2. PICK P : P = o.pieces
          OBVIOUS
        <4>3. Finished(P)' <=> Finished(P)
          BY <1>1 DEF Finished, ChunkOf, Item, Total
        <4>4. Finished(P)' => Finished(encoder.out.pieces)'
          BY <3>1, <4>2 DEF Finished
        <4> QED BY <3>2, <3>3, <4>1, <4>2, <4>3, <4>4 DEF AllOut
      <3>4. CASE ~Encrypted
        <4>1. Bared(r, Total)
          BY <1>3, <3>4 DEF AllOut
        <4>2. Bared(encoder, Total)'
          BY <1>1, <3>1, <3>2, <4>1 DEF Bared, Item
        <4> QED BY <3>2, <3>4, <4>2 DEF AllOut
      <3> QED BY <3>3, <3>4
    <2> QED BY <1>5, <2>1, <2>2, <2>3 DEF EncoderInv
  <1>8. MediumInv' /\ ReaderInv' /\ VerifiedIsWhole'
    BY <1>1, NobodyReads
  <1> QED BY <1>6, <1>7, <1>8 DEF CodecInv

LEMMA PutEndsKeeps == CodecInv /\ PutEnds => CodecInv'
  <1> SUFFICES ASSUME CodecInv, PutEnds PROVE CodecInv'
    OBVIOUS
  <1>1. /\ put = "open" /\ encoder.closed /\ put' = "stored" /\ medium' = encoder.out
        /\ UNCHANGED <<policy, encoder, produced, damages, reader>>
    BY DEF PutEnds
  <1>2. CodecTypeOK'
    BY <1>1 DEF CodecInv, CodecTypeOK, Encoders
  <1>3. EncoderInv'
    BY <1>1, SameEncoder DEF CodecInv
  <1>4. MediumInv'
    BY <1>1 DEF MediumInv, Written
  <1>5. reader' = NoReader /\ VerifiedIsWhole'
    BY <1>1, NobodyReads
  <1>6. ReaderInv'
    BY <1>5 DEF ReaderInv, NoReader
  <1> QED BY <1>2, <1>3, <1>4, <1>5, <1>6 DEF CodecInv

-----------------------------------------------------------------------------
(* The stored bytes *)

\* Where every piece is in P, it stays so, whatever happens to the sequence.
LEMMA RearrangedStays ==
  ASSUME NEW P, NEW s \in Seq(P), s = medium.pieces,
         \A p \in P : Garbled(p) \in P, Bare(Garbage) \in P,
         NEW t \in Rearranged
  PROVE  t \in Seq(P)
  <1>1. Len(s) \in Nat /\ \A i \in 1 .. Len(s) : s[i] \in P
    OBVIOUS
  <1>2. \A m, n \in Int : 1 <= m /\ n <= Len(s) => SubSeq(s, m, n) \in Seq(P)
    <2> SUFFICES ASSUME NEW m \in Int, NEW n \in Int, 1 <= m, n <= Len(s)
                 PROVE  SubSeq(s, m, n) \in Seq(P)
      OBVIOUS
    <2>1. \A i \in m .. n : s[i] \in P
      BY <1>1
    <2> QED BY <2>1, SubSeqProperties
  <1>3. \A i \in 0 .. Len(s) - 1 : SubSeq(s, 1, i) \in Seq(P)
    BY <1>1, <1>2
  <1>4. \A i \in 1 .. Len(s) : RemoveAt(s, i) \in Seq(P)
    <2> SUFFICES ASSUME NEW i \in 1 .. Len(s) PROVE RemoveAt(s, i) \in Seq(P)
      OBVIOUS
    <2>1. SubSeq(s, 1, i - 1) \in Seq(P) /\ SubSeq(s, i + 1, Len(s)) \in Seq(P)
      BY <1>1, <1>2
    <2>2. SubSeq(s, 1, i - 1) \o SubSeq(s, i + 1, Len(s)) \in Seq(P)
      BY <2>1, ConcatProperties
    <2> QED BY <2>2 DEF RemoveAt
  <1>5. \A i \in 1 .. Len(s) : InsertAt(s, i, s[i]) \in Seq(P)
    <2> SUFFICES ASSUME NEW i \in 1 .. Len(s) PROVE InsertAt(s, i, s[i]) \in Seq(P)
      OBVIOUS
    <2>1. SubSeq(s, 1, i - 1) \in Seq(P) /\ SubSeq(s, i, Len(s)) \in Seq(P)
      BY <1>1, <1>2
    <2>2. <<s[i]>> \in Seq(P)
      BY <1>1
    <2>3. SubSeq(s, 1, i - 1) \o <<s[i]>> \in Seq(P)
      BY <2>1, <2>2, ConcatProperties
    <2>4. SubSeq(s, 1, i - 1) \o <<s[i]>> \o SubSeq(s, i, Len(s)) \in Seq(P)
      BY <2>1, <2>3, ConcatProperties
    <2> QED BY <2>4 DEF InsertAt
  <1>6. \A i \in 1 .. Len(s) - 1 : [s EXCEPT ![i] = s[i + 1], ![i + 1] = s[i]] \in Seq(P)
    <2> SUFFICES ASSUME NEW i \in 1 .. Len(s) - 1
                 PROVE  [s EXCEPT ![i] = s[i + 1], ![i + 1] = s[i]] \in Seq(P)
      OBVIOUS
    <2>1. s[i] \in P /\ s[i + 1] \in P /\ i \in 1 .. Len(s) /\ i + 1 \in 1 .. Len(s)
      BY <1>1
    <2>2. PICK e \in P : e = s[i + 1]
      BY <2>1
    <2>3. PICK u : u = [s EXCEPT ![i] = e]
      OBVIOUS
    <2>4. u \in Seq(P) /\ Len(u) = Len(s)
      BY <2>1, <2>3, ExceptSeq
    <2>5. [u EXCEPT ![i + 1] = s[i]] \in Seq(P)
      BY <2>1, <2>4, ExceptSeq
    <2> QED BY <2>2, <2>3, <2>5
  <1>7. \A i \in 1 .. Len(s) : [s EXCEPT ![i] = Garbled(s[i])] \in Seq(P)
    <2> SUFFICES ASSUME NEW i \in 1 .. Len(s) PROVE [s EXCEPT ![i] = Garbled(s[i])] \in Seq(P)
      OBVIOUS
    <2>1. Garbled(s[i]) \in P
      BY <1>1
    <2> QED BY <2>1, ExceptSeq
  <1>8. Append(s, Bare(Garbage)) \in Seq(P)
    BY AppendedPiece
  <1>9. \/ \E i \in 0 .. Len(s) - 1 : t = SubSeq(s, 1, i)
        \/ \E i \in 1 .. Len(s) : t = RemoveAt(s, i)
        \/ \E i \in 1 .. Len(s) : t = InsertAt(s, i, s[i])
        \/ \E i \in 1 .. Len(s) - 1 : t = [s EXCEPT ![i] = s[i + 1], ![i + 1] = s[i]]
        \/ \E i \in 1 .. Len(s) : t = [s EXCEPT ![i] = Garbled(s[i])]
        \/ t = Append(s, Bare(Garbage))
    BY DEF Rearranged, Count
  <1> QED BY <1>3, <1>4, <1>5, <1>6, <1>7, <1>8, <1>9

LEMMA GarbledPiece ==
  ASSUME NEW p \in Pieces
  PROVE  Garbled(p) \in Pieces /\ Garbled(p).key = NoKey
  <1>1. Garbage \in Items /\ Bare(Garbage) \in Pieces /\ Bare(Garbage).key = NoKey
    BY CodecAssumption, BarePieces DEF Garbage, Items, Trailer, Bare
  <1>2. PICK c \in Chunks : c = <<Garbage>> /\ Len(c) = 1
    <2>1. <<Garbage>> \in Seq(Items) /\ Len(<<Garbage>>) = 1
      BY <1>1
    <2>2. <<Garbage>> \in Chunks
      BY <2>1, CodecAssumption DEF Chunks
    <2> QED BY <2>1, <2>2
  <1>3. PICK q : q = [p EXCEPT !.key = NoKey, !.plain = c]
    OBVIOUS
  <1>4. q \in Pieces /\ q.key = NoKey
    <2>1. p \in [at : Nat, key : Keys \union {NoKey}, plain : Chunks]
      BY DEF Pieces
    <2>2. q \in [at : Nat, key : Keys \union {NoKey}, plain : Chunks]
      BY <1>3, <2>1
    <2>3. q.key = NoKey /\ q.plain = c
      BY <1>3, <2>1
    <2>4. Len(q.plain) > 0
      BY <1>2, <2>3
    <2> HIDE <1>3
    <2> QED BY <2>2, <2>3, <2>4 DEF Pieces
  <1>5. Garbled(p) \in {Bare(Garbage), q}
    BY <1>2, <1>3 DEF Garbled
  <1> QED BY <1>1, <1>4, <1>5

\* The pieces that may stand in the stored bytes.
Allowed == {p \in Pieces : Written(p)}

LEMMA DamageKeeps ==
  ASSUME CodecInv, NEW m, Damage(m), m \in Streams,
         \A i \in 1 .. Len(m.pieces) : Written(m.pieces[i])
  PROVE  CodecInv'
  <1>1. /\ put = "stored" /\ damages < MaxDamages
        /\ damages' = damages + 1 /\ medium' = m
        /\ UNCHANGED <<policy, encoder, produced, put, reader>>
    BY DEF Damage
  <1>2. CodecTypeOK'
    <2>1. damages' \in 0 .. MaxDamages
      BY <1>1, CodecAssumption DEF CodecInv, CodecTypeOK
    <2> QED BY <1>1, <2>1 DEF CodecInv, CodecTypeOK
  <1>3. EncoderInv'
    BY <1>1, SameEncoder DEF CodecInv, EncoderInv
  <1>4. MediumInv'
    BY <1>1 DEF MediumInv, Written
  <1>5. ReaderInv' /\ VerifiedIsWhole'
    BY <1>1, SameReading DEF CodecInv
  <1> QED BY <1>2, <1>3, <1>4, <1>5 DEF CodecInv

LEMMA MediumTypes ==
  ASSUME CodecInv, put = "stored"
  PROVE  medium \in Streams /\ medium.pieces \in Seq(Pieces) /\ medium.pieces \in Seq(Allowed)
  <1>1. medium \in Streams
    BY DEF CodecInv, CodecTypeOK
  <1>2. medium.pieces \in Seq(Pieces)
    BY <1>1 DEF Streams
  <1>3. \A i \in 1 .. Len(medium.pieces) : Written(medium.pieces[i])
    BY DEF CodecInv, MediumInv
  <1>4. \A i \in 1 .. Len(medium.pieces) : medium.pieces[i] \in Allowed
    BY <1>2, <1>3 DEF Allowed
  <1> QED BY <1>1, <1>2, <1>4, SeqDef

LEMMA PiecesDamagedKeeps == CodecInv /\ PiecesDamaged => CodecInv'
  <1> SUFFICES ASSUME CodecInv, PiecesDamaged PROVE CodecInv'
    OBVIOUS
  <1>1. PICK t \in Rearranged : Damage([medium EXCEPT !.pieces = t])
    BY DEF PiecesDamaged
  <1>2. put = "stored"
    BY <1>1 DEF Damage
  <1>3. medium \in Streams /\ medium.pieces \in Seq(Allowed)
    BY <1>2, MediumTypes
  <1>4. Bare(Garbage) \in Allowed /\ \A p \in Allowed : Garbled(p) \in Allowed
    <2>1. Bare(Garbage) \in Pieces /\ Bare(Garbage).key = NoKey
      BY CodecAssumption, BarePieces DEF Garbage, Items, Trailer, Bare
    <2>2. \A p \in Pieces : p.key = NoKey => Written(p)
      BY CodecAssumption DEF Written
    <2> QED BY <2>1, <2>2, GarbledPiece DEF Allowed
  <1>5. t \in Seq(Allowed)
    BY <1>3, <1>4, RearrangedStays
  <1>6. t \in Seq(Pieces) /\ \A i \in 1 .. Len(t) : Written(t[i])
    <2>1. \A i \in 1 .. Len(t) : t[i] \in Pieces /\ Written(t[i])
      BY <1>5 DEF Allowed
    <2> QED BY <1>5, <2>1, SeqDef
  <1>7. PICK m : m = [medium EXCEPT !.pieces = t]
    OBVIOUS
  <1>8. m \in Streams /\ m.pieces = t
    BY <1>3, <1>6, <1>7 DEF Streams
  <1>9. Damage(m)
    BY <1>1, <1>7
  <1> QED BY <1>6, <1>8, <1>9, DamageKeeps

LEMMA HeaderDamagedKeeps == CodecInv /\ HeaderDamaged => CodecInv'
  <1> SUFFICES ASSUME CodecInv, HeaderDamaged PROVE CodecInv'
    OBVIOUS
  <1>1. PICK h \in {"plain", "encrypted", "broken"} : Damage([medium EXCEPT !.header = h])
    BY DEF HeaderDamaged
  <1>2. put = "stored"
    BY <1>1 DEF Damage
  <1>3. medium \in Streams /\ \A i \in 1 .. Len(medium.pieces) : Written(medium.pieces[i])
    BY <1>2 DEF CodecInv, CodecTypeOK, MediumInv
  <1>4. PICK m : m = [medium EXCEPT !.header = h]
    OBVIOUS
  <1>5. m \in Streams /\ m.pieces = medium.pieces
    BY <1>3, <1>4 DEF Streams
  <1>6. Damage(m)
    BY <1>1, <1>4
  <1> QED BY <1>3, <1>5, <1>6, DamageKeeps

-----------------------------------------------------------------------------
(* The steps of reading *)

LEMMA ReaderStep ==
  ASSUME CodecInv, ReaderOnly, put = "stored", reader' \in Readers,
         ReaderInv', VerifiedIsWhole'
  PROVE  CodecInv'
  <1>1. UNCHANGED <<policy, encoder, produced, put, medium, damages>>
    BY DEF ReaderOnly
  <1>2. CodecTypeOK'
    BY <1>1 DEF CodecInv, CodecTypeOK
  <1>3. EncoderInv'
    BY <1>1, SameEncoder DEF CodecInv, EncoderInv
  <1>4. MediumInv'
    BY <1>1, SameMedium DEF CodecInv
  <1> QED BY <1>2, <1>3, <1>4 DEF CodecInv

LEMMA TakenType ==
  ASSUME Len(reader.got) \in Nat
  PROVE  Taken \in Nat
  <1>1. CASE reader.trailer
    BY <1>1 DEF Taken
  <1>2. CASE ~reader.trailer
    BY <1>2 DEF Taken
  <1> QED BY <1>1, <1>2

\* All items, in order, are the logical stream.
LEMMA InOrderIsWhole ==
  ASSUME NEW L \in Nat, L = policy.length, NEW s \in Seq(Items), s = reader.got,
         GotInOrder, Len(s) = L
  PROVE  reader.got = Whole
  <1>1. s = [i \in 1 .. L |-> s[i]]
    OBVIOUS
  <1>2. \A i \in 1 .. L : s[i] = i
    BY DEF GotInOrder
  <1>3. s = [i \in 1 .. L |-> i]
    BY <1>1, <1>2
  <1> QED BY <1>3 DEF Whole

\* The phase alone changes, and what the new one says holds.
LEMMA EndsReading ==
  ASSUME CodecInv, ReaderOnly, put = "stored",
         NEW phase \in {"refused", "draining", "ended", "drained", "restored", "bad", "verified"},
         reader' = [reader EXCEPT !.phase = phase],
         reader.phase \in {"reading", "draining", "ended", "drained"},
         phase = "draining" => reader.phase = "reading",
         phase \in {"ended", "drained"} /\ Encrypted /\ reader.header = "encrypted" =>
           Len(reader.got) = policy.length,
         phase = "verified" => reader.got = Whole
  PROVE  CodecInv'
  <1>1. UNCHANGED <<policy, encoder, put>>
    BY DEF ReaderOnly
  <1>2. reader \in Readers
    BY DEF CodecInv, CodecTypeOK
  <1>3. reader' \in Readers
    BY <1>2 DEF Readers
  <1>4. /\ reader'.phase = phase /\ reader'.header = reader.header /\ reader'.read = reader.read
        /\ reader'.key = reader.key /\ reader'.index = reader.index
        /\ reader'.pending = reader.pending /\ reader'.got = reader.got
    BY <1>2 DEF Readers
  <1>5. reader'.done = reader.done /\ reader'.trailer = reader.trailer
    BY <1>2 DEF Readers
  <1>6. ReadingInv' <=> ReadingInv
    BY <1>1, <1>4, <1>5 DEF ReadingInv, Taken, TrailerInv, Item, Total
  <1>7. BareInv' <=> BareInv
    BY <1>1, <1>4, <1>5 DEF BareInv, InStep, Taken, GotInOrder, TrailerInv, Item, Total
  <1>8. /\ GotInOrder' <=> GotInOrder
        /\ Encrypted' <=> Encrypted
        /\ policy' = policy
    BY <1>1, <1>4 DEF GotInOrder, Encrypted
  <1>9. ReaderInv
    BY DEF CodecInv
  <1>10. Encrypted /\ reader.header = "encrypted" =>
           /\ GotInOrder'
           /\ reader'.phase \in {"reading", "draining"} => ReadingInv'
           /\ reader'.phase \in {"ended", "drained"} => Len(reader'.got) = policy'.length
    BY <1>4, <1>6, <1>8, <1>9 DEF ReaderInv
  <1>11. ~Encrypted /\ reader.header = "plain" => BareInv'
    BY <1>7, <1>9 DEF ReaderInv
  <1>12. ReaderInv'
    BY <1>1, <1>4, <1>8, <1>10, <1>11 DEF ReaderInv
  <1>13. VerifiedIsWhole'
    BY <1>1, <1>4 DEF VerifiedIsWhole, Whole
  <1> QED BY <1>3, <1>12, <1>13, ReaderStep

\* Where the stream ends well, an encrypted one has been delivered from end to end.
LEMMA StreamEndsKeeps ==
  ASSUME CodecInv, ReaderOnly, Reading, StreamEnds \/ Refuse,
         Encrypted /\ reader.header = "encrypted" /\ StreamEnds =>
           reader.done /\ reader.pending = <<>>
  PROVE  CodecInv'
  <1>1. put = "stored" /\ reader.phase \in {"reading", "draining"}
    BY DEF Reading
  <1>2. CASE Refuse
    <2>1. PICK phase \in {"refused"} : reader' = [reader EXCEPT !.phase = phase]
      BY <1>2 DEF Refuse
    <2> QED BY <1>1, <2>1, EndsReading
  <1>3. CASE StreamEnds
    <2>1. PICK phase : phase = IF policy.compression = "gzip" /\ ~reader.trailer THEN "refused"
                               ELSE IF reader.phase = "draining" THEN "drained" ELSE "ended"
      OBVIOUS
    <2>2. reader \in Readers /\ reader.got \in Seq(Items)
      BY DEF CodecInv, CodecTypeOK, Readers
    <2>3. reader' = [reader EXCEPT !.phase = phase]
      BY <1>3, <2>1, <2>2 DEF StreamEnds, Readers
    <2>4. ASSUME phase \in {"ended", "drained"}, Encrypted, reader.header = "encrypted"
          PROVE  Len(reader.got) = policy.length
      <3>1. GotInOrder /\ ReadingInv /\ reader.done /\ Len(reader.pending) = 0
        BY <1>1, <1>3, <2>4 DEF CodecInv, ReaderInv
      <3>2. PICK n \in Nat : n = Len(reader.got)
        BY <2>2
      <3>3. Taken = Total
        <4>1. Taken \in Nat
          BY <3>2, TakenType
        <4> QED BY <3>1, <4>1 DEF ReadingInv
      <3>4. policy.compression = "gzip" => reader.trailer
        BY <2>1, <2>4
      <3>5. CASE reader.trailer
        BY <3>1, <3>5 DEF ReadingInv, TrailerInv
      <3>6. CASE ~reader.trailer
        <4>1. Total = policy.length
          BY <3>4, <3>6, PolicyTypes DEF CodecInv
        <4> QED BY <3>2, <3>3, <3>6, <4>1 DEF Taken
      <3> QED BY <3>5, <3>6
    <2>5. phase \in {"refused", "ended", "drained"}
      BY <2>1
    <2> HIDE <2>1
    <2> QED BY <1>1, <2>3, <2>4, <2>5, EndsReading
  <1> QED BY <1>2, <1>3

LEMMA FrameEndsKeeps == CodecInv /\ FrameEnds => CodecInv'
  BY StreamEndsKeeps DEF FrameEnds

\* What compares equal with what was written is the whole of it.
LEMMA DigestedIsWhole ==
  ASSUME CodecInv, put = "stored", reader.phase \in {"ended", "drained"},
         Digested = encoder.out
  PROVE  reader.got = Whole
  <1>1. encoder.closed /\ AllOut(encoder)
    BY DEF CodecInv, EncoderInv
  <1>2. encoder.out.header = IF Encrypted THEN "encrypted" ELSE "plain"
    BY <1>1 DEF CodecInv, EncoderInv
  <1>3. reader.header = encoder.out.header /\ reader.read = encoder.out.pieces
    BY DEF Digested
  <1>4. PICK L \in Nat : L = policy.length
    BY PolicyTypes DEF CodecInv
  <1>5. /\ Total \in {L, L + 1}
        /\ policy.compression = "gzip" => Total = L + 1
        /\ policy.compression # "gzip" => Total = L
    BY <1>4, PolicyTypes DEF CodecInv
  <1>6. PICK s \in Seq(Items) : s = reader.got
    BY DEF CodecInv, CodecTypeOK, Readers
  <1>7. GotInOrder /\ Len(reader.got) = L
    <2>1. CASE Encrypted
      BY <1>2, <1>3, <1>4, <2>1 DEF CodecInv, ReaderInv
    <2>2. CASE ~Encrypted
      <3>1. BareInv
        BY <1>2, <1>3, <2>2 DEF CodecInv, ReaderInv
      <3>2. Bared(encoder, Total)
        BY <1>1, <2>2 DEF AllOut
      <3>3. InStep /\ Len(reader.read) = Total
        BY <1>3, <1>4, <1>5, <3>2 DEF InStep, Bared
      <3>4. Taken = Total /\ GotInOrder /\ TrailerInv
        BY <3>1, <3>3 DEF BareInv
      <3>5. CASE reader.trailer
        BY <1>4, <3>4, <3>5 DEF TrailerInv
      <3>6. CASE ~reader.trailer
        <4>1. Len(s) \in Nat /\ Len(s) + 0 = Total /\ Len(s) <= L
          BY <1>4, <1>6, <3>4, <3>6 DEF Taken, GotInOrder
        <4> QED BY <1>4, <1>5, <1>6, <3>4, <4>1
      <3> QED BY <3>4, <3>5, <3>6
    <2> QED BY <2>1, <2>2
  <1> QED BY <1>4, <1>6, <1>7, InOrderIsWhole

LEMMA VerifyKeeps == CodecInv /\ Verify => CodecInv'
  <1> SUFFICES ASSUME CodecInv, Verify PROVE CodecInv'
    OBVIOUS
  <1>1. PICK accepted : reader' = [reader EXCEPT !.phase = Judged(accepted)]
    BY DEF Verify
  <1>2. PICK phase : phase = Judged(accepted)
    OBVIOUS
  <1>3. phase \in {"verified", "bad"} /\ (phase = "verified" => Digested = encoder.out)
    BY <1>2 DEF Judged
  <1>4. /\ reader' = [reader EXCEPT !.phase = phase] /\ ReaderOnly /\ put = "stored"
        /\ reader.phase \in {"ended", "drained"}
    BY <1>1, <1>2 DEF Verify
  <1>5. phase = "verified" => reader.got = Whole
    BY <1>3, <1>4, DigestedIsWhole
  <1> HIDE <1>2
  <1> QED BY <1>3, <1>4, <1>5, EndsReading

LEMMA RestoreKeeps == CodecInv /\ Restore => CodecInv'
  <1> SUFFICES ASSUME CodecInv, Restore PROVE CodecInv'
    OBVIOUS
  <1>1. PICK accepted : reader' = [reader EXCEPT !.phase = IF accepted THEN "restored" ELSE "bad"]
    BY DEF Restore
  <1>2. PICK phase \in {"restored", "bad"} : phase = IF accepted THEN "restored" ELSE "bad"
    OBVIOUS
  <1>3. /\ reader' = [reader EXCEPT !.phase = phase] /\ ReaderOnly /\ put = "stored"
        /\ reader.phase = "ended"
    BY <1>1, <1>2 DEF Restore
  <1> HIDE <1>2
  <1> QED BY <1>2, <1>3, EndsReading

LEMMA StopsReadingKeeps == CodecInv /\ StopsReading => CodecInv'
  <1> SUFFICES ASSUME CodecInv, StopsReading PROVE CodecInv'
    OBVIOUS
  <1>1. PICK accepted :
          reader' = [reader EXCEPT !.phase = IF ~accepted THEN "bad"
                                             ELSE IF reader.for = "verify" THEN "draining"
                                             ELSE "restored"]
    BY DEF StopsReading
  <1>2. PICK phase \in {"bad", "draining", "restored"} :
          phase = IF ~accepted THEN "bad"
                  ELSE IF reader.for = "verify" THEN "draining" ELSE "restored"
    OBVIOUS
  <1>3. /\ reader' = [reader EXCEPT !.phase = phase] /\ ReaderOnly /\ put = "stored"
        /\ reader.phase = "reading"
    BY <1>1, <1>2 DEF StopsReading
  <1> HIDE <1>2
  <1> QED BY <1>2, <1>3, EndsReading

LEMMA CloseKeeps == CodecInv /\ Close => CodecInv'
  <1> SUFFICES ASSUME CodecInv, Close PROVE CodecInv'
    OBVIOUS
  <1>1. reader' = NoReader /\ ReaderOnly /\ put = "stored"
    BY DEF Close, CodecInv, ReaderInv
  <1>2. reader' \in Readers
    BY <1>1 DEF NoReader, Readers
  <1>3. ReaderInv'
    BY <1>1 DEF ReaderInv, NoReader, ReaderOnly
  <1>4. VerifiedIsWhole'
    BY <1>1 DEF VerifiedIsWhole, NoReader
  <1> QED BY <1>1, <1>2, <1>3, <1>4, ReaderStep

LEMMA OpenBackupKeeps ==
  ASSUME CodecInv, NEW purpose \in {"verify", "restore"},
         NEW key \in Keys \union {NoKey, Unresolved}, OpenBackup(purpose, key)
  PROVE  CodecInv'
  <1>1. put = "stored" /\ ReaderOnly
    BY DEF OpenBackup, ReaderOnly
  <1>2. PICK phase \in {"reading", "refused"} :
          phase = IF DecryptIfNeeded(key) THEN "reading" ELSE "refused"
    OBVIOUS
  <1>12. PICK header \in {"none", "plain", "encrypted", "broken"} : header = medium.header
    BY DEF CodecInv, CodecTypeOK, Streams
  <1>3. reader' = [NoReader EXCEPT !.for = purpose, !.key = key, !.header = header,
                                   !.phase = phase]
    BY <1>2, <1>12 DEF OpenBackup
  <1>4. /\ reader' \in Readers
        /\ reader'.phase = phase /\ reader'.key = key /\ reader'.index = 0
        /\ reader'.header = header /\ reader'.read = <<>>
        /\ reader'.pending = <<>> /\ reader'.got = <<>>
        /\ reader'.done = FALSE /\ reader'.trailer = FALSE
    <2> HIDE <1>2, <1>12
    <2>1. PICK r : r = reader'
      OBVIOUS
    <2>2. r = [phase |-> phase, for |-> purpose, key |-> key, header |-> header,
               read |-> <<>>, index |-> 0,
               pending |-> <<>>, done |-> FALSE, got |-> <<>>, trailer |-> FALSE]
      BY <1>3, <2>1 DEF NoReader
    <2>3. <<>> \in Seq(Items) /\ <<>> \in Seq(Pieces)
      OBVIOUS
    <2>4. r \in Readers
      BY <2>2, <2>3 DEF Readers
    <2>5. /\ r.phase = phase /\ r.key = key /\ r.index = 0 /\ r.pending = <<>> /\ r.got = <<>>
          /\ r.header = header /\ r.read = <<>>
      BY <2>2
    <2>6. r.done = FALSE
      BY <2>2
    <2>7. r.trailer = FALSE
      BY <2>2
    <2> QED BY <2>1, <2>4, <2>5, <2>6, <2>7
  <1>6. phase = "reading" /\ header = "encrypted" => key \in Keys
    BY <1>2, <1>12 DEF DecryptIfNeeded
  <1>7. UNCHANGED <<policy, encoder, put, medium>>
    BY <1>1 DEF ReaderOnly
  <1>8. GotInOrder' /\ Taken' = 0 /\ Len(reader'.pending) = 0 /\ TrailerInv'
    <2>1. PICK L \in Nat : L = policy'.length
      BY <1>7, PolicyTypes DEF CodecInv
    <2> QED BY <1>4, <2>1 DEF GotInOrder, Taken, TrailerInv
  <1>9. phase = "reading" /\ header = "encrypted" => ReadingInv'
    <2>2. Total' \in Nat
      BY <1>7, PolicyTypes DEF CodecInv, Total
    <2>3. Len(encoder'.out.pieces) \in Nat
      BY <1>7, EncoderTypes DEF CodecInv, CodecTypeOK
    <2>4. 0 * ChunkSize = 0
      BY CodecAssumption
    <2> QED BY <1>4, <1>6, <1>8, <2>2, <2>3, <2>4 DEF ReadingInv
  <1>13. BareInv'
    BY <1>4, <1>8 DEF BareInv
  <1>10. ReaderInv'
    <2> HIDE <1>2, <1>12
    <2> QED BY <1>1, <1>2, <1>4, <1>7, <1>8, <1>9, <1>13 DEF ReaderInv
  <1>11. VerifiedIsWhole'
    BY <1>4 DEF VerifiedIsWhole
  <1> QED BY <1>1, <1>4, <1>10, <1>11, ReaderStep

\* What an item does to the reader: it goes on, the trailer fits, or it is refused.
LEMMA InflateCases ==
  ASSUME NEW r \in Readers, NEW item, NEW x, x = Inflate(r, item)
  PROVE  \/ /\ x = [r EXCEPT !.got = Append(@, item)]
            /\ policy.compression = "none" \/ (~r.trailer /\ item <= MaxLength)
         \/ /\ x = [r EXCEPT !.trailer = TRUE]
            /\ ~r.trailer /\ policy.compression # "none" /\ ~(item <= MaxLength)
         \/ x = [r EXCEPT !.phase = "refused"]
  BY DEF Inflate

LEMMA InflateKeeps ==
  ASSUME NEW r \in Readers, r.phase \in {"reading", "draining"}, NEW item \in Items,
         NEW x, x = Inflate(r, item)
  PROVE  /\ x \in Readers /\ x.phase \in {r.phase, "refused"}
         /\ x.key = r.key /\ x.index = r.index /\ x.pending = r.pending
         /\ x.header = r.header /\ x.read = r.read /\ x.done = r.done
  <1>1. PICK g \in Seq(Items) : g = Append(r.got, item)
    BY AppendedPiece DEF Readers
  <1>2. CASE x = [r EXCEPT !.got = Append(@, item)]
    <2>1. x = [r EXCEPT !.got = g]
      BY <1>1, <1>2 DEF Readers
    <2>2. x \in Readers
      BY <2>1 DEF Readers
    <2>3. /\ x.phase = r.phase /\ x.key = r.key /\ x.index = r.index /\ x.pending = r.pending
          /\ x.header = r.header /\ x.read = r.read
      BY <2>1 DEF Readers
    <2>4. x.done = r.done
      BY <2>1 DEF Readers
    <2> QED BY <2>2, <2>3, <2>4
  <1>3. CASE x = [r EXCEPT !.trailer = TRUE]
    <2>2. x \in Readers
      BY <1>3 DEF Readers
    <2>3. /\ x.phase = r.phase /\ x.key = r.key /\ x.index = r.index /\ x.pending = r.pending
          /\ x.header = r.header /\ x.read = r.read
      BY <1>3 DEF Readers
    <2>4. x.done = r.done
      BY <1>3 DEF Readers
    <2> QED BY <2>2, <2>3, <2>4
  <1>4. CASE x = [r EXCEPT !.phase = "refused"]
    <2>2. x \in Readers
      BY <1>4 DEF Readers
    <2>3. /\ x.phase = "refused" /\ x.key = r.key /\ x.index = r.index
          /\ x.pending = r.pending /\ x.header = r.header /\ x.read = r.read
      BY <1>4 DEF Readers
    <2>4. x.done = r.done
      BY <1>4 DEF Readers
    <2> QED BY <2>2, <2>3, <2>4
  <1> QED BY <1>2, <1>3, <1>4, InflateCases

LEMMA InflateReads ==
  ASSUME NEW r \in Readers, NEW item \in Items,
         NEW x, x = Inflate(r, item)
  PROVE  \/ /\ x.trailer = r.trailer /\ x.got = Append(r.got, item)
            /\ policy.compression = "none" \/ (~r.trailer /\ item <= MaxLength)
         \/ /\ x.trailer = TRUE /\ x.got = r.got
            /\ ~r.trailer /\ policy.compression # "none" /\ ~(item <= MaxLength)
         \/ x.phase = "refused" /\ x.got = r.got
  <1>1. PICK g \in Seq(Items) : g = Append(r.got, item)
    BY AppendedPiece DEF Readers
  <1>2. x = [r EXCEPT !.got = Append(@, item)] => x.got = Append(r.got, item)
    BY <1>1 DEF Readers
  <1>3. x = [r EXCEPT !.got = Append(@, item)] => x.trailer = r.trailer
    BY DEF Readers
  <1>4. x = [r EXCEPT !.trailer = TRUE] => x.got = r.got
    BY DEF Readers
  <1>5. x = [r EXCEPT !.trailer = TRUE] => x.trailer = TRUE
    BY DEF Readers
  <1>6. x = [r EXCEPT !.phase = "refused"] => x.phase = "refused" /\ x.got = r.got
    BY DEF Readers
  <1> QED BY <1>2, <1>3, <1>4, <1>5, <1>6, InflateCases

\* The item that is due passes the gzip reader in its place.
LEMMA ReadItem ==
  ASSUME CodecInv, GotInOrder, TrailerInv, Taken + 1 <= Total,
         NEW r \in Readers, r.got = reader.got, r.trailer = reader.trailer,
         NEW item \in Items, item = Item(Taken + 1), NEW x, x = Inflate(r, item)
  PROVE  /\ Len(x.got) <= policy.length /\ \A i \in 1 .. Len(x.got) : x.got[i] = i
         /\ x.phase # "refused" =>
              /\ x.trailer => Len(x.got) = policy.length /\ policy.compression = "gzip"
              /\ Len(x.got) + (IF x.trailer THEN 1 ELSE 0) = Taken + 1
  <1>1. reader \in Readers /\ reader.got \in Seq(Items) /\ reader.trailer \in BOOLEAN
    BY DEF CodecInv, CodecTypeOK, Readers
  <1>4. PICK L \in Nat : L = policy.length /\ L <= MaxLength /\ MaxLength \in Nat
    BY PolicyTypes, CodecAssumption DEF CodecInv
  <1>5. /\ Total \in {L, L + 1}
        /\ policy.compression = "gzip" => Total = L + 1
        /\ policy.compression # "gzip" => Total = L
    BY <1>4, PolicyTypes DEF CodecInv
  <1>6. PICK n \in Nat : n = Len(reader.got)
    BY <1>1
  <1>7. PICK took \in Nat : took = Taken
    BY <1>6, TakenType
  <1>8. took = n + (IF reader.trailer THEN 1 ELSE 0)
    BY <1>6, <1>7 DEF Taken
  <1>9. n <= L /\ (reader.trailer => n = L /\ policy.compression = "gzip")
    BY <1>4, <1>6 DEF GotInOrder, TrailerInv
  <1>11. ~reader.trailer /\ took = n
    <2>1. CASE reader.trailer
      BY <1>4, <1>5, <1>7, <1>8, <1>9, <2>1
    <2>2. CASE ~reader.trailer
      BY <1>8, <2>2
    <2> QED BY <2>1, <2>2
  <1>12. item = IF n + 1 <= L THEN n + 1 ELSE MaxLength + 1 + L
    BY <1>4, <1>7, <1>11 DEF Item, Trailer
  <1>13. \A i \in 1 .. n : reader.got[i] = i
    BY <1>6 DEF GotInOrder
  <1>14. \/ /\ x.trailer = r.trailer /\ x.got = Append(r.got, item)
            /\ policy.compression = "none" \/ (~r.trailer /\ item <= MaxLength)
         \/ /\ x.trailer = TRUE /\ x.got = r.got
            /\ ~r.trailer /\ policy.compression # "none" /\ ~(item <= MaxLength)
         \/ x.phase = "refused" /\ x.got = r.got
    BY InflateReads
  <1>15. CASE /\ x.trailer = r.trailer /\ x.got = Append(r.got, item)
              /\ policy.compression = "none" \/ (~r.trailer /\ item <= MaxLength)
    <2>1. n + 1 <= L
      <3>1. CASE policy.compression = "none"
        BY <1>4, <1>5, <1>7, <1>11, <3>1
      <3>2. CASE item <= MaxLength
        BY <1>4, <1>12, <3>2
      <3> QED BY <1>15, <3>1, <3>2
    <2>2. item = n + 1
      BY <1>12, <2>1
    <2>3. PICK s \in Seq(Items) : s = Append(reader.got, item)
      BY <1>1, AppendedPiece
    <2>4. /\ Len(s) = n + 1 /\ s[n + 1] = n + 1
          /\ \A i \in 1 .. n : s[i] = reader.got[i]
      BY <1>1, <1>6, <2>2, <2>3, AppendedPiece
    <2>5. \A i \in 1 .. n + 1 : s[i] = i
      BY <1>13, <2>4
    <2>6. x.got = s /\ ~x.trailer
      BY <1>11, <1>15, <2>3
    <2> QED BY <1>4, <1>7, <1>11, <2>1, <2>4, <2>5, <2>6
  <1>16. CASE /\ x.trailer = TRUE /\ x.got = r.got
              /\ ~r.trailer /\ policy.compression # "none" /\ ~(item <= MaxLength)
    <2>1. ~(n + 1 <= L)
      BY <1>4, <1>12, <1>16
    <2>2. n = L
      BY <1>4, <1>9, <2>1
    <2>3. policy.compression = "gzip"
      BY <1>16 DEF CodecInv, CodecTypeOK, Compressions
    <2>4. x.trailer /\ x.got = reader.got
      BY <1>16
    <2>5. Len(x.got) = L /\ \A i \in 1 .. L : x.got[i] = i
      BY <1>6, <1>13, <2>2, <2>4
    <2>6. Len(x.got) + 1 = Taken + 1
      BY <1>7, <1>11, <2>2, <2>5
    <2> QED BY <1>4, <2>3, <2>4, <2>5, <2>6
  <1>17. CASE x.phase = "refused" /\ x.got = r.got
    BY <1>4, <1>6, <1>9, <1>13, <1>17
  <1> QED BY <1>14, <1>15, <1>16, <1>17

LEMMA ReadBareKeeps == CodecInv /\ ReadBare => CodecInv'
  <1> SUFFICES ASSUME CodecInv, ReadBare PROVE CodecInv'
    OBVIOUS
  <1>1. /\ Reading /\ reader.header = "plain" /\ ReaderOnly
        /\ put = "stored" /\ reader.phase \in {"reading", "draining"}
    BY DEF ReadBare, Reading
  <1>2. CASE AtEnd
    <2>1. StreamEnds
      BY <1>2 DEF ReadBare
    <2> QED BY <1>1, <2>1, StreamEndsKeeps
  <1>3. CASE ~AtEnd
    <2>1. PICK p : p = medium.pieces[ReadAt]
      OBVIOUS
    <2>2. PICK item : item = IF p.key = NoKey THEN Head(p.plain) ELSE Garbage
      OBVIOUS
    <2>5. /\ reader \in Readers /\ reader.read \in Seq(Pieces) /\ reader.got \in Seq(Items)
      BY DEF CodecInv, CodecTypeOK, Readers
    <2>10. p \in Pieces
      <3>1. medium.pieces \in Seq(Pieces)
        BY <1>1, MediumTypes
      <3>2. ReadAt \in 1 .. Len(medium.pieces)
        BY <1>3, <2>5, <3>1 DEF AtEnd, ReadAt, Count
      <3> QED BY <2>1, <3>1, <3>2
    <2>11. PICK read \in Seq(Pieces) : read = Append(reader.read, p)
      BY <2>5, <2>10, AppendedPiece
    <2>3. PICK r : r = [reader EXCEPT !.read = read]
      OBVIOUS
    <2>4. reader' = Inflate(r, item)
      <3>1. reader' = Inflate([reader EXCEPT !.read = Append(@, p)], item)
        BY <1>3, <2>1, <2>2 DEF ReadBare
      <3> QED BY <2>3, <2>5, <2>11, <3>1 DEF Readers
    <2>6. /\ r \in Readers /\ r.phase = reader.phase /\ r.header = reader.header
          /\ r.read = read /\ r.got = reader.got
      BY <2>3, <2>5 DEF Readers
    <2>12. r.trailer = reader.trailer
      BY <2>3, <2>5 DEF Readers
    <2>7. item \in Items
      <3>1. Garbage \in Items
        BY CodecAssumption DEF Garbage, Items, Trailer
      <3>2. CASE p.key = NoKey
        <4>2. p.plain \in Seq(Items) /\ Len(p.plain) > 0
          BY <2>10, <3>2 DEF Pieces, Chunks
        <4> QED BY <2>2, <3>2, <4>2
      <3> QED BY <2>2, <3>1, <3>2
    <2> HIDE <2>3
    <2>8. PICK x : x = reader' /\ x = Inflate(r, item)
      BY <2>4
    <2>9. /\ x \in Readers /\ x.phase \in {reader.phase, "refused"}
          /\ x.header = reader.header /\ x.read = read
      BY <1>1, <2>6, <2>7, <2>8, InflateKeeps
    <2>13. UNCHANGED <<policy, encoder, put>>
      BY <1>1 DEF ReaderOnly
    <2>14. ASSUME ~Encrypted, x.phase # "refused" PROVE BareInv'
      <3> SUFFICES ASSUME InStep' PROVE Taken' = Len(reader'.read) /\ GotInOrder' /\ TrailerInv'
        BY DEF BareInv
      <3>1. PICK n \in Nat : n = Len(reader.read)
        BY <2>5
      <3>2. /\ Len(read) = n + 1 /\ read[n + 1] = p
            /\ \A i \in 1 .. n : read[i] = reader.read[i]
        BY <2>5, <2>10, <2>11, <3>1, AppendedPiece
      <3>3. \A i \in 1 .. n + 1 : i <= Total /\ read[i] = Bare(Item(i))
        BY <2>8, <2>9, <2>13, <3>2 DEF InStep, Item, Total
      <3>4. InStep
        BY <3>1, <3>2, <3>3 DEF InStep
      <3>5. Taken = n /\ GotInOrder /\ TrailerInv
        BY <1>1, <2>14, <3>1, <3>4 DEF CodecInv, ReaderInv, BareInv
      <3>6. n + 1 <= Total /\ p = Bare(Item(n + 1))
        BY <3>2, <3>3
      <3>7. item = Item(Taken + 1)
        <4>1. PICK due : due = Item(n + 1)
          OBVIOUS
        <4>2. p.key = NoKey /\ p.plain = <<due>>
          BY <3>6, <4>1 DEF Bare
        <4> QED BY <2>2, <3>5, <4>1, <4>2
      <3>8. /\ Len(x.got) <= policy.length /\ \A i \in 1 .. Len(x.got) : x.got[i] = i
            /\ x.phase # "refused" =>
                 /\ x.trailer => Len(x.got) = policy.length /\ policy.compression = "gzip"
                 /\ Len(x.got) + (IF x.trailer THEN 1 ELSE 0) = Taken + 1
        <4>1. Taken + 1 <= Total
          BY <3>5, <3>6
        <4> QED BY <2>6, <2>7, <2>8, <2>12, <3>5, <3>7, <4>1, ReadItem
      <3>9. GotInOrder' /\ TrailerInv'
        BY <2>8, <2>13, <2>14, <3>8 DEF GotInOrder, TrailerInv
      <3>10. Taken' = Len(reader'.read)
        BY <2>8, <2>9, <2>14, <3>2, <3>5, <3>8 DEF Taken
      <3> QED BY <3>9, <3>10
    <2>15. ReaderInv'
      <3>1. reader'.phase # "closed" /\ reader'.header = "plain" /\ put' = "stored"
        BY <1>1, <2>8, <2>9, <2>13
      <3>2. Encrypted' <=> Encrypted
        BY <2>13 DEF Encrypted
      <3>3. ~Encrypted' /\ reader'.phase # "refused" => BareInv'
        BY <2>8, <2>14, <3>2
      <3> QED BY <3>1, <3>3 DEF ReaderInv
    <2>16. VerifiedIsWhole'
      BY <1>1, <2>8, <2>9 DEF VerifiedIsWhole
    <2> QED BY <1>1, <2>8, <2>9, <2>15, <2>16, ReaderStep
  <1> QED BY <1>2, <1>3

\* What opens is the chunk that was written there.
LEMMA OpenedChunk ==
  ASSUME CodecInv, put = "stored", Encrypted, reader.key \in Keys, reader.index \in Nat,
         NEW i \in 1 .. Len(medium.pieces), Opens(medium.pieces[i])
  PROVE  /\ reader.index + 1 \in 1 .. Len(encoder.out.pieces)
         /\ medium.pieces[i] = encoder.out.pieces[reader.index + 1]
         /\ ChunkOf(medium.pieces[i], reader.index + 1)
  <1>1. PICK p : p = medium.pieces[i]
    OBVIOUS
  <1>2. p.key = reader.key /\ p.at = reader.index
    BY <1>1 DEF Opens, ChunkAAD
  <1>3. PICK j \in 1 .. Len(encoder.out.pieces) : p = encoder.out.pieces[j]
    BY <1>1, <1>2 DEF CodecInv, MediumInv, Written
  <1>4. ChunkOf(p, j)
    BY <1>3 DEF CodecInv, EncoderInv, AllOut, Finished
  <1>5. p.at = j - 1 /\ j \in Nat
    <2>1. Len(encoder.out.pieces) \in Nat
      BY EncoderTypes DEF CodecInv, CodecTypeOK
    <2> QED BY <1>4, <2>1 DEF ChunkOf
  <1>6. j = reader.index + 1
    BY <1>2, <1>5
  <1> QED BY <1>1, <1>3, <1>4, <1>6

LEMMA NextChunkKeeps == CodecInv /\ NextChunk => CodecInv'
  <1> SUFFICES ASSUME CodecInv, NextChunk PROVE CodecInv'
    OBVIOUS
  <1>1. /\ put = "stored" /\ Reading /\ reader.phase \in {"reading", "draining"} /\ ReaderOnly
        /\ reader.header = "encrypted" /\ reader.pending = <<>>
    BY DEF NextChunk, Reading
  <1>2. CASE Refuse
    <2>1. PICK phase \in {"refused"} : reader' = [reader EXCEPT !.phase = phase]
      BY <1>2 DEF Refuse
    <2> QED BY <1>1, <2>1, EndsReading
  <1>3. CASE ~Refuse
    <2>1. PICK piece : piece = medium.pieces[ReadAt]
      OBVIOUS
    <2>2. /\ ~AtEnd /\ Opens(piece)
          /\ reader' = [reader EXCEPT !.read = Append(@, piece), !.index = @ + 1,
                          !.pending = piece.plain, !.done = piece.plain = <<>>]
      BY <1>3, <2>1 DEF NextChunk
    <2>3. /\ reader \in Readers /\ reader.read \in Seq(Pieces) /\ reader.index \in Nat
          /\ reader.got \in Seq(Items)
      BY DEF CodecInv, CodecTypeOK, Readers
    <2>4. piece \in Pieces /\ ReadAt \in 1 .. Len(medium.pieces)
      <3>1. medium.pieces \in Seq(Pieces)
        BY <1>1, MediumTypes
      <3>2. ReadAt \in 1 .. Len(medium.pieces)
        BY <2>2, <2>3, <3>1 DEF AtEnd, ReadAt, Count
      <3> QED BY <2>1, <3>1, <3>2
    <2>5. piece.plain \in Seq(Items) /\ Len(piece.plain) <= ChunkSize
      BY <2>4 DEF Pieces, Chunks
    <2>6. PICK plain \in Seq(Items) : plain = piece.plain
      BY <2>5
    <2>7. PICK done \in BOOLEAN : done = (piece.plain = <<>>)
      OBVIOUS
    <2>20. piece.plain = <<>> <=> Len(plain) = 0
      BY <2>6
    <2>16. done <=> Len(plain) = 0
      BY <2>7, <2>20, Zenon
    <2>17. PICK read \in Seq(Pieces) : read = Append(reader.read, piece)
      BY <2>3, <2>4, AppendedPiece
    <2>18. PICK n \in Nat : n = reader.index + 1
      BY <2>3
    <2> HIDE <2>7
    <2>8. reader' = [reader EXCEPT !.read = read, !.index = n, !.pending = plain, !.done = done]
      BY <2>2, <2>3, <2>6, <2>7, <2>17, <2>18 DEF Readers
    <2>9. reader' \in Readers
      <3>1. PICK r : r = reader'
        OBVIOUS
      <3>3. r = [reader EXCEPT !.read = read, !.index = n, !.pending = plain, !.done = done]
        BY <2>8, <3>1
      <3> HIDE <3>1
      <3>4. r \in Readers
        BY <2>3, <3>3 DEF Readers
      <3> QED BY <3>1, <3>4
    <2>10. /\ reader'.phase = reader.phase /\ reader'.key = reader.key
           /\ reader'.header = reader.header
           /\ reader'.index = n /\ reader'.pending = plain /\ reader'.got = reader.got
      BY <2>3, <2>8 DEF Readers
    <2>11. reader'.trailer = reader.trailer
      BY <2>3, <2>8 DEF Readers
    <2>19. reader'.done = done
      BY <2>3, <2>8 DEF Readers
    <2>12. UNCHANGED <<policy, encoder, put, medium>>
      BY <1>1 DEF ReaderOnly
    <2>13. Encrypted => GotInOrder' /\ ReadingInv'
      <3> SUFFICES ASSUME Encrypted PROVE GotInOrder' /\ ReadingInv'
        OBVIOUS
      <3>1. GotInOrder /\ ReadingInv
        BY <1>1 DEF CodecInv, ReaderInv
      <3>2. GotInOrder'
        BY <2>10, <2>12, <3>1 DEF GotInOrder
      <3>3. PICK j \in Nat : j = reader.index + 1
        BY <2>3
      <3>4. /\ j \in 1 .. Len(encoder.out.pieces) /\ piece = encoder.out.pieces[j]
            /\ ChunkOf(piece, j)
        BY <1>1, <2>1, <2>2, <2>3, <2>4, <3>1, <3>3, OpenedChunk DEF ReadingInv
      <3>5. PICK took \in Nat : took = Taken
        <4>1. Len(reader.got) \in Nat
          BY <2>3
        <4> QED BY <4>1, TakenType
      <3>6. Taken' = took
        BY <2>10, <2>11, <3>5 DEF Taken
      <3>7. /\ took <= Total
            /\ \/ took = (j - 1) * ChunkSize
               \/ /\ took = Total
                  /\ \A k \in j .. Len(encoder.out.pieces) :
                       Len(encoder.out.pieces[k].plain) = 0
        <4>1. Len(reader.pending) = 0
          BY <1>1
        <4>2. Taken + Len(reader.pending) = took /\ j - 1 = reader.index
          BY <2>3, <3>3, <3>5, <4>1
        <4> QED BY <3>1, <3>3, <4>2 DEF ReadingInv
      <3>8. /\ Len(plain) \in Nat /\ Len(plain) <= ChunkSize /\ ChunkSize \in Nat
            /\ ChunkSize > 0 /\ Total \in Int
        BY <2>5, <2>6, CodecAssumption, PolicyTypes DEF CodecInv
      <3>9. PICK x \in Int : x = (j - 1) * ChunkSize /\ j * ChunkSize = x + ChunkSize
        <4>1. PICK m \in Nat : m = reader.index /\ j = m + 1 /\ j - 1 = m
          BY <2>3, <3>3
        <4>2. PICK y \in Nat : y = m * ChunkSize
          BY NextStart
        <4>3. (m + 1) * ChunkSize = y + ChunkSize
          BY <4>2, NextStart
        <4> QED BY <4>1, <4>2, <4>3
      <3>10. \A i \in 1 .. Len(plain) : x + i <= Total /\ plain[i] = Item(x + i)
        BY <2>6, <3>4, <3>9 DEF ChunkOf
      <3>11. took = x \/ (Len(plain) = 0 /\ took = Total)
        <4>1. CASE took = (j - 1) * ChunkSize
          BY <3>9, <4>1
        <4>2. CASE took = Total /\ \A k \in j .. Len(encoder.out.pieces) :
                                     Len(encoder.out.pieces[k].plain) = 0
          <5>1. j \in j .. Len(encoder.out.pieces)
            BY <3>4
          <5> QED BY <2>6, <3>4, <4>2, <5>1
        <4> QED BY <3>7, <4>1, <4>2
      <3>12. took + Len(plain) <= Total
        <4>1. CASE Len(plain) = 0
          BY <3>7, <4>1
        <4>2. CASE Len(plain) > 0 /\ took = x
          <5>1. x + Len(plain) <= Total
            BY <3>8, <3>10, <4>2
          <5> QED BY <4>2, <5>1
        <4> QED BY <3>8, <3>11, <4>1, <4>2
      <3>13. \A i \in 1 .. Len(plain) : plain[i] = Item(took + i)
        <4>1. CASE took = x
          BY <3>10, <4>1
        <4>2. CASE Len(plain) = 0
          BY <4>2
        <4> QED BY <3>11, <4>1, <4>2
      <3>16. Len(plain) < ChunkSize =>
               /\ took + Len(plain) = Total
               /\ \A k \in j + 1 .. Len(encoder.out.pieces) :
                    Len(encoder.out.pieces[k].plain) = 0
        <4> SUFFICES ASSUME Len(plain) < ChunkSize
                     PROVE  /\ took + Len(plain) = Total
                            /\ \A k \in j + 1 .. Len(encoder.out.pieces) :
                                 Len(encoder.out.pieces[k].plain) = 0
          OBVIOUS
        <4>1. Finished(encoder.out.pieces)
          BY <1>1 DEF CodecInv, EncoderInv, AllOut
        <4>2. Len(encoder.out.pieces[j].plain) < ChunkSize
          BY <2>6, <3>4
        <4>3. x + Len(plain) >= Total
          BY <2>6, <3>4, <3>9, <4>1, <4>2 DEF Finished
        <4>4. took + Len(plain) = Total
          BY <3>8, <3>11, <3>12, <4>3
        <4>5. ASSUME NEW k \in j + 1 .. Len(encoder.out.pieces)
              PROVE  Len(encoder.out.pieces[k].plain) = 0
          <5>1. Len(encoder.out.pieces) \in Nat
            BY EncoderTypes DEF CodecInv, CodecTypeOK
          <5>2. k \in 1 .. Len(encoder.out.pieces) /\ j < k
            BY <3>4, <5>1
          <5> QED BY <3>4, <4>1, <4>2, <5>2 DEF Finished
        <4> QED BY <4>4, <4>5
      <3>14. \/ took + Len(plain) = j * ChunkSize
             \/ /\ took + Len(plain) = Total
                /\ \A k \in j + 1 .. Len(encoder.out.pieces) :
                     Len(encoder.out.pieces[k].plain) = 0
        <4>1. CASE Len(plain) < ChunkSize
          BY <3>16, <4>1
        <4>2. CASE ~(Len(plain) < ChunkSize)
          <5>1. Len(plain) = ChunkSize /\ took = x
            BY <3>8, <3>11, <4>2
          <5> QED BY <3>9, <5>1
        <4> QED BY <4>1, <4>2
      <3>15. ReadingInv'
        <4>1. reader'.key \in Keys /\ reader'.index <= Len(encoder'.out.pieces)
          BY <2>10, <2>12, <2>18, <3>1, <3>3, <3>4 DEF ReadingInv
        <4>2. TrailerInv'
          BY <2>10, <2>11, <2>12, <3>1 DEF ReadingInv, TrailerInv
        <4>3. Taken' + Len(reader'.pending) <= Total'
          BY <2>10, <2>12, <3>6, <3>12 DEF Total
        <4>4. \A i \in 1 .. Len(reader'.pending) : reader'.pending[i] = (Item(Taken + i))'
          BY <2>10, <2>12, <3>6, <3>13 DEF Item
        <4>5. \/ Taken' + Len(reader'.pending) = reader'.index * ChunkSize
              \/ /\ Taken' + Len(reader'.pending) = Total'
                 /\ \A k \in reader'.index + 1 .. Len(encoder'.out.pieces) :
                      Len(encoder'.out.pieces[k].plain) = 0
          BY <2>10, <2>12, <2>18, <3>3, <3>6, <3>14 DEF Total
        <4>6. reader'.done => Taken' + Len(reader'.pending) = Total'
          <5>1. done => took + Len(plain) = Total
            BY <2>16, <3>8, <3>16
          <5> QED BY <2>10, <2>12, <2>19, <3>6, <5>1 DEF Total
        <4> QED BY <4>1, <4>2, <4>3, <4>4, <4>5, <4>6 DEF ReadingInv
      <3> QED BY <3>2, <3>15
    <2>14. ReaderInv'
      <3>1. /\ reader'.phase \in {"reading", "draining"} /\ reader'.header = "encrypted"
            /\ put' = "stored"
        BY <1>1, <2>10, <2>12
      <3>2. Encrypted' => GotInOrder' /\ ReadingInv'
        BY <2>12, <2>13 DEF Encrypted
      <3> QED BY <3>1, <3>2 DEF ReaderInv
    <2>15. VerifiedIsWhole'
      BY <1>1, <2>10 DEF VerifiedIsWhole
    <2> QED BY <1>1, <2>9, <2>14, <2>15, ReaderStep
  <1> QED BY <1>2, <1>3

LEMMA FrameReadKeeps == CodecInv /\ FrameRead => CodecInv'
  <1> SUFFICES ASSUME CodecInv, FrameRead PROVE CodecInv'
    OBVIOUS
  <1>1. /\ put = "stored" /\ reader.phase \in {"reading", "draining"} /\ ReaderOnly
        /\ reader.header = "encrypted" /\ reader.pending # <<>>
    BY DEF FrameRead, Reading
  <1>2. reader \in Readers /\ reader.pending \in Seq(Items) /\ reader.index \in Nat
    BY DEF CodecInv, CodecTypeOK, Readers
  <1>3. PICK rest \in Seq(Items) : rest = Tail(reader.pending)
    BY <1>1, <1>2, HeadTailProperties
  <1>4. /\ Head(reader.pending) = reader.pending[1] /\ reader.pending[1] \in Items
        /\ Len(reader.pending) > 0 /\ Len(reader.pending) \in Nat
        /\ Len(rest) = Len(reader.pending) - 1
        /\ \A i \in 1 .. Len(rest) : rest[i] = reader.pending[i + 1]
    BY <1>1, <1>2, <1>3, HeadTailProperties
  <1>5. PICK r : r = [reader EXCEPT !.pending = rest]
    OBVIOUS
  <1>6. PICK item \in Items : item = reader.pending[1]
    BY <1>4
  <1>7. reader' = Inflate(r, item)
    BY <1>2, <1>3, <1>4, <1>5, <1>6 DEF FrameRead, Readers
  <1>8. /\ r \in Readers
        /\ r.phase = reader.phase /\ r.key = reader.key /\ r.index = reader.index
        /\ r.header = reader.header /\ r.pending = rest /\ r.got = reader.got
    BY <1>1, <1>2, <1>5 DEF Readers
  <1>9. r.trailer = reader.trailer
    BY <1>2, <1>5 DEF Readers
  <1>17. r.done = reader.done
    BY <1>2, <1>5 DEF Readers
  <1> HIDE <1>3, <1>5
  <1>10. PICK x : x = reader'
    OBVIOUS
  <1>11. x = Inflate(r, item)
    BY <1>7, <1>10
  <1>12. /\ x \in Readers /\ x.phase \in {reader.phase, "refused"}
         /\ x.key = reader.key /\ x.index = reader.index /\ x.pending = rest
         /\ x.header = reader.header /\ x.done = reader.done
    <2>1. r \in Readers /\ r.phase \in {"reading", "draining"} /\ item \in Items
      BY <1>1, <1>6, <1>8
    <2>2. /\ x \in Readers /\ x.phase \in {r.phase, "refused"}
          /\ x.key = r.key /\ x.index = r.index /\ x.pending = r.pending
          /\ x.header = r.header /\ x.read = r.read /\ x.done = r.done
      BY <1>11, <2>1, InflateKeeps
    <2> QED BY <1>8, <1>17, <2>2
  <1>13. UNCHANGED <<policy, encoder, put, medium>>
    BY <1>1 DEF ReaderOnly
  <1>14. Encrypted => GotInOrder' /\ (x.phase # "refused" => ReadingInv')
    <2> SUFFICES ASSUME Encrypted
                 PROVE  GotInOrder' /\ (x.phase # "refused" => ReadingInv')
      OBVIOUS
    <2>4. GotInOrder /\ ReadingInv
      BY <1>1 DEF CodecInv, ReaderInv
    <2>5. PICK L \in Nat : L = Len(reader.pending) /\ L > 0
      BY <1>4
    <2>6. Taken \in Nat /\ Taken + L <= Total /\ Total \in Int
      <3>1. Len(reader.got) \in Nat
        BY <1>2 DEF Readers
      <3> QED BY <2>4, <2>5, <3>1, TakenType, PolicyTypes DEF ReadingInv, CodecInv
    <2>7. Taken + 1 <= Total /\ item = Item(Taken + 1)
      BY <1>6, <2>4, <2>5, <2>6 DEF ReadingInv
    <2>1. /\ Len(x.got) <= policy.length /\ \A i \in 1 .. Len(x.got) : x.got[i] = i
          /\ x.phase # "refused" =>
               /\ x.trailer => Len(x.got) = policy.length /\ policy.compression = "gzip"
               /\ Len(x.got) + (IF x.trailer THEN 1 ELSE 0) = Taken + 1
      BY <1>6, <1>8, <1>9, <1>11, <2>4, <2>7, ReadItem DEF ReadingInv
    <2>2. GotInOrder'
      BY <1>10, <1>13, <2>1 DEF GotInOrder
    <2>3. ASSUME x.phase # "refused" PROVE ReadingInv'
      <3>1. ReadingInv
        BY <1>1 DEF CodecInv, ReaderInv
      <3>2. PICK took \in Nat : took = Taken
        <4>1. Len(reader.got) \in Nat
          BY <1>2 DEF Readers
        <4> QED BY <4>1, TakenType
      <3>3. Taken' = took + 1
        BY <1>10, <2>1, <2>3, <3>2 DEF Taken
      <3>4. PICK m \in Nat : m = Len(rest) /\ Len(reader.pending) = m + 1
        BY <1>4
      <3>5. took + (m + 1) <= Total /\ took + (m + 1) = (took + 1) + m
        BY <3>1, <3>2, <3>4 DEF ReadingInv
      <3>6. \A i \in 1 .. m : rest[i] = Item((took + 1) + i)
        <4> SUFFICES ASSUME NEW i \in 1 .. m PROVE rest[i] = Item((took + 1) + i)
          OBVIOUS
        <4>1. i + 1 \in 1 .. Len(reader.pending) /\ (took + 1) + i = took + (i + 1)
          BY <3>4
        <4>2. rest[i] = reader.pending[i + 1]
          BY <1>4, <3>4
        <4> QED BY <3>1, <3>2, <4>1, <4>2 DEF ReadingInv
      <3>7. reader'.key \in Keys /\ reader'.index <= Len(encoder'.out.pieces)
        BY <1>10, <1>12, <1>13, <3>1 DEF ReadingInv
      <3>8. TrailerInv'
        BY <1>10, <1>13, <2>1, <2>3 DEF TrailerInv
      <3>9. Taken' + Len(reader'.pending) <= Total'
        BY <1>10, <1>12, <1>13, <3>3, <3>4, <3>5 DEF Total
      <3>10. \A i \in 1 .. Len(reader'.pending) : reader'.pending[i] = (Item(Taken + i))'
        BY <1>10, <1>12, <1>13, <3>3, <3>4, <3>6 DEF Item
      <3>11. /\ \/ Taken' + Len(reader'.pending) = reader'.index * ChunkSize
                \/ /\ Taken' + Len(reader'.pending) = Total'
                   /\ \A k \in reader'.index + 1 .. Len(encoder'.out.pieces) :
                        Len(encoder'.out.pieces[k].plain) = 0
             /\ reader'.done => Taken' + Len(reader'.pending) = Total'
        <4>1. Taken' + Len(reader'.pending) = Taken + Len(reader.pending)
          BY <1>10, <1>12, <3>2, <3>3, <3>4, <3>5
        <4>2. reader'.index = reader.index /\ encoder' = encoder
          BY <1>10, <1>12, <1>13
        <4>3. reader'.done = reader.done /\ Total' = Total
          BY <1>10, <1>12, <1>13 DEF Total
        <4>4. reader'.done => Taken' + Len(reader'.pending) = Total'
          BY <3>1, <4>1, <4>3 DEF ReadingInv
        <4> QED BY <3>1, <4>1, <4>2, <4>3, <4>4 DEF ReadingInv
      <3> QED BY <3>7, <3>8, <3>9, <3>10, <3>11 DEF ReadingInv
    <2> QED BY <2>2, <2>3
  <1>15. ReaderInv'
    <2>1. /\ reader'.phase \in {"reading", "draining", "refused"}
          /\ reader'.header = "encrypted" /\ put' = "stored"
      BY <1>1, <1>10, <1>12, <1>13
    <2>2. Encrypted' => GotInOrder' /\ (reader'.phase # "refused" => ReadingInv')
      BY <1>10, <1>13, <1>14 DEF Encrypted
    <2> QED BY <2>1, <2>2 DEF ReaderInv
  <1>16. VerifiedIsWhole'
    BY <1>1, <1>10, <1>12 DEF VerifiedIsWhole
  <1> QED BY <1>1, <1>10, <1>12, <1>15, <1>16, ReaderStep

\* Every step of a backup's encoding, storing and reading keeps the invariant.
LEMMA CodecStep == CodecInv /\ [CodecNext]_codecVars => CodecInv'
  <1> SUFFICES ASSUME CodecInv, [CodecNext]_codecVars PROVE CodecInv'
    OBVIOUS
  <1>1. CASE KeyUnresolved \/ ToolFails
    BY <1>1, KeyUnresolvedKeeps
  <1>2. CASE NewWriter
    BY <1>2, NewWriterKeeps
  <1>3. CASE Produce
    BY <1>3, ProduceKeeps
  <1>4. CASE CloseStream
    BY <1>4, CloseStreamKeeps
  <1>5. CASE PutEnds
    BY <1>5, PutEndsKeeps
  <1>6. CASE PiecesDamaged
    BY <1>6, PiecesDamagedKeeps
  <1>7. CASE HeaderDamaged
    BY <1>7, HeaderDamagedKeeps
  <1>8. ASSUME NEW purpose \in {"verify", "restore"},
               NEW key \in Keys \union {NoKey, Unresolved}, OpenBackup(purpose, key)
        PROVE  CodecInv'
    BY <1>8, OpenBackupKeeps
  <1>9. CASE ReadBare
    BY <1>9, ReadBareKeeps
  <1>10. CASE NextChunk
    BY <1>10, NextChunkKeeps
  <1>11. CASE FrameRead
    BY <1>11, FrameReadKeeps
  <1>12. CASE FrameEnds
    BY <1>12, FrameEndsKeeps
  <1>13. CASE Verify
    BY <1>13, VerifyKeeps
  <1>14. CASE Restore
    BY <1>14, RestoreKeeps
  <1>15. CASE Close
    BY <1>15, CloseKeeps
  <1>17. CASE StopsReading
    BY <1>17, StopsReadingKeeps
  <1>16. CASE UNCHANGED codecVars
    <2>1. UNCHANGED <<policy, encoder, produced, put, medium, damages, reader>>
      BY <1>16 DEF codecVars
    <2>2. CodecTypeOK'
      BY <2>1 DEF CodecInv, CodecTypeOK
    <2>3. EncoderInv'
      BY <2>1, SameEncoder DEF CodecInv, EncoderInv
    <2>4. MediumInv'
      BY <2>1, SameMedium DEF CodecInv
    <2>5. ReaderInv' /\ VerifiedIsWhole'
      BY <2>1, SameReading DEF CodecInv
    <2> QED BY <2>2, <2>3, <2>4, <2>5 DEF CodecInv
  <1> QED BY <1>1, <1>2, <1>3, <1>4, <1>5, <1>6, <1>7, <1>8, <1>9, <1>10, <1>11, <1>12,
             <1>13, <1>14, <1>15, <1>16, <1>17 DEF CodecNext

\* What was delivered in order is the beginning of what was written, and all of it at the end.
LEMMA InOrderIsPrefix == CodecInv => DeliveredIsPrefix
  <1> SUFFICES ASSUME CodecInv, Encrypted, HeaderIntact
               PROVE  /\ IsPrefix(reader.got, Whole)
                      /\ reader.phase \in {"ended", "drained"} => reader.got = Whole
    BY DEF DeliveredIsPrefix
  <1>3. PICK s \in Seq(Items) : s = reader.got
    BY DEF CodecInv, CodecTypeOK, Readers
  <1>4. PICK L \in Nat : L = policy.length
    BY PolicyTypes DEF CodecInv
  <1>2. GotInOrder
    <2>1. CASE put = "stored"
      <3>1. encoder.out.header = "encrypted"
        BY <2>1 DEF CodecInv, EncoderInv
      <3> QED BY <3>1 DEF CodecInv, ReaderInv, HeaderIntact
    <2>2. CASE put # "stored"
      <3>1. reader.got = <<>>
        BY <2>2 DEF CodecInv, ReaderInv, NoReader
      <3> QED BY <1>4, <3>1 DEF GotInOrder
    <2> QED BY <2>1, <2>2
  <1>5. PICK w : w = Whole
    OBVIOUS
  <1>6. w \in Seq(Nat) /\ Len(w) = L /\ \A i \in 1 .. L : w[i] = i
    <2>1. w = [i \in 1 .. L |-> i]
      BY <1>4, <1>5 DEF Whole
    <2> QED BY <1>4, <2>1
  <1>7. Len(s) \in Nat /\ Len(s) <= L /\ \A i \in 1 .. Len(s) : s[i] = i
    BY <1>2, <1>3, <1>4 DEF GotInOrder
  <1>8. SubSeq(s, 1, Len(s)) = SubSeq(w, 1, Len(s))
    BY <1>6, <1>7
  <1>9. IsPrefix(reader.got, Whole)
    BY <1>3, <1>5, <1>6, <1>7, <1>8 DEF IsPrefix
  <1>10. ASSUME reader.phase \in {"ended", "drained"} PROVE reader.got = Whole
    <2>1. put = "stored"
      BY <1>10 DEF CodecInv, ReaderInv
    <2>2. reader.header = "encrypted"
      BY <2>1 DEF CodecInv, EncoderInv, HeaderIntact
    <2>3. Len(reader.got) = policy.length
      BY <1>10, <2>2 DEF CodecInv, ReaderInv
    <2> QED BY <1>2, <1>3, <1>4, <2>3, InOrderIsWhole
  <1> QED BY <1>9, <1>10

\* However long the stream and however large the chunks: the writer makes full chunks and
\* ends with the empty one, whatever still opens under a key stands in the stored bytes as it
\* was written, and the reader is at the same place of both streams (frameWriter, frameReader).
THEOREM CodecInvariant == CodecSpec => []CodecInv
  <1>1. CodecInit => CodecInv
    BY CodecStarts
  <1>2. CodecInv /\ [CodecNext]_codecVars => CodecInv'
    BY CodecStep
  <1> QED BY <1>1, <1>2, PTL DEF CodecSpec

\* The buffer of frameWriter never outgrows its capacity, and everything else has its type.
THEOREM CodecTypes == CodecSpec => []CodecTypeOK
  <1>1. CodecInv => CodecTypeOK
    BY DEF CodecInv
  <1> QED BY <1>1, CodecInvariant, PTL

\* However the bytes change, before or while they are read, and whatever the tools overlook:
\* where verifyStream passes, what was decoded is the stream that was written.
THEOREM VerifiedWhole == CodecSpec => []VerifiedIsWhole
  <1>1. CodecInv => VerifiedIsWhole
    BY DEF CodecInv
  <1> QED BY <1>1, CodecInvariant, PTL

\* Chunks of any number, dropped, doubled, moved or changed any number of times: what the
\* reader hands to the tool is a part of the backup from its beginning, in order, and it ends
\* the stream only behind the whole.
THEOREM DeliveredPrefix == CodecSpec => []DeliveredIsPrefix
  BY CodecInvariant, InOrderIsPrefix, PTL
=============================================================================
