------------------------------ MODULE DeployProofs ------------------------------
(***************************************************************************)
(* Proofs about the single-slot deployment, for every set of releases and   *)
(* every bound: each of its steps - forward, compensating, pruning, crashed *)
(* and restarted - is a step of the release rows or leaves them alone.      *)
(***************************************************************************)
EXTENDS Deploy, ReleaseRowsProofs

\* A request, and an operation once there is one, names a release that exists.
NamesAreReleases ==
  /\ {"rel", "step", "outcome"} \subseteq DOMAIN op
  /\ \A q \in wanted : q.rel \in Releases
  /\ op.step # "ended" \/ op.outcome # "none" => op.rel \in Releases

DeployIInv == ColumnsTypeOK /\ NamesAreReleases

\* The calls that do not touch a row.
Silent ==
  \/ Refused \/ Cancel \/ Crash
  \/ Prepare \/ StopPrevious \/ Materialize \/ Activate \/ Start \/ WaitForReady
  \/ PruneDirectory \/ Succeed
  \/ UndoStop \/ UndoActivate \/ UndoPrepare \/ UndoStart
  \/ TeardownStop \/ TeardownPointer \/ RemoveFailed

LEMMA SilentKeepsRows == Silent => UNCHANGED rows
  BY DEF Silent, Refused, Cancel, Crash, Prepare, StopPrevious, Materialize, Activate, Start,
         WaitForReady, PruneDirectory, Succeed, UndoStop, UndoActivate, UndoPrepare, UndoStart,
         TeardownStop, TeardownPointer, RemoveFailed

\* Marking something that is no release changes no row.
LEMMA MarkNoRelease ==
  ASSUME ColumnsTypeOK, NEW r, r \notin Releases, MarkReleaseRemoved(r)
  PROVE  UNCHANGED <<status, directory, activatedAt>>
  BY DEF ColumnsTypeOK, MarkReleaseRemoved

\* Every step is one transition of the rows, or none.
LEMMA StepsUseRows ==
  ASSUME DeployIInv, Next
  PROVE  [RowsNext]_rows
<1>1. CASE \E r \in Releases : PrepareDeploy(r) \/ PrepareRollback(r)
  BY <1>1 DEF PrepareDeploy, PrepareRollback, RowsNext
<1>2. CASE Retry
  BY <1>2 DEF Retry
<1>3. CASE \E q \in wanted : ApplyBegin(q)
  BY <1>3 DEF ApplyBegin, RowsNext, DeployIInv, NamesAreReleases
<1>4. CASE Record
  BY <1>4 DEF Record, At, RowsNext, DeployIInv, NamesAreReleases
<1>5. CASE Fail
  BY <1>5 DEF Fail, At, RowsNext, DeployIInv, NamesAreReleases
<1>6. CASE PruneRow
  <2>1. MarkReleaseRemoved(Oldest) \/ UNCHANGED rows
    BY <1>6 DEF PruneRow
  <2> QED BY <2>1, MarkNoRelease DEF RowsNext, rows, DeployIInv
<1>7. CASE Silent
  BY <1>7, SilentKeepsRows
<1> QED
  BY <1>1, <1>2, <1>3, <1>4, <1>5, <1>6, <1>7 DEF Next, Silent

LEMMA NamesStart == Init => NamesAreReleases
  BY DEF Init, NamesAreReleases

\* The steps of a running operation, forward and back, and the crash that ends it.
Call ==
  \/ Prepare \/ StopPrevious \/ Materialize \/ Activate \/ Start \/ WaitForReady \/ Record
  \/ PruneDirectory \/ PruneRow \/ Succeed
  \/ UndoStop \/ UndoActivate \/ UndoPrepare \/ UndoStart
  \/ TeardownStop \/ TeardownPointer \/ RemoveFailed \/ Fail \/ Crash

\* Within an operation its release stays, and no request appears.
LEMMA CallsKeepNames ==
  ASSUME NamesAreReleases, Call
  PROVE  NamesAreReleases'
<1>1. op.step # "ended" /\ wanted' = wanted
  BY DEF Call, At, Prepare, StopPrevious, Materialize, Activate, Start, WaitForReady, Record,
         PruneDirectory, PruneRow, Succeed, UndoStop, UndoActivate, UndoPrepare, UndoStart,
         TeardownStop, TeardownPointer, RemoveFailed, Fail, Crash
<1>2. DOMAIN op' = DOMAIN op /\ op'.rel = op.rel
  <2> USE DEF NamesAreReleases, Go, GoFail, GoStuck
  <2>1. CASE Prepare \/ StopPrevious \/ Materialize \/ Activate \/ Start \/ WaitForReady \/ Record
    BY <2>1 DEF Prepare, StopPrevious, Materialize, Activate, Start, WaitForReady, Record
  <2>2. CASE PruneDirectory \/ PruneRow \/ Succeed \/ Crash
    BY <2>2 DEF PruneDirectory, PruneRow, Succeed, Crash
  <2>3. CASE UndoStop \/ UndoActivate \/ UndoPrepare \/ UndoStart
    BY <2>3 DEF UndoStop, UndoActivate, UndoPrepare, UndoStart
  <2>4. CASE TeardownStop \/ TeardownPointer \/ RemoveFailed \/ Fail
    BY <2>4 DEF TeardownStop, TeardownPointer, RemoveFailed, Fail
  <2> QED BY <2>1, <2>2, <2>3, <2>4 DEF Call
<1> QED BY <1>1, <1>2 DEF NamesAreReleases

\* A request names a release that was looked up, or that of an ended operation.
LEMMA RequestsKeepNames ==
  ASSUME NamesAreReleases,
         \/ \E r \in Releases : PrepareDeploy(r) \/ PrepareRollback(r)
         \/ Retry \/ Refused \/ Cancel
  PROVE  NamesAreReleases'
<1>1. op' = op
  BY DEF PrepareDeploy, PrepareRollback, Retry, Refused, Cancel, Ask
<1>2. \A q \in wanted' : q.rel \in Releases
  <2>1. CASE \E r \in Releases : PrepareDeploy(r) \/ PrepareRollback(r)
    BY <2>1 DEF NamesAreReleases, PrepareDeploy, PrepareRollback, Ask
  <2>2. CASE Retry
    BY <2>2 DEF NamesAreReleases, Retry, Ask
  <2>3. CASE Refused \/ Cancel
    BY <2>3 DEF NamesAreReleases, Refused, Cancel
  <2> QED BY <2>1, <2>2, <2>3
<1> QED BY <1>1, <1>2 DEF NamesAreReleases

LEMMA BeginKeepsNames ==
  ASSUME NamesAreReleases, NEW q \in wanted, ApplyBegin(q)
  PROVE  NamesAreReleases'
  BY DEF NamesAreReleases, ApplyBegin

LEMMA DeployStutter ==
  ASSUME DeployIInv, UNCHANGED vars
  PROVE  DeployIInv'
  BY DEF DeployIInv, NamesAreReleases, ColumnsTypeOK, vars

\* The rows of a deployment change as the row operations say, and no other way:
\* what is proved of the rows holds for whoever deploys.
THEOREM DeployImplementsRows == Spec => RowsSpec
<1>1. Init => RowsInit /\ DeployIInv
  BY NamesStart, RowsStart DEF Init, DeployIInv, RowsIInv
<1>2. DeployIInv /\ [Next]_vars => DeployIInv'
  <2>1. ASSUME DeployIInv, Next PROVE DeployIInv'
    <3>1. ColumnsTypeOK'
      BY <2>1, StepsUseRows, RowsKeepTypes DEF DeployIInv, ColumnsTypeOK, rows
    <3>2. NamesAreReleases'
      BY <2>1, CallsKeepNames, RequestsKeepNames, BeginKeepsNames DEF DeployIInv, Next, Call
    <3> QED BY <3>1, <3>2 DEF DeployIInv
  <2> QED BY <2>1, DeployStutter
<1>3. DeployIInv /\ [Next]_vars => [RowsNext]_rows
  BY StepsUseRows DEF vars, rows
<1> QED BY <1>1, <1>2, <1>3, PTL DEF Spec, RowsSpec

\* Through every deployment, rollback, failure, compensation, cancellation, crash
\* and retry of a single-slot application at most one release is active.
THEOREM DeployOneActive == Spec => []OneActive
  BY DeployImplementsRows, RowsOneActive

-----------------------------------------------------------------------------
(* What an operation has done to the disk, the unit and the process *)

Operations ==
  [kind : {"deploy", "rollback"}, rel : Releases \union {None}, prev : Releases \union {None},
   step : Steps, switched : BOOLEAN, stopped : BOOLEAN, undone : BOOLEAN, stuck : BOOLEAN,
   todo : SUBSET Releases, outcome : Outcomes]

\* Every variable but the rows, which RowsFullIInv types.
CallsTypeOK ==
  /\ dirs \subseteq Materializes
  /\ current \in Materializes \union {None}
  /\ unit \in Releases \union {None}
  /\ running \in [bin : Releases \union {None}, conf : Releases \union {None}]
  /\ wanted \subseteq [kind : {"deploy", "rollback"}, rel : Releases]
  /\ op \in Operations
  /\ op.step # "ended" \/ op.outcome # "none" => op.rel \in Releases
  /\ op.step # "ended" => op.outcome = "none"
  /\ cancelled \in BOOLEAN
  /\ requests \in 0..MaxRequests /\ failures \in 0..MaxFailures
  /\ cancels \in 0..MaxCancels /\ crashes \in 0..MaxCrashes

ForwardSteps == {"prepare", "stop", "materialize", "activate", "start", "ready", "record"}

RestoreSteps == {"undoStop", "undoActivate", "undoPrepare", "undoStart"}

\* Only a materialising release is unpacked and pointed to, and the pointer is
\* set to a directory that is there.
DiskFits ==
  /\ CurrentExists
  /\ op.step \in {"materialize", "activate"} => op.rel \in Materializes
  /\ op.step = "activate" => op.rel \in dirs

\* A deployment over an earlier version: the unit is that of the new one from its
\* preparation on, the process is stopped until it is started, and what is
\* started is the new version.
ForwardFits ==
  op.prev # None =>
    /\ op.step \in {"stop", "materialize", "activate", "start"} => unit = op.rel
    /\ op.step \in {"materialize", "activate", "start"} => running = Stopped
    /\ op.step = "start" /\ op.rel \in Materializes => current = op.rel
    /\ op.step \in {"ready", "record", "prune", "pruned"} => running = ProcessOf(op.rel)
    /\ op.outcome = "succeeded" => running = ProcessOf(op.rel)

\* The compensation: what is put back is the previous version, step by step.
RestoreFits ==
  /\ op.step \in RestoreSteps => op.prev # None
  /\ op.step \in {"teardownStop", "teardownPointer"} => op.prev = None
  /\ op.step \in ForwardSteps \union RestoreSteps => ~op.undone
  /\ op.step \in {"undoActivate", "undoPrepare", "undoStart"} => running = Stopped
  /\ op.step \in {"undoPrepare", "undoStart"} /\ op.prev \in Materializes => current = op.prev
  /\ op.step = "undoStart" => unit = op.prev
  /\ op.step \in {"remove", "fail"} /\ op.undone /\ ~op.stuck /\ op.prev # None =>
       running = ProcessOf(op.prev)
  /\ RolledBackIsTrue

\* The version an operation replaces stays the active one until the row of the new
\* one is; what pruning has to remove is neither.
PruneFits ==
  /\ op.step \in ForwardSteps /\ op.prev # None => status[op.prev] = "active"
  /\ op.step \in {"prune", "pruned"} =>
       op.rel \notin op.todo /\ (KeepLast > 1 => op.prev \notin op.todo)

DeployFullIInv == CallsTypeOK /\ DiskFits /\ ForwardFits /\ RestoreFits /\ PruneFits

\* A failing call leads to the compensation the operation needs.
LEMMA FailStepIsStep == FailStep \in {"undoStop", "teardownStop", "remove"}
  BY DEF FailStep

\* A call moves the operation on; what it was begun with stays.
LEMMA CallsKeepOp ==
  ASSUME op \in Operations, Call
  PROVE  op' \in Operations /\ op'.kind = op.kind /\ op'.rel = op.rel /\ op'.prev = op.prev
<1> USE FailStepIsStep DEF Operations, Steps, Outcomes, GoFail, Go, GoStuck
<1>1. CASE Prepare
  BY <1>1 DEF Prepare, AfterStop
<1>2. CASE StopPrevious
  BY <1>2 DEF StopPrevious, AfterStop
<1>3. CASE Materialize
  BY <1>3 DEF Materialize
<1>4. CASE Activate
  BY <1>4 DEF Activate
<1>5. CASE Start
  BY <1>5 DEF Start
<1>6. CASE WaitForReady
  BY <1>6 DEF WaitForReady
<1>7. CASE Record
  BY <1>7 DEF Record, PlanReleaseRemoval
<1>8. CASE PruneDirectory
  BY <1>8 DEF PruneDirectory
<1>9. CASE PruneRow
  BY <1>9 DEF PruneRow
<1>10. CASE Succeed
  BY <1>10 DEF Succeed
<1>11. CASE UndoStop
  BY <1>11 DEF UndoStop
<1>12. CASE UndoActivate
  BY <1>12 DEF UndoActivate
<1>13. CASE UndoPrepare
  BY <1>13 DEF UndoPrepare
<1>14. CASE UndoStart
  BY <1>14 DEF UndoStart
<1>15. CASE TeardownStop
  BY <1>15 DEF TeardownStop
<1>16. CASE TeardownPointer
  BY <1>16 DEF TeardownPointer
<1>17. CASE RemoveFailed
  BY <1>17 DEF RemoveFailed
<1>18. CASE Fail
  BY <1>18 DEF Fail
<1>19. CASE Crash
  BY <1>19 DEF Crash
<1> QED BY <1>1, <1>2, <1>3, <1>4, <1>5, <1>6, <1>7, <1>8, <1>9, <1>10, <1>11, <1>12, <1>13, <1>14, <1>15, <1>16, <1>17, <1>18, <1>19 DEF Call

\* A call counts its failure within the bound; nothing else is counted, no
\* request appears.
LEMMA CallsCount ==
  ASSUME CallsTypeOK, Call
  PROVE  /\ wanted' = wanted /\ cancelled' = cancelled
         /\ requests' \in 0..MaxRequests /\ failures' \in 0..MaxFailures
         /\ cancels' \in 0..MaxCancels /\ crashes' \in 0..MaxCrashes
<1> USE DeployAssumption DEF CallsTypeOK, At, Works, Breaks, GoFail, GoStuck, bounds
<1>1. CASE Prepare
  BY <1>1 DEF Prepare
<1>2. CASE StopPrevious
  BY <1>2 DEF StopPrevious
<1>3. CASE Materialize
  BY <1>3 DEF Materialize
<1>4. CASE Activate
  BY <1>4 DEF Activate
<1>5. CASE Start
  BY <1>5 DEF Start
<1>6. CASE WaitForReady
  BY <1>6 DEF WaitForReady
<1>7. CASE Record
  BY <1>7 DEF Record
<1>8. CASE PruneDirectory
  BY <1>8 DEF PruneDirectory
<1>9. CASE PruneRow
  BY <1>9 DEF PruneRow
<1>10. CASE Succeed
  BY <1>10 DEF Succeed
<1>11. CASE UndoStop
  BY <1>11 DEF UndoStop
<1>12. CASE UndoActivate
  BY <1>12 DEF UndoActivate
<1>13. CASE UndoPrepare
  BY <1>13 DEF UndoPrepare
<1>14. CASE UndoStart
  BY <1>14 DEF UndoStart
<1>15. CASE TeardownStop
  BY <1>15 DEF TeardownStop
<1>16. CASE TeardownPointer
  BY <1>16 DEF TeardownPointer
<1>17. CASE RemoveFailed
  BY <1>17 DEF RemoveFailed
<1>18. CASE Fail
  BY <1>18 DEF Fail
<1>19. CASE Crash
  BY <1>19 DEF Crash
<1> QED BY <1>1, <1>2, <1>3, <1>4, <1>5, <1>6, <1>7, <1>8, <1>9, <1>10, <1>11, <1>12, <1>13, <1>14, <1>15, <1>16, <1>17, <1>18, <1>19 DEF Call

\* A call leaves the disk, the unit and the process in a state of their types.
LEMMA CallsKeepEnvironment ==
  ASSUME CallsTypeOK, DiskFits, Call
  PROVE  /\ dirs' \subseteq Materializes
         /\ current' \in Materializes \union {None}
         /\ unit' \in Releases \union {None}
         /\ running' \in [bin : Releases \union {None}, conf : Releases \union {None}]
<1>0. op.rel \in Releases \union {None} /\ op.prev \in Releases \union {None}
  BY DEF CallsTypeOK, Operations
<1> USE <1>0, DeployAssumption DEF CallsTypeOK, At, Stopped, Started, RemoveDirectory, disk, DiskFits
<1>1. CASE Prepare
  BY <1>1 DEF Prepare
<1>2. CASE StopPrevious
  BY <1>2 DEF StopPrevious
<1>3. CASE Materialize
  BY <1>3 DEF Materialize
<1>4. CASE Activate
  BY <1>4 DEF Activate
<1>5. CASE Start
  BY <1>5 DEF Start
<1>6. CASE WaitForReady
  BY <1>6 DEF WaitForReady
<1>7. CASE Record
  BY <1>7 DEF Record
<1>8. CASE PruneDirectory
  BY <1>8 DEF PruneDirectory
<1>9. CASE PruneRow
  BY <1>9 DEF PruneRow
<1>10. CASE Succeed
  BY <1>10 DEF Succeed
<1>11. CASE UndoStop
  BY <1>11 DEF UndoStop
<1>12. CASE UndoActivate
  BY <1>12 DEF UndoActivate
<1>13. CASE UndoPrepare
  BY <1>13 DEF UndoPrepare
<1>14. CASE UndoStart
  BY <1>14 DEF UndoStart
<1>15. CASE TeardownStop
  BY <1>15 DEF TeardownStop
<1>16. CASE TeardownPointer
  BY <1>16 DEF TeardownPointer
<1>17. CASE RemoveFailed
  BY <1>17 DEF RemoveFailed
<1>18. CASE Fail
  BY <1>18 DEF Fail
<1>19. CASE Crash
  BY <1>19 DEF Crash
<1> QED BY <1>1, <1>2, <1>3, <1>4, <1>5, <1>6, <1>7, <1>8, <1>9, <1>10, <1>11, <1>12, <1>13, <1>14, <1>15, <1>16, <1>17, <1>18, <1>19 DEF Call

\* Only the end of an operation gives it an outcome.
LEMMA CallsKeepOutcome ==
  ASSUME CallsTypeOK, Call
  PROVE  op.step # "ended" /\ (op'.step # "ended" => op'.outcome = "none")
<1> USE DEF CallsTypeOK, Operations, At, GoFail, Go, GoStuck
<1>1. CASE Prepare
  BY <1>1 DEF Prepare
<1>2. CASE StopPrevious
  BY <1>2 DEF StopPrevious
<1>3. CASE Materialize
  BY <1>3 DEF Materialize
<1>4. CASE Activate
  BY <1>4 DEF Activate
<1>5. CASE Start
  BY <1>5 DEF Start
<1>6. CASE WaitForReady
  BY <1>6 DEF WaitForReady
<1>7. CASE Record
  BY <1>7 DEF Record
<1>8. CASE PruneDirectory
  BY <1>8 DEF PruneDirectory
<1>9. CASE PruneRow
  BY <1>9 DEF PruneRow
<1>10. CASE Succeed
  BY <1>10 DEF Succeed
<1>11. CASE UndoStop
  BY <1>11 DEF UndoStop
<1>12. CASE UndoActivate
  BY <1>12 DEF UndoActivate
<1>13. CASE UndoPrepare
  BY <1>13 DEF UndoPrepare
<1>14. CASE UndoStart
  BY <1>14 DEF UndoStart
<1>15. CASE TeardownStop
  BY <1>15 DEF TeardownStop
<1>16. CASE TeardownPointer
  BY <1>16 DEF TeardownPointer
<1>17. CASE RemoveFailed
  BY <1>17 DEF RemoveFailed
<1>18. CASE Fail
  BY <1>18 DEF Fail
<1>19. CASE Crash
  BY <1>19 DEF Crash
<1> QED BY <1>1, <1>2, <1>3, <1>4, <1>5, <1>6, <1>7, <1>8, <1>9, <1>10, <1>11, <1>12, <1>13, <1>14, <1>15, <1>16, <1>17, <1>18, <1>19 DEF Call

LEMMA CallsKeepTypes ==
  ASSUME CallsTypeOK, DiskFits, Call
  PROVE  CallsTypeOK'
<1>1. op \in Operations /\ op.step # "ended" /\ op.rel \in Releases
  BY CallsKeepOutcome DEF CallsTypeOK
<1>2. /\ op' \in Operations /\ op'.rel \in Releases
      /\ op'.step # "ended" => op'.outcome = "none"
  BY <1>1, CallsKeepOp, CallsKeepOutcome
<1>3. wanted' \subseteq [kind : {"deploy", "rollback"}, rel : Releases] /\ cancelled' \in BOOLEAN
  BY CallsCount DEF CallsTypeOK
<1> QED BY <1>2, <1>3, CallsCount, CallsKeepEnvironment DEF CallsTypeOK

\* No call removes the directory the pointer names, and none points elsewhere.
LEMMA CallsKeepDisk ==
  ASSUME CallsTypeOK, DiskFits, Call
  PROVE  DiskFits'
<1>0. op \in Operations
  BY DEF CallsTypeOK
<1> USE <1>0, FailStepIsStep, ReleaseRowsAssumption
        DEF Operations, At, GoFail, Go, GoStuck, RemoveDirectory, disk, DiskFits, CurrentExists
<1>1. CASE Prepare
  BY <1>1 DEF Prepare, AfterStop
<1>2. CASE StopPrevious
  BY <1>2 DEF StopPrevious, AfterStop
<1>3. CASE Materialize
  BY <1>3 DEF Materialize
<1>4. CASE Activate
  BY <1>4 DEF Activate
<1>5. CASE Start
  BY <1>5 DEF Start
<1>6. CASE WaitForReady
  BY <1>6 DEF WaitForReady
<1>7. CASE Record
  BY <1>7 DEF Record
<1>8. CASE PruneDirectory
  BY <1>8 DEF PruneDirectory
<1>9. CASE PruneRow
  BY <1>9 DEF PruneRow
<1>10. CASE Succeed
  BY <1>10 DEF Succeed
<1>11. CASE UndoStop
  BY <1>11 DEF UndoStop
<1>12. CASE UndoActivate
  BY <1>12 DEF UndoActivate
<1>13. CASE UndoPrepare
  BY <1>13 DEF UndoPrepare
<1>14. CASE UndoStart
  BY <1>14 DEF UndoStart
<1>15. CASE TeardownStop
  BY <1>15 DEF TeardownStop
<1>16. CASE TeardownPointer
  BY <1>16 DEF TeardownPointer
<1>17. CASE RemoveFailed
  BY <1>17 DEF RemoveFailed
<1>18. CASE Fail
  BY <1>18 DEF Fail
<1>19. CASE Crash
  BY <1>19 DEF Crash
<1> QED BY <1>1, <1>2, <1>3, <1>4, <1>5, <1>6, <1>7, <1>8, <1>9, <1>10, <1>11, <1>12, <1>13, <1>14, <1>15, <1>16, <1>17, <1>18, <1>19 DEF Call

\* What runs is what the steps of the operation say.
LEMMA CallsKeepForward ==
  ASSUME CallsTypeOK, ForwardFits, Call
  PROVE  ForwardFits'
<1>0. op \in Operations
  BY DEF CallsTypeOK
<1> USE <1>0, FailStepIsStep DEF Operations, At, GoFail, Go, GoStuck, disk, ForwardFits, CallsTypeOK
<1>1. CASE Prepare
  BY <1>1 DEF Prepare, AfterStop
<1>2. CASE StopPrevious
  BY <1>2 DEF StopPrevious, AfterStop
<1>3. CASE Materialize
  BY <1>3 DEF Materialize
<1>4. CASE Activate
  BY <1>4 DEF Activate
<1>5. CASE Start
  BY <1>5 DEF Start, Started, ProcessOf, Stopped
<1>6. CASE WaitForReady
  BY <1>6 DEF WaitForReady
<1>7. CASE Record
  BY <1>7 DEF Record
<1>8. CASE PruneDirectory
  BY <1>8 DEF PruneDirectory
<1>9. CASE PruneRow
  BY <1>9 DEF PruneRow
<1>10. CASE Succeed
  BY <1>10 DEF Succeed
<1>11. CASE UndoStop
  BY <1>11 DEF UndoStop
<1>12. CASE UndoActivate
  BY <1>12 DEF UndoActivate
<1>13. CASE UndoPrepare
  BY <1>13 DEF UndoPrepare
<1>14. CASE UndoStart
  BY <1>14 DEF UndoStart
<1>15. CASE TeardownStop
  BY <1>15 DEF TeardownStop
<1>16. CASE TeardownPointer
  BY <1>16 DEF TeardownPointer
<1>17. CASE RemoveFailed
  BY <1>17 DEF RemoveFailed
<1>18. CASE Fail
  BY <1>18 DEF Fail
<1>19. CASE Crash
  BY <1>19 DEF Crash
<1> QED BY <1>1, <1>2, <1>3, <1>4, <1>5, <1>6, <1>7, <1>8, <1>9, <1>10, <1>11, <1>12, <1>13, <1>14, <1>15, <1>16, <1>17, <1>18, <1>19 DEF Call

LEMMA CallsKeepRestore ==
  ASSUME CallsTypeOK, RestoreFits, Call
  PROVE  RestoreFits'
<1>0. op \in Operations
  BY DEF CallsTypeOK
<1> USE <1>0 DEF Operations, At, GoFail, Go, GoStuck, disk, RestoreFits, RolledBackIsTrue,
        ForwardSteps, RestoreSteps, CallsTypeOK
<1>1. CASE Prepare
  BY <1>1 DEF Prepare, AfterStop, FailStep
<1>2. CASE StopPrevious
  BY <1>2 DEF StopPrevious, AfterStop, FailStep
<1>3. CASE Materialize
  BY <1>3 DEF Materialize, FailStep
<1>4. CASE Activate
  BY <1>4 DEF Activate, FailStep
<1>5. CASE Start
  BY <1>5 DEF Start, FailStep
<1>6. CASE WaitForReady
  BY <1>6 DEF WaitForReady, FailStep
<1>7. CASE Record
  BY <1>7 DEF Record, FailStep
<1>8. CASE PruneDirectory
  BY <1>8 DEF PruneDirectory
<1>9. CASE PruneRow
  BY <1>9 DEF PruneRow
<1>10. CASE Succeed
  BY <1>10 DEF Succeed
<1>11. CASE UndoStop
  BY <1>11 DEF UndoStop
<1>12. CASE UndoActivate
  <2>1. op.step = "undoActivate" /\ UNCHANGED <<unit, running>>
    BY <1>12 DEF UndoActivate
  <2>2. CASE op' = [op EXCEPT !.step = "undoPrepare"] /\ current' = op.prev
    BY <2>1, <2>2
  <2>3. CASE op' = [op EXCEPT !.step = "remove", !.undone = TRUE, !.stuck = TRUE]
    BY <2>1, <2>3
  <2> QED BY <1>12, <2>2, <2>3 DEF UndoActivate
<1>13. CASE UndoPrepare
  <2>1. op.step = "undoPrepare" /\ UNCHANGED <<current, running>>
    BY <1>13 DEF UndoPrepare
  <2>2. CASE op' = [op EXCEPT !.step = "undoStart"] /\ unit' = op.prev
    BY <2>1, <2>2
  <2>3. CASE op' = [op EXCEPT !.step = "remove", !.undone = TRUE, !.stuck = TRUE]
    BY <2>1, <2>3
  <2> QED BY <1>13, <2>2, <2>3 DEF UndoPrepare
<1>14. CASE UndoStart
  <2>1. op.step = "undoStart" /\ UNCHANGED <<current, unit>>
    BY <1>14 DEF UndoStart
  <2>2. Started = ProcessOf(op.prev)
    BY <2>1 DEF Started, ProcessOf, Stopped
  <2>3. CASE op' = [op EXCEPT !.step = "remove", !.undone = TRUE] /\ running' = ProcessOf(op.prev)
    BY <2>1, <2>3
  <2>4. CASE op' = [op EXCEPT !.step = "remove", !.undone = TRUE, !.stuck = TRUE]
    BY <2>1, <2>4
  <2> QED BY <1>14, <2>2, <2>3, <2>4 DEF UndoStart
<1>15. CASE TeardownStop
  BY <1>15 DEF TeardownStop
<1>16. CASE TeardownPointer
  BY <1>16 DEF TeardownPointer
<1>17. CASE RemoveFailed
  BY <1>17 DEF RemoveFailed
<1>18. CASE Fail
  BY <1>18 DEF Fail
<1>19. CASE Crash
  BY <1>19 DEF Crash
<1> QED BY <1>1, <1>2, <1>3, <1>4, <1>5, <1>6, <1>7, <1>8, <1>9, <1>10, <1>11, <1>12, <1>13, <1>14, <1>15, <1>16, <1>17, <1>18, <1>19 DEF Call

\* The active release was activated last, so that no candidate is younger and the
\* retention, when it keeps two, keeps it.
LEMMA PlanSparesActive ==
  ASSUME RowsFullIInv, KeepLast > 1, NEW r, NEW p \in Releases, status[p] = "active"
  PROVE  p \notin PlanReleaseRemoval(r)
<1> DEFINE candidates == {s \in Releases \ {r} : directory[s] /\ status[s] \in Rollbackable}
           younger == {t \in candidates : activatedAt[t] > activatedAt[p]}
<1>1. younger = {}
  <2>1. \A t \in Releases : activatedAt[t] \in Nat
    BY DEF RowsFullIInv, ActivationsTypeOK
  <2>2. \A t \in Releases \ {p} : activatedAt[t] < activatedAt[p]
    BY DEF RowsFullIInv, ActiveIsNewest
  <2>3. \A t \in Releases : ~(activatedAt[t] > activatedAt[p])
    BY <2>1, <2>2
  <2> QED BY <2>3
<1>2. Cardinality(younger) = 0
  BY <1>1, FS_EmptySet
<1>3. ~(Cardinality(younger) >= KeepLast - 1)
  BY <1>2, ReleaseRowsAssumption
<1> QED BY <1>3 DEF PlanReleaseRemoval

\* The version being replaced stays active, and pruning spares it.
LEMMA CallsKeepPrune ==
  ASSUME CallsTypeOK, PruneFits, RowsFullIInv, Call
  PROVE  PruneFits'
<1>0. op \in Operations
  BY DEF CallsTypeOK
<1>1. CASE Record
  <2>1. op.step = "record"
    BY <1>1 DEF Record, At
  <2>2. CASE op' = [op EXCEPT !.step = "prune", !.todo = PlanReleaseRemoval(op.rel)]
    <3>1. op.rel \notin PlanReleaseRemoval(op.rel)
      BY DEF PlanReleaseRemoval
    <3>2. KeepLast > 1 => op.prev \notin PlanReleaseRemoval(op.rel)
      <4>1. CASE op.prev = None
        BY <4>1, ReleaseRowsAssumption DEF PlanReleaseRemoval
      <4>2. CASE op.prev # None
        <5>1. op.prev \in Releases /\ status[op.prev] = "active"
          BY <1>0, <2>1, <4>2 DEF Operations, PruneFits, ForwardSteps
        <5> QED BY <5>1, PlanSparesActive
      <4> QED BY <4>1, <4>2
    <3>3. /\ op'.step = "prune" /\ op'.rel = op.rel /\ op'.prev = op.prev
          /\ op'.todo = PlanReleaseRemoval(op.rel)
      BY <1>0, <2>2 DEF Operations
    <3> QED BY <3>1, <3>2, <3>3 DEF PruneFits, ForwardSteps
  <2>3. CASE op' = [op EXCEPT !.step = FailStep]
    <3>1. op'.step = FailStep
      BY <1>0, <2>3 DEF Operations
    <3> QED BY <3>1, FailStepIsStep DEF PruneFits, ForwardSteps
  <2> QED BY <1>1, <2>2, <2>3 DEF Record, GoFail, Go
<1>2. CASE Fail \/ PruneRow
  <2>1. CASE Fail
    BY <1>0, <2>1 DEF Fail, Operations, PruneFits, ForwardSteps
  <2>2. CASE PruneRow
    BY <1>0, <2>2 DEF PruneRow, At, Operations, PruneFits, ForwardSteps
  <2> QED BY <1>2, <2>1, <2>2
<1>3. CASE Silent /\ Call
  <2>0. status' = status
    BY <1>3, SilentKeepsRows DEF rows
  <2> USE <1>0, <2>0, FailStepIsStep DEF Operations, At, GoFail, Go, GoStuck, PruneFits, ForwardSteps
  <2>1. CASE Prepare
    BY <2>1 DEF Prepare, AfterStop
  <2>2. CASE StopPrevious
    BY <2>2 DEF StopPrevious, AfterStop
  <2>3. CASE Materialize
    BY <2>3 DEF Materialize
  <2>4. CASE Activate
    BY <2>4 DEF Activate
  <2>5. CASE Start
    BY <2>5 DEF Start
  <2>6. CASE WaitForReady
    BY <2>6 DEF WaitForReady
  <2>7. CASE PruneDirectory
    BY <2>7 DEF PruneDirectory
  <2>8. CASE Succeed
    BY <2>8 DEF Succeed
  <2>9. CASE UndoStop
    BY <2>9 DEF UndoStop
  <2>10. CASE UndoActivate
    BY <2>10 DEF UndoActivate
  <2>11. CASE UndoPrepare
    BY <2>11 DEF UndoPrepare
  <2>12. CASE UndoStart
    BY <2>12 DEF UndoStart
  <2>13. CASE TeardownStop
    BY <2>13 DEF TeardownStop
  <2>14. CASE TeardownPointer
    BY <2>14 DEF TeardownPointer
  <2>15. CASE RemoveFailed
    BY <2>15 DEF RemoveFailed
  <2>16. CASE Crash
    BY <2>16 DEF Crash
  <2> QED BY <1>3, <2>1, <2>2, <2>3, <2>4, <2>5, <2>6, <2>7, <2>8, <2>9, <2>10, <2>11, <2>12, <2>13, <2>14, <2>15, <2>16 DEF Silent, Call, Refused, Cancel
<1> QED BY <1>1, <1>2, <1>3 DEF Call, Silent

\* Until the worker takes it a request is no more than its name: what the
\* operation has done stays as it is.
LEMMA RequestsKeepFits ==
  ASSUME DeployFullIInv, RowsFullIInv,
         \/ \E r \in Releases : PrepareDeploy(r) \/ PrepareRollback(r)
         \/ Retry \/ Refused \/ Cancel
  PROVE  DeployFullIInv'
<1>1. UNCHANGED <<op, dirs, current, unit, running>>
  BY DEF PrepareDeploy, PrepareRollback, Retry, Refused, Cancel, Ask, disk
<1>2. \A r \in Releases : status[r] = "active" => status'[r] = "active"
  BY DEF PrepareDeploy, PrepareRollback, Retry, Refused, Cancel, CreateRelease, rows,
         RowsFullIInv, RowsIInv, ColumnsTypeOK
<1>3. wanted' \subseteq [kind : {"deploy", "rollback"}, rel : Releases]
  <2>1. CASE \E r \in Releases : PrepareDeploy(r) \/ PrepareRollback(r)
    BY <2>1 DEF PrepareDeploy, PrepareRollback, Ask, DeployFullIInv, CallsTypeOK
  <2>2. CASE Retry
    BY <2>2 DEF Retry, Ask, DeployFullIInv, CallsTypeOK, Operations
  <2>3. CASE Refused \/ Cancel
    BY <2>3 DEF Refused, Cancel, DeployFullIInv, CallsTypeOK
  <2> QED BY <2>1, <2>2, <2>3
<1>4. /\ cancelled' \in BOOLEAN
      /\ requests' \in 0..MaxRequests /\ failures' \in 0..MaxFailures
      /\ cancels' \in 0..MaxCancels /\ crashes' \in 0..MaxCrashes
  <2> USE DeployAssumption DEF DeployFullIInv, CallsTypeOK, bounds
  <2>1. CASE \E r \in Releases : PrepareDeploy(r) \/ PrepareRollback(r)
    BY <2>1 DEF PrepareDeploy, PrepareRollback, Ask
  <2>2. CASE Retry
    BY <2>2 DEF Retry, Ask
  <2>3. CASE Refused
    BY <2>3 DEF Refused
  <2>4. CASE Cancel
    BY <2>4 DEF Cancel
  <2> QED BY <2>1, <2>2, <2>3, <2>4
<1>5. CallsTypeOK'
  BY <1>1, <1>3, <1>4 DEF DeployFullIInv, CallsTypeOK
<1>6. DiskFits' /\ ForwardFits' /\ RestoreFits'
  BY <1>1 DEF DeployFullIInv, DiskFits, CurrentExists, ForwardFits, RestoreFits, RolledBackIsTrue
<1>7. PruneFits'
  BY <1>1, <1>2 DEF DeployFullIInv, CallsTypeOK, Operations, PruneFits, ForwardSteps
<1> QED BY <1>5, <1>6, <1>7 DEF DeployFullIInv

\* The operation starts with nothing done, over the release that is active.
LEMMA BeginKeepsFits ==
  ASSUME DeployFullIInv, RowsFullIInv, NEW q \in wanted, ApplyBegin(q)
  PROVE  DeployFullIInv'
<1>1. q \in [kind : {"deploy", "rollback"}, rel : Releases]
  BY DEF DeployFullIInv, CallsTypeOK
<1>2. Active = None \/ (Active \in Releases /\ status[Active] = "active")
  BY ActiveIsActive
<1>3. /\ op' \in Operations /\ op'.rel = q.rel /\ op'.prev = Active /\ op'.step = "prepare"
      /\ ~op'.undone /\ op'.todo = {} /\ op'.outcome = "none"
  BY <1>1, <1>2 DEF ApplyBegin, Operations, Steps, Outcomes
<1>4. /\ UNCHANGED <<dirs, current, unit, running, requests, failures, cancels, crashes>>
      /\ wanted' \subseteq wanted /\ cancelled' = FALSE
  BY DEF ApplyBegin, disk, bounds
<1>5. CallsTypeOK'
  BY <1>1, <1>3, <1>4 DEF DeployFullIInv, CallsTypeOK
<1>6. DiskFits' /\ ForwardFits'
  BY <1>3, <1>4 DEF DeployFullIInv, DiskFits, CurrentExists, ForwardFits
<1>7. RestoreFits'
  BY <1>3 DEF RestoreFits, RolledBackIsTrue, RestoreSteps
<1>8. PruneFits'
  <2>1. Active # None => status'[Active] = "active"
    BY <1>1, <1>2 DEF ApplyBegin, MarkReleaseDeploying, RowsFullIInv, RowsIInv, ColumnsTypeOK
  <2> QED BY <1>3, <2>1 DEF PruneFits
<1> QED BY <1>5, <1>6, <1>7, <1>8 DEF DeployFullIInv

LEMMA FitsStart == Init => DeployFullIInv
<1> SUFFICES ASSUME Init PROVE DeployFullIInv
  OBVIOUS
<1>0. op = [kind |-> "deploy", rel |-> None, prev |-> None, step |-> "ended", switched |-> FALSE,
            stopped |-> FALSE, undone |-> FALSE, stuck |-> FALSE, todo |-> {},
            outcome |-> "none"]
  BY DEF Init
<1>1. /\ op \in Operations /\ op.step = "ended" /\ op.outcome = "none" /\ op.prev = None
      /\ ~op.undone
  BY <1>0 DEF Operations, Steps, Outcomes
<1>2. CallsTypeOK
  <2>1. running \in [bin : Releases \union {None}, conf : Releases \union {None}]
    BY DEF Init, Stopped
  <2>2. cancelled \in BOOLEAN
    BY DEF Init
  <2> QED BY <1>1, <2>1, <2>2, DeployAssumption DEF Init, CallsTypeOK
<1>3. DiskFits /\ ForwardFits
  BY <1>1 DEF Init, DiskFits, CurrentExists, ForwardFits
<1>4. RestoreFits /\ PruneFits
  BY <1>1 DEF RestoreFits, RolledBackIsTrue, RestoreSteps, PruneFits, ForwardSteps
<1> QED BY <1>2, <1>3, <1>4 DEF DeployFullIInv

\* The inductive invariant: every call of an operation leaves the disk, the unit,
\* the process and the rows as its place in the operation says.
THEOREM DeployInvariant == Spec => [](RowsFullIInv /\ DeployFullIInv)
<1>1. Spec => []RowsFullIInv
  BY DeployImplementsRows, RowsInvariant, PTL
<1>2. RowsFullIInv /\ DeployFullIInv /\ [Next]_vars => DeployFullIInv'
  <2>1. ASSUME RowsFullIInv, DeployFullIInv, Call PROVE DeployFullIInv'
    BY <2>1, CallsKeepTypes, CallsKeepDisk, CallsKeepForward, CallsKeepRestore, CallsKeepPrune
       DEF DeployFullIInv
  <2>2. ASSUME RowsFullIInv, DeployFullIInv, Next PROVE DeployFullIInv'
    BY <2>1, <2>2, RequestsKeepFits, BeginKeepsFits DEF Next, Call
  <2>3. ASSUME DeployFullIInv, UNCHANGED vars PROVE DeployFullIInv'
    BY <2>3 DEF vars, DeployFullIInv, CallsTypeOK, DiskFits, CurrentExists, ForwardFits,
       RestoreFits, RolledBackIsTrue, PruneFits
  <2> QED BY <2>2, <2>3
<1> QED BY <1>1, <1>2, FitsStart, PTL DEF Spec

\* Every variable keeps its type.
THEOREM DeployTypes == Spec => []TypeOK
<1>1. RowsFullIInv /\ DeployFullIInv => TypeOK
  BY DEF RowsFullIInv, RowsIInv, ColumnsTypeOK, ActivationsTypeOK, RowsTypeOK, DeployFullIInv,
     CallsTypeOK, Operations, TypeOK
<1> QED BY <1>1, DeployInvariant, PTL

\* The pointer never dangles: unpacking, pruning, the removal of a failed release
\* and every compensation keep what it names.
THEOREM PointerIsWhole == Spec => []CurrentExists
<1>1. DeployFullIInv => CurrentExists
  BY DEF DeployFullIInv, DiskFits
<1> QED BY <1>1, DeployInvariant, PTL

\* A deployment that is reported as rolled back has left the earlier version
\* running, with its own files and configuration.
THEOREM RollbackIsWhatRuns == Spec => []RolledBackIsTrue
<1>1. DeployFullIInv => RolledBackIsTrue
  BY DEF DeployFullIInv, RestoreFits
<1> QED BY <1>1, DeployInvariant, PTL

\* One that succeeded over an earlier version has left the new one running.
THEOREM SuccessIsWhatRuns == Spec => []ReplacementRuns
<1>1. DeployFullIInv => ReplacementRuns
  BY DEF DeployFullIInv, ForwardFits, ReplacementRuns
<1> QED BY <1>1, DeployInvariant, PTL

\* A step that prunes removes neither the version that was activated nor, when two
\* are kept, the one it replaced.
LEMMA PruningSpares ==
  ASSUME RowsFullIInv, DeployFullIInv, [Next]_vars, op.step = "prune",
         NEW r \in {op.rel} \union (IF KeepLast > 1 THEN {op.prev} ELSE {}), r \in dirs
  PROVE  r \in dirs'
<1>1. r \notin op.todo
  BY DEF DeployFullIInv, PruneFits
<1>2. op \in Operations
  BY DEF DeployFullIInv, CallsTypeOK
<1>3. CASE PruneDirectory /\ dirs' # dirs
  <2>1. op.todo # {} /\ op.todo \subseteq Releases /\ dirs' = dirs \ {Oldest}
    BY <1>2, <1>3 DEF PruneDirectory, RemoveDirectory, Operations
  <2>2. Oldest \in op.todo
    BY <2>1, OldestIsLeft DEF Oldest, RowsFullIInv
  <2> QED BY <1>1, <2>1, <2>2
<1>4. CASE dirs' = dirs
  BY <1>4
<1>5. PruneDirectory \/ dirs' = dirs
  BY DEF Next, vars, PrepareDeploy, PrepareRollback, Retry, Refused, Cancel, Crash, Ask, ApplyBegin,
     disk, At, Prepare, StopPrevious, Materialize, Activate, Start, WaitForReady, Record, PruneRow,
     Succeed, UndoStop, UndoActivate, UndoPrepare, UndoStart, TeardownStop, TeardownPointer,
     RemoveFailed, Fail
<1> QED BY <1>3, <1>4, <1>5

\* The rollback target survives the retention.
THEOREM RollbackTargetSpared == Spec => PruneSparesRollbackTarget
<1>1. RowsFullIInv /\ DeployFullIInv /\ [Next]_vars =>
        [op.step = "prune" =>
           \A r \in {op.rel} \union (IF KeepLast > 1 THEN {op.prev} ELSE {}) :
             r \in dirs => r \in dirs']_vars
  BY PruningSpares
<1> QED BY <1>1, DeployInvariant, PTL DEF Spec, PruneSparesRollbackTarget

=============================================================================
