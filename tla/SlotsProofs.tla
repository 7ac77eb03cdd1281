------------------------------ MODULE SlotsProofs ------------------------------
(***************************************************************************)
(* Proofs about the blue-green deployment, for every set of releases and    *)
(* every bound: like the single-slot one, it uses the release rows by their *)
(* own operations only.                                                     *)
(***************************************************************************)
EXTENDS Slots, ReleaseRowsProofs

\* A request, and an operation once there is one, names a release that exists.
NamesAreReleases ==
  /\ {"rel", "step", "outcome"} \subseteq DOMAIN op
  /\ \A q \in wanted : q.rel \in Releases
  /\ op.step \notin {"ended", "reconcile"} \/ op.outcome # "none" => op.rel \in Releases

SlotsIInv == ColumnsTypeOK /\ NamesAreReleases

\* The steps of a running operation, forward and back.
Forward ==
  \/ PrepareSlot \/ Materialize \/ ActivateSlot \/ StartSlot \/ WaitForReady
  \/ Switch \/ ApplyStep \/ Switched \/ ObserveSlot

Promotion ==
  \/ SetServingSlot \/ PutServing \/ PutDraining \/ DrainAndStop \/ PutStopped
  \/ PruneDirectory \/ Succeed

Back ==
  \/ UndoSwitch \/ SwitchedBack \/ UndoStart \/ UndoReady
  \/ TeardownStop \/ TeardownPointer \/ PutFailed \/ RemoveFailed

\* Most of them touch no row.
LEMMA SilentKeepsRows ==
  ASSUME Forward \/ Promotion \/ Back \/ Cancel \/ OthersReload \/ Crash \/ Reconcile \/ Retry
  PROVE  UNCHANGED rows
<1>1. CASE Forward
  BY <1>1 DEF Forward, PrepareSlot, Materialize, ActivateSlot, StartSlot, WaitForReady,
              Switch, CallApply, ApplyStep, Switched, ObserveSlot
<1>2. CASE Promotion
  BY <1>2 DEF Promotion, SetServingSlot, PutServing, PutDraining, DrainAndStop, PutStopped,
              PruneDirectory, Succeed
<1>3. CASE Back
  BY <1>3 DEF Back, UndoSwitch, CallApply, SwitchedBack, UndoStart, UndoReady,
              TeardownStop, TeardownPointer, PutFailed, RemoveFailed
<1>4. CASE Cancel \/ OthersReload \/ Crash \/ Reconcile \/ Retry
  BY <1>4 DEF Cancel, OthersReload, Crash, Reconcile, Retry
<1> QED BY <1>1, <1>2, <1>3, <1>4

\* Marking something that is no release changes no row.
LEMMA MarkNoRelease ==
  ASSUME ColumnsTypeOK, NEW r, r \notin Releases, MarkReleaseRemoved(r)
  PROVE  UNCHANGED <<status, directory, activatedAt>>
  BY DEF ColumnsTypeOK, MarkReleaseRemoved

\* Every step is one transition of the rows, or none.
LEMMA StepsUseRows ==
  ASSUME SlotsIInv, Next
  PROVE  [RowsNext]_rows
<1>1. CASE \E r \in Releases : PrepareDeploy(r) \/ PrepareRollback(r)
  BY <1>1 DEF PrepareDeploy, PrepareRollback, RowsNext
<1>2. CASE \E q \in wanted : ApplySlotBegin(q)
  BY <1>2 DEF ApplySlotBegin, RowsNext, SlotsIInv, NamesAreReleases
<1>3. CASE Record
  BY <1>3 DEF Record, At, RowsNext, SlotsIInv, NamesAreReleases
<1>4. CASE Fail
  BY <1>4 DEF Fail, At, RowsNext, SlotsIInv, NamesAreReleases
<1>5. CASE PruneRow
  <2>1. MarkReleaseRemoved(Oldest) \/ UNCHANGED rows
    BY <1>5 DEF PruneRow
  <2> QED BY <2>1, MarkNoRelease DEF RowsNext, rows, SlotsIInv
<1>6. CASE Forward \/ Promotion \/ Back \/ Cancel \/ OthersReload \/ Crash \/ Reconcile \/ Retry
  BY <1>6, SilentKeepsRows
<1> QED
  BY <1>1, <1>2, <1>3, <1>4, <1>5, <1>6 DEF Next, Forward, Promotion, Back

\* Within an operation its release stays, and no request appears.
LEMMA CallsKeepNames ==
  ASSUME NamesAreReleases,
         Forward \/ Record \/ Promotion \/ PruneRow \/ Back \/ Fail
  PROVE  NamesAreReleases'
<1>1. op.step \notin {"ended", "reconcile"} /\ wanted' = wanted
  <2>1. CASE Forward
    BY <2>1 DEF Forward, At, PrepareSlot, Materialize, ActivateSlot, StartSlot, WaitForReady,
                Switch, CallApply, ApplyStep, Switched, Returned, ObserveSlot
  <2>2. CASE Record \/ Promotion \/ PruneRow
    BY <2>2 DEF Record, Promotion, At, SetServingSlot, PutServing, PutDraining, DrainAndStop,
                PutStopped, PruneDirectory, PruneRow, Succeed
  <2>3. CASE Back \/ Fail
    BY <2>3 DEF Back, At, UndoSwitch, CallApply, SwitchedBack, Returned, UndoStart, UndoReady,
                TeardownStop, TeardownPointer, PutFailed, RemoveFailed, Fail
  <2> QED BY <2>1, <2>2, <2>3
<1>2. DOMAIN op' = DOMAIN op /\ op'.rel = op.rel
  <2> USE DEF NamesAreReleases, Go, GoFail, GoStuck, Undo
  <2>1. CASE PrepareSlot \/ Materialize \/ ActivateSlot \/ StartSlot \/ WaitForReady
    BY <2>1 DEF PrepareSlot, Materialize, ActivateSlot, StartSlot, WaitForReady
  <2>2. CASE Switch \/ ApplyStep \/ Switched \/ ObserveSlot \/ Record
    BY <2>2 DEF Switch, CallApply, ApplyStep, Switched, ObserveSlot, Record
  <2>3. CASE Promotion \/ PruneRow
    BY <2>3 DEF Promotion, SetServingSlot, PutServing, PutDraining, DrainAndStop, PutStopped,
                PruneDirectory, PruneRow, Succeed
  <2>4. CASE Back \/ Fail
    BY <2>4 DEF Back, UndoSwitch, CallApply, SwitchedBack, UndoStart, UndoReady,
                TeardownStop, TeardownPointer, PutFailed, RemoveFailed, Fail
  <2> QED BY <2>1, <2>2, <2>3, <2>4 DEF Forward
<1> QED BY <1>1, <1>2 DEF NamesAreReleases

\* A request names a release that was looked up, or that of an ended operation.
LEMMA RequestsKeepNames ==
  ASSUME NamesAreReleases,
         (\E r \in Releases : PrepareDeploy(r) \/ PrepareRollback(r)) \/ Retry \/ Cancel
  PROVE  NamesAreReleases'
<1>1. op' = op
  BY DEF PrepareDeploy, PrepareRollback, Retry, Cancel, Ask
<1>2. \A q \in wanted' : q.rel \in Releases
  <2>1. CASE \E r \in Releases : PrepareDeploy(r) \/ PrepareRollback(r)
    BY <2>1 DEF NamesAreReleases, PrepareDeploy, PrepareRollback, Ask
  <2>2. CASE Retry
    BY <2>2 DEF NamesAreReleases, Retry, Ask
  <2>3. CASE Cancel
    BY <2>3 DEF NamesAreReleases, Cancel
  <2> QED BY <2>1, <2>2, <2>3
<1> QED BY <1>1, <1>2 DEF NamesAreReleases

\* The daemon's death and return, and what happens around it, keep the names.
LEMMA OthersKeepNames ==
  ASSUME NamesAreReleases, OthersReload \/ Crash \/ Reconcile
  PROVE  NamesAreReleases'
<1>1. CASE OthersReload
  BY <1>1 DEF NamesAreReleases, OthersReload
<1>2. CASE Crash
  BY <1>2 DEF NamesAreReleases, Crash
<1>3. CASE Reconcile
  BY <1>3 DEF NamesAreReleases, Reconcile, Go
<1> QED BY <1>1, <1>2, <1>3

LEMMA BeginKeepsNames ==
  ASSUME NamesAreReleases, NEW q \in wanted, ApplySlotBegin(q)
  PROVE  NamesAreReleases'
<1>1. wanted' = wanted \ {q} /\ q.rel \in Releases
  BY DEF NamesAreReleases, ApplySlotBegin
<1>2. \/ op' = Begun(q)
      \/ op' = [Begun(q) EXCEPT !.step = "ended", !.outcome = "refused"]
  BY DEF ApplySlotBegin
<1>3. op'.rel = q.rel /\ {"rel", "step", "outcome"} \subseteq DOMAIN op'
  <2>1. CASE op' = Begun(q)
    BY <2>1 DEF Begun
  <2>2. CASE op' = [Begun(q) EXCEPT !.step = "ended", !.outcome = "refused"]
    BY <2>2 DEF Begun
  <2> QED BY <1>2, <2>1, <2>2
<1> QED BY <1>1, <1>3 DEF NamesAreReleases

LEMMA SlotsStutter ==
  ASSUME SlotsIInv, UNCHANGED vars
  PROVE  SlotsIInv'
  BY DEF SlotsIInv, NamesAreReleases, ColumnsTypeOK, vars, rows

\* The blue-green deployment is a caller of the rows like the single-slot one.
THEOREM SlotsImplementRows == Spec => RowsSpec
<1>1. Init => RowsInit /\ SlotsIInv
  BY RowsStart DEF Init, SlotsIInv, RowsIInv, NamesAreReleases
<1>2. SlotsIInv /\ [Next]_vars => SlotsIInv'
  <2>1. ASSUME SlotsIInv, Next PROVE SlotsIInv'
    <3>1. ColumnsTypeOK'
      BY <2>1, StepsUseRows, RowsKeepTypes DEF SlotsIInv, ColumnsTypeOK, rows
    <3>2. NamesAreReleases'
      BY <2>1, CallsKeepNames, RequestsKeepNames, OthersKeepNames, BeginKeepsNames
         DEF SlotsIInv, Next, Forward, Promotion, Back
    <3> QED BY <3>1, <3>2 DEF SlotsIInv
  <2> QED BY <2>1, SlotsStutter
<1>3. SlotsIInv /\ [Next]_vars => [RowsNext]_rows
  BY StepsUseRows DEF vars, rows
<1> QED BY <1>1, <1>2, <1>3, PTL DEF Spec, RowsSpec

\* Through every switch of traffic, switch back, failed reload, crash and
\* reconciliation at most one release is active: there is one version to roll back.
THEOREM SlotsOneActive == Spec => []OneActive
  BY SlotsImplementRows, RowsOneActive

-----------------------------------------------------------------------------
(* What an operation has done to the traffic, the slots and their rows *)

Processes == [bin : Releases \union {None}, conf : Releases \union {None}]

Operations ==
  [kind : {"deploy", "rollback"}, rel : Releases \union {None}, prev : Releases \union {None},
   serving : Slot \union {None}, target : Slot, step : Steps, started : BOOLEAN,
   switched : BOOLEAN, undone : BOOLEAN, stuck : BOOLEAN, reload : BOOLEAN,
   todo : SUBSET Releases, outcome : Outcomes, before : Processes, agreed : BOOLEAN,
   vacant : BOOLEAN]

SlotsTypeOK ==
  /\ dirs \subseteq Releases
  /\ pointer \in [Slot -> Releases \union {None}]
  /\ unit \in [Slot -> Releases \union {None}]
  /\ proc \in [Slot -> Processes]
  /\ column \in Slot \union {None}
  /\ slotRow \in [Slot -> [rel : Releases \union {None}, state : SlotStates]]
  /\ NginxTypeOK
  /\ wanted \subseteq [kind : {"deploy", "rollback"}, rel : Releases]
  /\ op \in Operations
  /\ cancelled \in BOOLEAN
  /\ {requests, failures, cancels, crashes, foreign} \subseteq Nat

BeforeSwitch == {"prepare", "materialize", "activate", "start", "ready", "switch"}

Promoted == {"observe", "record", "column", "serving", "draining", "drain", "stopped",
             "prune", "pruned"}

Restoring == {"undoSwitch", "undoSwitching", "undoStart", "undoReady"}

TakenBack == {"teardownStop", "teardownPointer", "slotFailed", "remove", "fail"}

Idle == {"ended", "reconcile"}

\* Where the traffic went when the operation began, and where it is to go.
OldRoute == RouteTo(op.prev, op.serving)
NewRoute == RouteTo(op.rel, op.target)

\* The operation as it was begun, and the marks its steps leave.
Marks(o) ==
  /\ o.step \notin Idle \/ o.outcome # "none" => o.rel \in Releases
  /\ o.step \notin Idle => o.outcome = "none"
  /\ o.target # o.serving
  /\ o.agreed => /\ o.serving \in Slot /\ o.prev \in Releases
                  /\ o.before # Stopped /\ PortsOf(o.before.conf) = PortsOf(o.prev)
  /\ o.step \in BeforeSwitch \union {"switching"} => ~o.switched
  /\ o.step \in Promoted => o.switched
  /\ o.step \in BeforeSwitch \union Promoted \union Restoring \union {"switching", "teardownStop"} =>
       ~o.stuck
  /\ o.step \in {"teardownStop", "teardownPointer"} /\ o.agreed => ~o.switched
  /\ o.step \in Restoring => o.serving \in Slot \/ o.step = "undoSwitch"
  /\ o.step \in {"drain", "stopped", "draining"} => o.serving \in Slot

OpFits == Marks(op)

\* A call of nginx.Apply: what it has installed, and what nginx runs by if the
\* entry agreed when the operation began.
CallFits ==
  LET old == IF op.step = "switching" THEN OldRoute ELSE NewRoute
  IN op.step \in {"switching", "undoSwitching"} =>
       /\ call.target = IF op.step = "switching" THEN NewRoute ELSE OldRoute
       /\ call.step \in {"verify", "reload", "restore", "undo"} => file = call.target
       /\ call.step = "returned" /\ call.result = "ok" => file = call.target /\ loaded = file
       /\ op.agreed =>
            /\ loaded \in {OldRoute, NewRoute} /\ file \in {OldRoute, NewRoute}
            /\ call.step = "write" => file = old
            /\ call.step \in {"verify", "reload", "restore", "undo", "reloadAgain"} =>
                 call.previous = old
            /\ call.step \in {"write", "verify", "reload", "restore"} => loaded = old

\* Between the calls: where the file and nginx send the traffic.
EntryFits ==
  /\ op.step \in Promoted \union {"undoSwitch"} \/ op.outcome = "succeeded" =>
       file = NewRoute /\ loaded = NewRoute
  /\ op.step \in {"undoStart", "undoReady"} => file = OldRoute /\ loaded = OldRoute
  /\ op.agreed /\ op.step \in BeforeSwitch => file = OldRoute /\ loaded = OldRoute
  /\ op.agreed /\ op.step \in TakenBack /\ ~op.stuck => file = OldRoute /\ loaded = OldRoute

\* The processes: the old slot runs on until it is drained, the new one is ready
\* before it gets the traffic, and if its slot was vacant it is the release.
SlotsFit ==
  /\ op.agreed /\ op.step \notin Idle \union {"stopped", "prune", "pruned"} =>
       proc[op.serving] = op.before
  /\ op.step \in Promoted \union Restoring \union {"switch", "switching"} => Ready(op.rel, op.target)
  /\ op.step \in {"materialize", "activate", "start"} => unit[op.target] = op.rel
  /\ op.step = "start" => pointer[op.target] = op.rel
  /\ op.vacant =>
       /\ op.step \in {"prepare", "materialize", "activate", "start"} => proc[op.target] = Stopped
       /\ op.step \in Promoted \union {"ready", "switch", "switching"} \/ op.outcome = "succeeded" =>
            proc[op.target] = ProcessOf(op.rel)
  /\ op.step \in Idle /\ op.outcome \in {"rolledBack", "untouched"} /\ op.agreed =>
       Served = op.before

TrafficIInv == SlotsTypeOK /\ OpFits /\ CallFits /\ EntryFits /\ SlotsFit

-----------------------------------------------------------------------------
(* The calls of an operation *)

Call == Forward \/ Record \/ Promotion \/ PruneRow \/ Back \/ Fail

\* What an operation was begun with.
SameOperation(o, p) ==
  /\ p \in Operations /\ p.kind = o.kind /\ p.rel = o.rel /\ p.prev = o.prev
  /\ p.serving = o.serving /\ p.target = o.target /\ p.before = o.before /\ p.vacant = o.vacant

\* The ways in which a step changes the record of its operation.
LEMMA Moves ==
  ASSUME NEW o \in Operations, NEW s \in Steps, NEW b \in BOOLEAN
  PROVE  /\ SameOperation(o, [o EXCEPT !.step = s])
         /\ SameOperation(o, [o EXCEPT !.step = s, !.started = b])
         /\ SameOperation(o, [o EXCEPT !.step = s, !.undone = b])
         /\ SameOperation(o, [o EXCEPT !.step = s, !.stuck = b])
         /\ SameOperation(o, [o EXCEPT !.step = s, !.agreed = b])
<1> USE DEF SameOperation, Operations
<1>1. SameOperation(o, [o EXCEPT !.step = s])                   OBVIOUS
<1>2. SameOperation(o, [o EXCEPT !.step = s, !.started = b])    OBVIOUS
<1>3. SameOperation(o, [o EXCEPT !.step = s, !.undone = b])     OBVIOUS
<1>4. SameOperation(o, [o EXCEPT !.step = s, !.stuck = b])      OBVIOUS
<1>5. SameOperation(o, [o EXCEPT !.step = s, !.agreed = b])     OBVIOUS
<1> QED BY <1>1, <1>2, <1>3, <1>4, <1>5

LEMMA MovesWithAgreement ==
  ASSUME NEW o \in Operations, NEW s \in Steps, NEW b \in BOOLEAN, NEW c \in BOOLEAN
  PROVE  /\ SameOperation(o, [o EXCEPT !.step = s, !.switched = b, !.agreed = c])
         /\ SameOperation(o, [o EXCEPT !.step = s, !.stuck = b, !.agreed = c])
         /\ SameOperation(o, [o EXCEPT !.agreed = b, !.reload = c])
         /\ SameOperation(o, [o EXCEPT !.agreed = b])
<1> USE DEF SameOperation, Operations
<1>1. SameOperation(o, [o EXCEPT !.step = s, !.switched = b, !.agreed = c])  OBVIOUS
<1>2. SameOperation(o, [o EXCEPT !.step = s, !.stuck = b, !.agreed = c])     OBVIOUS
<1>3. SameOperation(o, [o EXCEPT !.agreed = b, !.reload = c])                OBVIOUS
<1>4. SameOperation(o, [o EXCEPT !.agreed = b])                              OBVIOUS
<1> QED BY <1>1, <1>2, <1>3, <1>4

LEMMA MovesWithTodo ==
  ASSUME NEW o \in Operations, NEW s \in Steps, NEW todo \in SUBSET Releases
  PROVE  /\ SameOperation(o, [o EXCEPT !.step = s, !.todo = todo])
         /\ SameOperation(o, [o EXCEPT !.todo = todo])
<1> USE DEF SameOperation, Operations
<1>1. SameOperation(o, [o EXCEPT !.step = s, !.todo = todo])        OBVIOUS
<1>2. SameOperation(o, [o EXCEPT !.todo = todo])                    OBVIOUS
<1> QED BY <1>1, <1>2

LEMMA MovesToTheEnd ==
  ASSUME NEW o \in Operations, NEW outcome \in Outcomes
  PROVE  SameOperation(o, [o EXCEPT !.step = "ended", !.outcome = outcome])
<1>1. "ended" \in Steps
  BY DEF Steps
<1> QED BY <1>1 DEF SameOperation, Operations

LEMMA UndoMoves ==
  ASSUME NEW o \in Operations
  PROVE  /\ SameOperation(o, Undo(o))
         /\ Undo(o).step \in {"undoSwitch", "teardownStop", "slotFailed"}
<1>1. {"undoSwitch", "teardownStop", "slotFailed"} \subseteq Steps
  BY DEF Steps
<1>2. SameOperation(o, Undo(o))
  BY <1>1, Moves DEF Undo
<1>3. Undo(o).step \in {"undoSwitch", "teardownStop", "slotFailed"}
  BY DEF Undo, Operations
<1> QED BY <1>2, <1>3

\* A call moves the operation on; what it was begun with stays.
LEMMA CallsKeepOp ==
  ASSUME op \in Operations, Call
  PROVE  SameOperation(op, op')
<1>a. op.switched \in BOOLEAN /\ op.stuck \in BOOLEAN /\ op.todo \in SUBSET Releases
  BY DEF Operations
<1> USE DEF GoFail, Go, GoStuck
<1>1. CASE PrepareSlot
  BY <1>1, <1>a, Moves, UndoMoves DEF PrepareSlot, Steps
<1>2. CASE Materialize
  BY <1>2, <1>a, Moves, UndoMoves DEF Materialize, Steps
<1>3. CASE ActivateSlot
  BY <1>3, <1>a, Moves, UndoMoves DEF ActivateSlot, Steps
<1>4. CASE StartSlot
  BY <1>4, <1>a, Moves, UndoMoves DEF StartSlot, Steps
<1>5. CASE WaitForReady
  BY <1>5, <1>a, Moves, UndoMoves DEF WaitForReady, Steps
<1>6. CASE Switch
  BY <1>6, <1>a, Moves, UndoMoves DEF Switch, Steps, CallApply
<1>7. CASE ApplyStep
  BY <1>7 DEF ApplyStep, SameOperation
<1>8. CASE Switched
  <2>1. CASE op' = [op EXCEPT !.step = "observe", !.switched = TRUE, !.agreed = Known]
    BY <2>1, MovesWithAgreement DEF Known, Steps
  <2>2. CASE op' = Undo([op EXCEPT !.agreed = Known,
                                   !.reload = call.result = "NGINX_RELOAD_FAILED"])
    <3> DEFINE p == [op EXCEPT !.agreed = Known, !.reload = call.result = "NGINX_RELOAD_FAILED"]
    <3>1. SameOperation(op, p)
      BY MovesWithAgreement DEF Known, Steps
    <3>2. SameOperation(p, Undo(p))
      BY <3>1, UndoMoves DEF SameOperation
    <3> HIDE DEF p
    <3> QED BY <2>2, <3>1, <3>2 DEF SameOperation, p
  <2> QED BY <1>8, <2>1, <2>2 DEF Switched
<1>9. CASE ObserveSlot
  BY <1>9, <1>a, Moves, UndoMoves DEF ObserveSlot, Steps
<1>10. CASE Record
  BY <1>10, <1>a, Moves, UndoMoves DEF Record, Steps
<1>11. CASE SetServingSlot
  BY <1>11, <1>a, Moves, UndoMoves DEF SetServingSlot, Steps
<1>12. CASE PutServing
  <2>1. PlanReleaseRemoval(op.rel) \in SUBSET Releases /\ {"draining", "prune"} \subseteq Steps
    BY DEF PlanReleaseRemoval, Steps
  <2>2. CASE op' = Undo(op)
    BY <2>2, UndoMoves
  <2>3. CASE \E s \in Steps : op' = [op EXCEPT !.step = s, !.todo = PlanReleaseRemoval(op.rel)]
    BY <2>1, <2>3, MovesWithTodo
  <2> QED BY <1>12, <2>1, <2>2, <2>3 DEF PutServing
<1>13. CASE PutDraining
  BY <1>13, <1>a, Moves, UndoMoves DEF PutDraining, Steps, AfterPromotion
<1>14. CASE DrainAndStop
  BY <1>14, <1>a, Moves, UndoMoves DEF DrainAndStop, Steps
<1>15. CASE PutStopped
  BY <1>15, <1>a, Moves, UndoMoves DEF PutStopped, Steps
<1>16. CASE PruneDirectory
  <2>1. op.todo \ {Oldest} \in SUBSET Releases /\ {"prune", "pruned"} \subseteq Steps
    BY <1>a DEF Steps
  <2> QED BY <1>16, <2>1, Moves, MovesWithTodo DEF PruneDirectory
<1>17. CASE PruneRow
  <2>1. op.todo \ {Oldest} \in SUBSET Releases /\ {"prune", "pruned"} \subseteq Steps
    BY <1>a DEF Steps
  <2> QED BY <1>17, <2>1, MovesWithTodo DEF PruneRow
<1>18. CASE Succeed
  BY <1>18, MovesToTheEnd DEF Succeed, Outcomes
<1>19. CASE UndoSwitch
  BY <1>19, <1>a, Moves, UndoMoves DEF UndoSwitch, Steps, CallApply
<1>20. CASE SwitchedBack
  BY <1>20, Moves, MovesWithAgreement DEF SwitchedBack, Known, Steps
<1>21. CASE UndoStart
  BY <1>21, <1>a, Moves, UndoMoves DEF UndoStart, Steps
<1>22. CASE UndoReady
  BY <1>22, <1>a, Moves, UndoMoves DEF UndoReady, Steps
<1>23. CASE TeardownStop
  BY <1>23, <1>a, Moves, UndoMoves DEF TeardownStop, Steps
<1>24. CASE TeardownPointer
  BY <1>24, <1>a, Moves, UndoMoves DEF TeardownPointer, Steps
<1>25. CASE PutFailed
  BY <1>25, <1>a, Moves, UndoMoves DEF PutFailed, Steps
<1>26. CASE RemoveFailed
  BY <1>26, <1>a, Moves, UndoMoves DEF RemoveFailed, Steps
<1>27. CASE Fail
  BY <1>27, MovesToTheEnd DEF Fail, Verdict, Outcomes
<1> QED BY <1>1, <1>2, <1>3, <1>4, <1>5, <1>6, <1>7, <1>8, <1>9, <1>10, <1>11, <1>12, <1>13, <1>14, <1>15, <1>16, <1>17, <1>18, <1>19, <1>20, <1>21, <1>22, <1>23, <1>24, <1>25, <1>26, <1>27 DEF Call, Forward, Promotion, Back

\* A call counts its failure; it makes no request, and only it is under way.
LEMMA CallsCount ==
  ASSUME SlotsTypeOK, Call
  PROVE  /\ wanted' = wanted /\ cancelled' = cancelled /\ cancels' = cancels /\ crashes' = crashes
         /\ requests' = requests /\ foreign' = foreign
         /\ failures' \in Nat /\ failures' >= failures
         /\ op.step \notin Idle
<1>0. failures \in Nat
  BY DEF SlotsTypeOK
<1> USE <1>0 DEF At, Works, Breaks, GoFail, Idle
<1>1. CASE PrepareSlot
  BY <1>1 DEF PrepareSlot
<1>2. CASE Materialize
  BY <1>2 DEF Materialize
<1>3. CASE ActivateSlot
  BY <1>3 DEF ActivateSlot
<1>4. CASE StartSlot
  BY <1>4 DEF StartSlot
<1>5. CASE WaitForReady
  BY <1>5 DEF WaitForReady
<1>6. CASE Switch
  BY <1>6 DEF Switch, CallApply
<1>7. CASE ApplyStep
  BY <1>7 DEF ApplyStep, WriteManaged, VerifyInstalled, Reload, ReloadAgain, Restore
<1>8. CASE Switched
  BY <1>8 DEF Switched, Returned
<1>9. CASE ObserveSlot
  BY <1>9 DEF ObserveSlot
<1>10. CASE Record
  BY <1>10 DEF Record
<1>11. CASE SetServingSlot
  BY <1>11 DEF SetServingSlot
<1>12. CASE PutServing
  BY <1>12 DEF PutServing
<1>13. CASE PutDraining
  BY <1>13 DEF PutDraining
<1>14. CASE DrainAndStop
  BY <1>14 DEF DrainAndStop
<1>15. CASE PutStopped
  BY <1>15 DEF PutStopped
<1>16. CASE PruneDirectory
  BY <1>16 DEF PruneDirectory
<1>17. CASE PruneRow
  BY <1>17 DEF PruneRow
<1>18. CASE Succeed
  BY <1>18 DEF Succeed
<1>19. CASE UndoSwitch
  BY <1>19 DEF UndoSwitch, CallApply
<1>20. CASE SwitchedBack
  BY <1>20 DEF SwitchedBack, Returned
<1>21. CASE UndoStart
  BY <1>21 DEF UndoStart
<1>22. CASE UndoReady
  BY <1>22 DEF UndoReady
<1>23. CASE TeardownStop
  BY <1>23 DEF TeardownStop
<1>24. CASE TeardownPointer
  BY <1>24 DEF TeardownPointer
<1>25. CASE PutFailed
  BY <1>25 DEF PutFailed
<1>26. CASE RemoveFailed
  BY <1>26 DEF RemoveFailed
<1>27. CASE Fail
  BY <1>27 DEF Fail
<1> QED BY <1>1, <1>2, <1>3, <1>4, <1>5, <1>6, <1>7, <1>8, <1>9, <1>10, <1>11, <1>12, <1>13, <1>14, <1>15, <1>16, <1>17, <1>18, <1>19, <1>20, <1>21, <1>22, <1>23, <1>24, <1>25, <1>26, <1>27 DEF Call, Forward, Promotion, Back

\* The record of a call of Apply stays well formed.
LEMMA ApplyKeepsTypes ==
  ASSUME SlotsTypeOK, ApplyStep
  PROVE  NginxTypeOK'
<1>0. NginxTypeOK
  BY DEF SlotsTypeOK
<1> USE <1>0 DEF NginxTypeOK, CallSteps, Results, Return
<1>1. CASE WriteManaged(Works, Breaks)                                       BY <1>1 DEF WriteManaged
<1>2. CASE VerifyInstalled(Works, Breaks)                                    BY <1>2 DEF VerifyInstalled
<1>3. CASE Reload(Works, Breaks)                                             BY <1>3 DEF Reload
<1>4. CASE ReloadAgain(Works, Breaks)                                        BY <1>4 DEF ReloadAgain
<1>5. CASE Restore(UNCHANGED failures, failures < MaxFailures /\ failures' = failures + 1)
  BY <1>5 DEF Restore
<1> QED BY <1>1, <1>2, <1>3, <1>4, <1>5 DEF ApplyStep

\* The disk, the units and the processes of the slots keep their types.
LEMMA CallsKeepSlots ==
  ASSUME SlotsTypeOK, OpFits, Call
  PROVE  /\ dirs' \subseteq Releases
         /\ pointer' \in [Slot -> Releases \union {None}]
         /\ unit' \in [Slot -> Releases \union {None}]
         /\ proc' \in [Slot -> Processes]
<1>0. /\ op.rel \in Releases \union {None} /\ op.target \in Slot /\ op.serving \in Slot \union {None}
      /\ op.step = "materialize" => op.rel \in Releases
      /\ dirs \subseteq Releases
      /\ pointer \in [Slot -> Releases \union {None}]
      /\ unit \in [Slot -> Releases \union {None}]
      /\ proc \in [Slot -> Processes]
  BY DEF SlotsTypeOK, Operations, OpFits, Marks, Idle
<1> USE <1>0 DEF disk, units, Processes
<1>1. CASE PrepareSlot
  BY <1>1 DEF PrepareSlot
<1>2. CASE Materialize
  BY <1>2 DEF Materialize, At
<1>3. CASE ActivateSlot
  BY <1>3 DEF ActivateSlot
<1>4. CASE StartSlot
  BY <1>4 DEF StartSlot, StartedIn, Stopped
<1>5. CASE WaitForReady
  BY <1>5 DEF WaitForReady
<1>6. CASE Switch
  BY <1>6 DEF Switch, CallApply, Apply
<1>7. CASE ApplyStep
  BY <1>7 DEF ApplyStep
<1>8. CASE Switched
  BY <1>8 DEF Switched, Returned
<1>9. CASE ObserveSlot
  BY <1>9 DEF ObserveSlot
<1>10. CASE Record
  BY <1>10 DEF Record
<1>11. CASE SetServingSlot
  BY <1>11 DEF SetServingSlot
<1>12. CASE PutServing
  BY <1>12 DEF PutServing, PutApplicationSlot, SlotStates
<1>13. CASE PutDraining
  BY <1>13 DEF PutDraining, PutApplicationSlot, SlotStates
<1>14. CASE DrainAndStop
  BY <1>14 DEF DrainAndStop, Stopped
<1>15. CASE PutStopped
  BY <1>15 DEF PutStopped, PutApplicationSlot, SlotStates
<1>16. CASE PruneDirectory
  BY <1>16 DEF PruneDirectory, RemoveDirectory
<1>17. CASE PruneRow
  BY <1>17 DEF PruneRow
<1>18. CASE Succeed
  BY <1>18 DEF Succeed
<1>19. CASE UndoSwitch
  BY <1>19 DEF UndoSwitch, CallApply, Apply
<1>20. CASE SwitchedBack
  BY <1>20 DEF SwitchedBack, Returned
<1>21. CASE UndoStart
  BY <1>21 DEF UndoStart, StartedIn, Stopped
<1>22. CASE UndoReady
  BY <1>22 DEF UndoReady
<1>23. CASE TeardownStop
  BY <1>23 DEF TeardownStop, Stopped
<1>24. CASE TeardownPointer
  BY <1>24 DEF TeardownPointer
<1>25. CASE PutFailed
  BY <1>25 DEF PutFailed, PutApplicationSlot, SlotStates
<1>26. CASE RemoveFailed
  BY <1>26 DEF RemoveFailed, RemoveDirectory
<1>27. CASE Fail
  BY <1>27 DEF Fail
<1> QED BY <1>1, <1>2, <1>3, <1>4, <1>5, <1>6, <1>7, <1>8, <1>9, <1>10, <1>11, <1>12, <1>13, <1>14, <1>15, <1>16, <1>17, <1>18, <1>19, <1>20, <1>21, <1>22, <1>23, <1>24, <1>25, <1>26, <1>27 DEF Call, Forward, Promotion, Back

\* So do the column, the rows of the slots and the entry.
LEMMA CallsKeepMirror ==
  ASSUME SlotsTypeOK, Call
  PROVE  /\ column' \in Slot \union {None}
         /\ slotRow' \in [Slot -> [rel : Releases \union {None}, state : SlotStates]]
         /\ NginxTypeOK'
<1>0. /\ op.rel \in Releases \union {None} /\ op.prev \in Releases \union {None}
      /\ op.target \in Slot /\ op.serving \in Slot \union {None}
      /\ column \in Slot \union {None}
      /\ slotRow \in [Slot -> [rel : Releases \union {None}, state : SlotStates]]
  BY DEF SlotsTypeOK, Operations
<1> USE <1>0 DEF mirror, entry
<1>a. ASSUME UNCHANGED entry PROVE NginxTypeOK'
  BY <1>a DEF SlotsTypeOK, NginxTypeOK
<1>b. ASSUME NEW route \in Routes, Apply(route), UNCHANGED <<file, loaded>> PROVE NginxTypeOK'
  BY <1>b DEF SlotsTypeOK, NginxTypeOK, Apply, CallSteps, Results
<1>c. ASSUME UNCHANGED <<file, loaded>>, call' = [call EXCEPT !.step = "idle"] PROVE NginxTypeOK'
  BY <1>c DEF SlotsTypeOK, NginxTypeOK, CallSteps
<1>d. \A r, s : s \in Slot => RouteTo(r, s) \in Routes
  BY DEF RouteTo, Routes, PortsOf, Ports
<1>1. CASE PrepareSlot
  BY <1>1, <1>a DEF PrepareSlot
<1>2. CASE Materialize
  BY <1>2, <1>a DEF Materialize
<1>3. CASE ActivateSlot
  BY <1>3, <1>a DEF ActivateSlot
<1>4. CASE StartSlot
  BY <1>4, <1>a DEF StartSlot
<1>5. CASE WaitForReady
  BY <1>5, <1>a DEF WaitForReady
<1>6. CASE Switch
  BY <1>6, <1>a, <1>b, <1>d DEF Switch, CallApply
<1>7. CASE ApplyStep
  BY <1>7, ApplyKeepsTypes DEF ApplyStep
<1>8. CASE Switched
  BY <1>8, <1>c DEF Switched, Returned
<1>9. CASE ObserveSlot
  BY <1>9, <1>a DEF ObserveSlot
<1>10. CASE Record
  BY <1>10, <1>a DEF Record
<1>11. CASE SetServingSlot
  BY <1>11, <1>a DEF SetServingSlot
<1>12. CASE PutServing
  BY <1>12, <1>a DEF PutServing, PutApplicationSlot, SlotStates
<1>13. CASE PutDraining
  BY <1>13, <1>a DEF PutDraining, PutApplicationSlot, SlotStates
<1>14. CASE DrainAndStop
  BY <1>14, <1>a DEF DrainAndStop
<1>15. CASE PutStopped
  BY <1>15, <1>a DEF PutStopped, PutApplicationSlot, SlotStates
<1>16. CASE PruneDirectory
  BY <1>16, <1>a DEF PruneDirectory
<1>17. CASE PruneRow
  BY <1>17, <1>a DEF PruneRow
<1>18. CASE Succeed
  BY <1>18, <1>a DEF Succeed
<1>19. CASE UndoSwitch
  BY <1>19, <1>a, <1>b, <1>d DEF UndoSwitch, CallApply
<1>20. CASE SwitchedBack
  BY <1>20, <1>c DEF SwitchedBack, Returned
<1>21. CASE UndoStart
  BY <1>21, <1>a DEF UndoStart
<1>22. CASE UndoReady
  BY <1>22, <1>a DEF UndoReady
<1>23. CASE TeardownStop
  BY <1>23, <1>a DEF TeardownStop
<1>24. CASE TeardownPointer
  BY <1>24, <1>a DEF TeardownPointer
<1>25. CASE PutFailed
  BY <1>25, <1>a DEF PutFailed, PutApplicationSlot, SlotStates
<1>26. CASE RemoveFailed
  BY <1>26, <1>a DEF RemoveFailed
<1>27. CASE Fail
  BY <1>27, <1>a DEF Fail
<1> QED BY <1>1, <1>2, <1>3, <1>4, <1>5, <1>6, <1>7, <1>8, <1>9, <1>10, <1>11, <1>12, <1>13, <1>14, <1>15, <1>16, <1>17, <1>18, <1>19, <1>20, <1>21, <1>22, <1>23, <1>24, <1>25, <1>26, <1>27 DEF Call, Forward, Promotion, Back

LEMMA CallsKeepTypes ==
  ASSUME SlotsTypeOK, OpFits, Call
  PROVE  SlotsTypeOK'
<1>1. SameOperation(op, op')
  BY CallsKeepOp DEF SlotsTypeOK
<1>2. /\ wanted' \subseteq [kind : {"deploy", "rollback"}, rel : Releases] /\ cancelled' \in BOOLEAN
      /\ {requests, failures, cancels, crashes, foreign}' \subseteq Nat
  BY CallsCount DEF SlotsTypeOK
<1> QED BY <1>1, <1>2, CallsKeepSlots, CallsKeepMirror DEF SlotsTypeOK, SameOperation

\* A failing call of an operation that has not failed before.
LEMMA UndoMarks ==
  ASSUME NEW o \in Operations, Marks(o), ~o.stuck, o.step \notin Idle
  PROVE  Marks(Undo(o))
<1> USE ReleaseRowsAssumption DEF Operations, Marks, Idle, BeforeSwitch, Promoted, Restoring
<1>1. CASE o.switched /\ o.prev # None
  BY <1>1 DEF Undo
<1>2. CASE o.switched /\ o.prev = None
  BY <1>2 DEF Undo
<1>3. CASE ~o.switched /\ o.started
  BY <1>3 DEF Undo
<1>4. CASE ~o.switched /\ ~o.started
  BY <1>4 DEF Undo
<1> QED BY <1>1, <1>2, <1>3, <1>4

\* The marks of an operation follow its steps, forward and back.
LEMMA CallsKeepMarks ==
  ASSUME SlotsTypeOK, OpFits, Call
  PROVE  OpFits'
<1>0. op \in Operations
  BY DEF SlotsTypeOK
<1>a. op.step \notin Idle
  BY CallsCount
<1>b. ASSUME op' = Undo(op), op.step \in BeforeSwitch \union Promoted
      PROVE  OpFits'
  BY <1>0, <1>a, <1>b, UndoMarks DEF OpFits, Marks
<1>c. \A b, c \in BOOLEAN : [op EXCEPT !.agreed = b, !.reload = c] \in Operations
  BY <1>0, MovesWithAgreement DEF SameOperation, Steps
<1> USE <1>0, <1>a DEF Operations, At, GoFail, Go, GoStuck, OpFits, Idle, BeforeSwitch, Promoted,
        Restoring
<1>1. CASE PrepareSlot
  BY <1>1, <1>b DEF PrepareSlot, Marks
<1>2. CASE Materialize
  BY <1>2, <1>b DEF Materialize, Marks
<1>3. CASE ActivateSlot
  BY <1>3, <1>b DEF ActivateSlot, Marks
<1>4. CASE StartSlot
  BY <1>4, <1>b DEF StartSlot, Marks
<1>5. CASE WaitForReady
  BY <1>5, <1>b DEF WaitForReady, Marks
<1>6. CASE Switch
  BY <1>6 DEF Switch, Marks, CallApply
<1>7. CASE ApplyStep
  BY <1>7 DEF ApplyStep, Marks
<1>8. CASE Switched
  <2>1. op.step = "switching"
    BY <1>8 DEF Switched, Returned
  <2>2. CASE op' = [op EXCEPT !.step = "observe", !.switched = TRUE, !.agreed = Known]
    BY <2>1, <2>2 DEF Marks, Known
  <2>3. CASE op' = Undo([op EXCEPT !.agreed = Known,
                                   !.reload = call.result = "NGINX_RELOAD_FAILED"])
    <3> DEFINE p == [op EXCEPT !.agreed = Known, !.reload = call.result = "NGINX_RELOAD_FAILED"]
    <3>1. p \in Operations
      BY <1>c DEF Known
    <3>2. Marks(p) /\ ~p.stuck /\ p.step \notin Idle
      BY <2>1 DEF Marks, Known
    <3> HIDE DEF p
    <3>3. Marks(Undo(p))
      BY <3>1, <3>2, UndoMarks
    <3> QED BY <2>3, <3>3 DEF p
  <2> QED BY <1>8, <2>2, <2>3 DEF Switched
<1>9. CASE ObserveSlot
  BY <1>9, <1>b DEF ObserveSlot, Marks
<1>10. CASE Record
  BY <1>10, <1>b DEF Record, Marks
<1>11. CASE SetServingSlot
  BY <1>11, <1>b DEF SetServingSlot, Marks
<1>12. CASE PutServing
  BY <1>12, <1>b DEF PutServing, Marks
<1>13. CASE PutDraining
  BY <1>13, <1>b DEF PutDraining, Marks, AfterPromotion
<1>14. CASE DrainAndStop
  BY <1>14 DEF DrainAndStop, Marks
<1>15. CASE PutStopped
  BY <1>15 DEF PutStopped, Marks
<1>16. CASE PruneDirectory
  BY <1>16 DEF PruneDirectory, Marks
<1>17. CASE PruneRow
  BY <1>17 DEF PruneRow, Marks
<1>18. CASE Succeed
  BY <1>18 DEF Succeed, Marks
<1>19. CASE UndoSwitch
  BY <1>19 DEF UndoSwitch, Marks, CallApply
<1>20. CASE SwitchedBack
  <2>1. op.step = "undoSwitching" /\ op.agreed \in BOOLEAN
    BY <1>20 DEF SwitchedBack, Returned
  <2>2. CASE op' = [op EXCEPT !.step = "undoStart", !.agreed = Known]
    BY <2>1, <2>2 DEF Marks, Known
  <2>3. CASE op' = [op EXCEPT !.step = "slotFailed", !.stuck = TRUE, !.agreed = Known]
    BY <2>1, <2>3 DEF Marks, Known
  <2> QED BY <1>20, <2>2, <2>3 DEF SwitchedBack
<1>21. CASE UndoStart
  BY <1>21 DEF UndoStart, Marks
<1>22. CASE UndoReady
  BY <1>22 DEF UndoReady, Marks
<1>23. CASE TeardownStop
  BY <1>23 DEF TeardownStop, Marks
<1>24. CASE TeardownPointer
  BY <1>24 DEF TeardownPointer, Marks
<1>25. CASE PutFailed
  BY <1>25 DEF PutFailed, Marks
<1>26. CASE RemoveFailed
  BY <1>26 DEF RemoveFailed, Marks
<1>27. CASE Fail
  BY <1>27 DEF Fail, Marks
<1> QED BY <1>1, <1>2, <1>3, <1>4, <1>5, <1>6, <1>7, <1>8, <1>9, <1>10, <1>11, <1>12, <1>13, <1>14, <1>15, <1>16, <1>17, <1>18, <1>19, <1>20, <1>21, <1>22, <1>23, <1>24, <1>25, <1>26, <1>27 DEF Call, Forward, Promotion, Back

LEMMA RoutesStay ==
  ASSUME SameOperation(op, op')
  PROVE  OldRoute' = OldRoute /\ NewRoute' = NewRoute
  BY DEF SameOperation, OldRoute, NewRoute, RouteTo, PortsOf

\* Each step of Apply, forward and in its own compensation.
LEMMA ApplyKeepsCall ==
  ASSUME CallFits, SlotsTypeOK, ApplyStep
  PROVE  CallFits'
<1>1. op' = op /\ OldRoute' = OldRoute /\ NewRoute' = NewRoute
  BY DEF ApplyStep, OldRoute, NewRoute
<1>2. call \in [step : CallSteps, target : Routes \union {None},
                previous : Routes \union {None}, result : Results]
  BY DEF SlotsTypeOK, NginxTypeOK
<1> HIDE DEF OldRoute, NewRoute
<1> USE <1>1, <1>2 DEF CallFits, Return
<1>3. CASE WriteManaged(Works, Breaks)     BY <1>3 DEF WriteManaged
<1>4. CASE VerifyInstalled(Works, Breaks)  BY <1>4 DEF VerifyInstalled
<1>5. CASE Reload(Works, Breaks)           BY <1>5 DEF Reload
<1>6. CASE ReloadAgain(Works, Breaks)      BY <1>6 DEF ReloadAgain
<1>7. CASE Restore(UNCHANGED failures, failures < MaxFailures /\ failures' = failures + 1)
  BY <1>7 DEF Restore
<1> QED BY <1>3, <1>4, <1>5, <1>6, <1>7 DEF ApplyStep

\* A call of Apply begins with an entry that fits the operation.
LEMMA CallsKeepCall ==
  ASSUME SlotsTypeOK, OpFits, CallFits, EntryFits, Call
  PROVE  CallFits'
<1>0. op \in Operations /\ SameOperation(op, op') /\ OldRoute' = OldRoute /\ NewRoute' = NewRoute
  BY CallsKeepOp, RoutesStay DEF SlotsTypeOK
<1>a. CASE op'.step \notin {"switching", "undoSwitching"}
  BY <1>a DEF CallFits
<1>b. Undo(op).step \notin {"switching", "undoSwitching"}
  BY <1>0, UndoMoves
<1>1. CASE ApplyStep
  BY <1>1, ApplyKeepsCall
<1>2. CASE Switch
  BY <1>0, <1>2 DEF Switch, CallApply, Apply, At, Go, CallFits, EntryFits, BeforeSwitch, NewRoute,
     Operations
<1>3. CASE UndoSwitch
  <2>1. CASE CallApply("undoSwitch", "undoSwitching", RouteTo(op.prev, op.serving))
    BY <1>0, <2>1 DEF CallApply, Apply, At, Go, CallFits, EntryFits, OldRoute, Operations
  <2>2. CASE op' = [op EXCEPT !.step = "slotFailed", !.stuck = TRUE]
    BY <1>0, <1>a, <2>2 DEF Operations
  <2> QED BY <1>3, <2>1, <2>2 DEF UndoSwitch, GoStuck
<1>4. CASE Switched
  <2>1. CASE op' = [op EXCEPT !.step = "observe", !.switched = TRUE, !.agreed = Known]
    BY <1>0, <1>a, <2>1 DEF Operations
  <2>2. CASE op' = Undo([op EXCEPT !.agreed = Known,
                                   !.reload = call.result = "NGINX_RELOAD_FAILED"])
    <3> DEFINE p == [op EXCEPT !.agreed = Known, !.reload = call.result = "NGINX_RELOAD_FAILED"]
    <3>1. p \in Operations
      BY <1>0, MovesWithAgreement DEF Known, SameOperation, Steps
    <3> HIDE DEF p
    <3>2. Undo(p).step \notin {"switching", "undoSwitching"}
      BY <3>1, UndoMoves
    <3> QED BY <1>a, <2>2, <3>2 DEF p
  <2> QED BY <1>4, <2>1, <2>2 DEF Switched
<1>5. CASE PrepareSlot \/ Materialize \/ ActivateSlot \/ StartSlot \/ WaitForReady \/ ObserveSlot
  BY <1>0, <1>a, <1>b, <1>5 DEF PrepareSlot, Materialize, ActivateSlot, StartSlot, WaitForReady,
     ObserveSlot, GoFail, Go, Operations
<1>6. CASE Record \/ Promotion \/ PruneRow
  BY <1>0, <1>a, <1>b, <1>6 DEF Record, Promotion, PruneRow, SetServingSlot, PutServing,
     PutDraining, DrainAndStop, PutStopped, PruneDirectory, Succeed, AfterPromotion, At, GoFail, Go,
     Operations
<1>7. CASE SwitchedBack \/ UndoStart \/ UndoReady \/ TeardownStop \/ TeardownPointer
  BY <1>0, <1>a, <1>7 DEF SwitchedBack, UndoStart, UndoReady, TeardownStop, TeardownPointer, Go,
     GoStuck, Operations
<1>8. CASE PutFailed \/ RemoveFailed \/ Fail
  BY <1>0, <1>a, <1>8 DEF PutFailed, RemoveFailed, Fail, Go, Operations
<1> QED BY <1>1, <1>2, <1>3, <1>4, <1>5, <1>6, <1>7, <1>8 DEF Call, Forward, Promotion, Back

\* What Apply answered, and whether the entry agrees, says where the traffic goes.
LEMMA ReturnsFit ==
  ASSUME SlotsTypeOK, OpFits, CallFits, EntryFits, Switched \/ SwitchedBack
  PROVE  EntryFits'
<1>0. op \in Operations /\ OldRoute' = OldRoute /\ NewRoute' = NewRoute
  BY CallsKeepOp, RoutesStay DEF SlotsTypeOK, Call, Forward, Back
<1>a. UNCHANGED <<file, loaded>>
  BY DEF Switched, SwitchedBack
<1>b. op.step \in {"switching", "undoSwitching"} => op.outcome = "none"
  BY DEF OpFits, Marks, Idle
<1>1. CASE Switched
  <2>1. op.step = "switching" /\ call.step = "returned" /\ ~op.switched /\ ~op.stuck
    BY <1>1 DEF Switched, Returned, At, OpFits, Marks
  <2>2. CASE op' = [op EXCEPT !.step = "observe", !.switched = TRUE, !.agreed = Known]
             /\ call.result = "ok"
    <3>1. op'.step = "observe"
      BY <1>0, <2>2 DEF Operations
    <3>2. file = NewRoute /\ loaded = NewRoute
      BY <2>1, <2>2 DEF CallFits
    <3> QED BY <1>0, <1>a, <3>1, <3>2 DEF EntryFits, BeforeSwitch, TakenBack
  <2>3. CASE op' = Undo([op EXCEPT !.agreed = Known,
                                   !.reload = call.result = "NGINX_RELOAD_FAILED"])
             /\ call.result # "ok"
    <3>1. /\ op'.step \in {"teardownStop", "slotFailed"} /\ op'.outcome = "none"
          /\ op'.agreed = Known
      BY <1>0, <1>b, <2>1, <2>3 DEF Undo, Operations
    <3>2. Known => file = OldRoute /\ loaded = OldRoute
      BY <2>1, <2>3 DEF CallFits, Known
    <3> QED BY <1>0, <1>a, <3>1, <3>2 DEF EntryFits, Promoted, BeforeSwitch
  <2> QED BY <1>1, <2>2, <2>3 DEF Switched
<1>2. CASE SwitchedBack
  <2>1. op.step = "undoSwitching" /\ call.step = "returned"
    BY <1>2 DEF SwitchedBack, Returned, At
  <2>2. CASE op' = [op EXCEPT !.step = "undoStart", !.agreed = Known] /\ call.result = "ok"
    <3>1. op'.step = "undoStart" /\ op'.outcome = "none"
      BY <1>0, <1>b, <2>1, <2>2 DEF Operations
    <3>2. file = OldRoute /\ loaded = OldRoute
      BY <2>1, <2>2 DEF CallFits
    <3> QED BY <1>0, <1>a, <3>1, <3>2 DEF EntryFits, Promoted, BeforeSwitch, TakenBack
  <2>3. CASE op' = [op EXCEPT !.step = "slotFailed", !.stuck = TRUE, !.agreed = Known]
    <3>1. op'.step = "slotFailed" /\ op'.stuck /\ op'.outcome = "none"
      BY <1>0, <1>b, <2>1, <2>3 DEF Operations
    <3> QED BY <3>1 DEF EntryFits, Promoted, BeforeSwitch
  <2> QED BY <1>2, <2>2, <2>3 DEF SwitchedBack
<1> QED BY <1>1, <1>2

\* Between the calls of Apply nothing an operation does moves the traffic.
LEMMA CallsKeepEntry ==
  ASSUME SlotsTypeOK, OpFits, CallFits, EntryFits, Call
  PROVE  EntryFits'
<1>0. op \in Operations /\ OldRoute' = OldRoute /\ NewRoute' = NewRoute
  BY CallsKeepOp, RoutesStay DEF SlotsTypeOK
<1>a. op.step \notin Idle /\ op.outcome = "none"
  BY CallsCount DEF OpFits, Marks
<1>b. ASSUME op' = Undo(op), UNCHANGED entry, op.step \in BeforeSwitch \union Promoted
      PROVE  EntryFits'
  <2>1. /\ op'.outcome = "none" /\ op'.agreed = op.agreed
        /\ op'.step = "undoSwitch" => op.switched
        /\ op'.step = "teardownStop" => ~op.switched \/ op.prev = None
        /\ op'.step = "slotFailed" => ~op.switched
        /\ op'.step \in {"undoSwitch", "teardownStop", "slotFailed"}
    BY <1>0, <1>a, <1>b DEF Undo, Operations
  <2>2. op.step \in Promoted => ~op.agreed \/ op'.step = "undoSwitch"
    BY <2>1, ReleaseRowsAssumption DEF OpFits, Marks
  <2>3. op.step \in BeforeSwitch => op'.step # "undoSwitch"
    BY <2>1 DEF OpFits, Marks
  <2>4. UNCHANGED <<file, loaded>>
    BY <1>b DEF entry
  <2>5. CASE op.step \in BeforeSwitch
    BY <1>0, <2>1, <2>3, <2>4, <2>5 DEF EntryFits, Promoted, BeforeSwitch
  <2>6. CASE op.step \in Promoted
    BY <1>0, <2>1, <2>2, <2>4, <2>6 DEF EntryFits, Promoted, BeforeSwitch, TakenBack
  <2> QED BY <1>b, <2>5, <2>6
<1> USE <1>0, <1>a DEF Operations, At, GoFail, Go, GoStuck, EntryFits, entry, Promoted, BeforeSwitch, TakenBack
<1>1. CASE PrepareSlot
  BY <1>1, <1>b DEF PrepareSlot
<1>2. CASE Materialize
  BY <1>2, <1>b DEF Materialize
<1>3. CASE ActivateSlot
  BY <1>3, <1>b DEF ActivateSlot
<1>4. CASE StartSlot
  BY <1>4, <1>b DEF StartSlot
<1>5. CASE WaitForReady
  BY <1>5, <1>b DEF WaitForReady
<1>6. CASE Switch
  BY <1>6 DEF Switch, CallApply
<1>7. CASE ApplyStep
  BY <1>7 DEF ApplyStep
<1>8. CASE Switched
  BY <1>8, ReturnsFit
<1>9. CASE ObserveSlot
  BY <1>9, <1>b DEF ObserveSlot
<1>10. CASE Record
  BY <1>10, <1>b DEF Record
<1>11. CASE SetServingSlot
  BY <1>11, <1>b DEF SetServingSlot
<1>12. CASE PutServing
  BY <1>12, <1>b DEF PutServing
<1>13. CASE PutDraining
  BY <1>13, <1>b DEF PutDraining, AfterPromotion
<1>14. CASE DrainAndStop
  BY <1>14 DEF DrainAndStop
<1>15. CASE PutStopped
  BY <1>15 DEF PutStopped
<1>16. CASE PruneDirectory
  BY <1>16 DEF PruneDirectory
<1>17. CASE PruneRow
  BY <1>17 DEF PruneRow
<1>18. CASE Succeed
  BY <1>18 DEF Succeed
<1>19. CASE UndoSwitch
  BY <1>19 DEF UndoSwitch, CallApply
<1>20. CASE SwitchedBack
  BY <1>20, ReturnsFit
<1>21. CASE UndoStart
  BY <1>21 DEF UndoStart
<1>22. CASE UndoReady
  BY <1>22 DEF UndoReady
<1>23. CASE TeardownStop
  <2>1. ~op.stuck
    BY <1>23 DEF TeardownStop, OpFits, Marks
  <2> QED BY <1>23, <2>1 DEF TeardownStop
<1>24. CASE TeardownPointer
  BY <1>24 DEF TeardownPointer
<1>25. CASE PutFailed
  BY <1>25 DEF PutFailed
<1>26. CASE RemoveFailed
  BY <1>26 DEF RemoveFailed
<1>27. CASE Fail
  BY <1>27 DEF Fail, Verdict
<1> QED BY <1>1, <1>2, <1>3, <1>4, <1>5, <1>6, <1>7, <1>8, <1>9, <1>10, <1>11, <1>12, <1>13, <1>14, <1>15, <1>16, <1>17, <1>18, <1>19, <1>20, <1>21, <1>22, <1>23, <1>24, <1>25, <1>26, <1>27 DEF Call, Forward, Promotion, Back

\* Traffic that goes where it went, to the process it went to.
LEMMA ServedAsBefore ==
  ASSUME SlotsTypeOK, OpFits, op.agreed, loaded = OldRoute, proc[op.serving] = op.before
  PROVE  Served = op.before
<1>1. op.serving \in Slot /\ op.before # Stopped /\ PortsOf(op.before.conf) = PortsOf(op.prev)
  BY DEF OpFits, Marks
<1>2. OldRoute \in Routes /\ OldRoute.slot = op.serving /\ OldRoute.ports = PortsOf(op.prev)
  BY <1>1 DEF OldRoute, RouteTo, Routes, PortsOf, Ports
<1>3. loaded # None
  BY <1>2, NoneAssumption
<1> QED BY <1>1, <1>2, <1>3 DEF Served

\* The slots: which processes the calls of an operation touch, and when.
LEMMA CallsKeepProcesses ==
  ASSUME SlotsTypeOK, OpFits, CallFits, EntryFits, SlotsFit, Call
  PROVE  SlotsFit'
<1>0. /\ op \in Operations /\ SameOperation(op, op') /\ op.target \in Slot
      /\ proc \in [Slot -> Processes] /\ unit \in [Slot -> Releases \union {None}]
      /\ pointer \in [Slot -> Releases \union {None}]
  BY CallsKeepOp DEF SlotsTypeOK, Operations
<1>a. /\ op.step \notin Idle /\ op.outcome = "none" /\ op.target # op.serving
      /\ op.agreed => op.serving \in Slot /\ op.before # Stopped
  BY CallsCount DEF OpFits, Marks
<1>b. ASSUME op' = Undo(op), op.step \in BeforeSwitch \union Promoted
      PROVE  /\ op'.outcome = "none" /\ op'.agreed = op.agreed
             /\ op'.step \in {"undoSwitch", "teardownStop", "slotFailed"}
             /\ op'.step = "undoSwitch" => op.step \in Promoted
             /\ op'.step # "undoSwitch" => op.step \in BeforeSwitch \/ ~op.agreed
  <2>1. /\ op'.outcome = "none" /\ op'.agreed = op.agreed
        /\ op'.step = "undoSwitch" => op.switched
        /\ op'.step = "teardownStop" => ~op.switched \/ op.prev = None
        /\ op'.step = "slotFailed" => ~op.switched
        /\ op'.step \in {"undoSwitch", "teardownStop", "slotFailed"}
    BY <1>0, <1>a, <1>b DEF Undo, Operations
  <2> QED BY <1>b, <2>1, ReleaseRowsAssumption DEF OpFits, Marks
<1>c. ASSUME op' = Undo(op), op.step \in (BeforeSwitch \union Promoted) \ {"stopped", "prune", "pruned"},
             \A s \in Slot \ {op.target} : proc'[s] = proc[s],
             op.step \in Promoted => proc' = proc
      PROVE  SlotsFit'
  <2>1. op.agreed => proc'[op.serving] = op.before
    BY <1>a, <1>c DEF SlotsFit, Idle, BeforeSwitch, Promoted
  <2>2. op.step \in Promoted => Ready(op.rel, op.target)'
    BY <1>0, <1>c DEF SlotsFit, Ready, SameOperation
  <2> QED BY <1>0, <1>b, <1>c, <2>1, <2>2 DEF SlotsFit, SameOperation, Promoted, Restoring, Idle
<1> USE <1>0, <1>a DEF At, GoFail, Go, GoStuck, Promoted, BeforeSwitch, Restoring, Idle, units, disk,
        SameOperation
<1>1. CASE PrepareSlot
  BY <1>1, <1>c DEF PrepareSlot, SlotsFit, Operations, Ready
<1>2. CASE Materialize
  BY <1>2, <1>c DEF Materialize, SlotsFit, Operations, Ready
<1>3. CASE ActivateSlot
  BY <1>3, <1>c DEF ActivateSlot, SlotsFit, Operations, Ready
<1>4. CASE StartSlot
  <2>1. op.step = "start" /\ \A s \in Slot \ {op.target} : proc'[s] = proc[s]
    BY <1>4 DEF StartSlot, StartedIn
  <2>2. CASE op' = [op EXCEPT !.step = "ready", !.started = TRUE] /\ proc' = StartedIn(op.target)
    <3>1. op.vacant => proc'[op.target] = ProcessOf(op.rel)
      BY <2>1, <2>2 DEF StartedIn, SlotsFit, ProcessOf, Stopped
    <3>2. op.agreed => proc'[op.serving] = op.before
      BY <2>1 DEF SlotsFit
    <3>3. op'.step = "ready" /\ op'.outcome = "none" /\ op'.agreed = op.agreed
      BY <2>2 DEF Operations
    <3> QED BY <3>1, <3>2, <3>3 DEF SlotsFit
  <2>3. CASE op' = Undo(op)
    BY <1>c, <2>1, <2>3
  <2> QED BY <1>4, <2>2, <2>3 DEF StartSlot
<1>5. CASE WaitForReady
  BY <1>5, <1>c DEF WaitForReady, SlotsFit, Operations, Ready
<1>6. CASE Switch
  BY <1>6 DEF Switch, CallApply, SlotsFit, Operations, Ready
<1>7. CASE ApplyStep
  BY <1>7 DEF ApplyStep, SlotsFit, Operations, Ready
<1>8. CASE Switched
  <2>1. op.step = "switching" /\ proc' = proc /\ UNCHANGED <<unit, pointer>>
    BY <1>8 DEF Switched, Returned
  <2>2. op.agreed => proc[op.serving] = op.before
    BY <2>1 DEF SlotsFit
  <2>3. CASE op' = [op EXCEPT !.step = "observe", !.switched = TRUE, !.agreed = Known]
    <3>1. op'.step = "observe" /\ op'.outcome = "none" /\ (op'.agreed => op.agreed)
      BY <2>3 DEF Operations, Known
    <3> QED BY <2>1, <2>2, <3>1 DEF SlotsFit, Ready
  <2>4. CASE op' = Undo([op EXCEPT !.agreed = Known,
                                   !.reload = call.result = "NGINX_RELOAD_FAILED"])
    <3>1. ~op.switched
      BY <2>1 DEF OpFits, Marks
    <3>2. /\ op'.step \in {"teardownStop", "slotFailed"} /\ op'.outcome = "none"
          /\ op'.agreed => op.agreed
      BY <2>4, <3>1 DEF Undo, Operations, Known
    <3> QED BY <2>1, <2>2, <3>2 DEF SlotsFit
  <2> QED BY <1>8, <2>3, <2>4 DEF Switched
<1>9. CASE ObserveSlot
  BY <1>9, <1>c DEF ObserveSlot, SlotsFit, Operations, Ready
<1>10. CASE Record
  BY <1>10, <1>c DEF Record, SlotsFit, Operations, Ready
<1>11. CASE SetServingSlot
  BY <1>11, <1>c DEF SetServingSlot, SlotsFit, Operations, Ready
<1>12. CASE PutServing
  BY <1>12, <1>c DEF PutServing, SlotsFit, Operations, Ready
<1>13. CASE PutDraining
  BY <1>13, <1>c DEF PutDraining, AfterPromotion, SlotsFit, Operations, Ready
<1>14. CASE DrainAndStop
  BY <1>14 DEF DrainAndStop, SlotsFit, Operations, Ready
<1>15. CASE PutStopped
  BY <1>15 DEF PutStopped, SlotsFit, Operations, Ready
<1>16. CASE PruneDirectory
  BY <1>16 DEF PruneDirectory, SlotsFit, Operations, Ready
<1>17. CASE PruneRow
  BY <1>17 DEF PruneRow, SlotsFit, Operations, Ready
<1>18. CASE Succeed
  BY <1>18 DEF Succeed, SlotsFit, Operations, Ready
<1>19. CASE UndoSwitch
  <2>1. op.step = "undoSwitch" /\ proc' = proc /\ op'.step \in {"undoSwitching", "slotFailed"}
        /\ op'.agreed = op.agreed /\ op'.outcome = "none"
    BY <1>19 DEF UndoSwitch, CallApply, Operations
  <2> QED BY <2>1 DEF SlotsFit, Ready
<1>20. CASE SwitchedBack
  <2>1. op.step = "undoSwitching" /\ proc' = proc
    BY <1>20 DEF SwitchedBack, Returned
  <2>2. /\ op'.step \in {"undoStart", "slotFailed"} /\ op'.outcome = "none"
        /\ op'.agreed => op.agreed
    BY <1>20 DEF SwitchedBack, Operations, Known
  <2> QED BY <2>1, <2>2 DEF SlotsFit, Ready
<1>21. CASE UndoStart
  <2>1. op.step = "undoStart" /\ op'.step \in {"undoReady", "slotFailed"} /\ op'.outcome = "none"
        /\ op'.agreed = op.agreed
    BY <1>21 DEF UndoStart, Operations
  <2>2. proc' = proc \/ proc' = StartedIn(op.serving)
    BY <1>21 DEF UndoStart
  <2>3. proc'[op.target] = proc[op.target]
    BY <2>2 DEF StartedIn
  <2>4. op.agreed => proc'[op.serving] = op.before
    BY <2>1, <2>2 DEF StartedIn, SlotsFit
  <2> QED BY <2>1, <2>3, <2>4 DEF SlotsFit, Ready
<1>22. CASE UndoReady
  BY <1>22 DEF UndoReady, SlotsFit, Operations, Ready
<1>23. CASE TeardownStop
  <2>1. op.step = "teardownStop" /\ op'.step = "teardownPointer" /\ op'.outcome = "none"
        /\ op'.agreed = op.agreed
    BY <1>23 DEF TeardownStop, Operations
  <2>2. proc' = proc \/ proc' = [proc EXCEPT ![op.target] = Stopped]
    BY <1>23 DEF TeardownStop
  <2>3. op.agreed => proc'[op.serving] = op.before
    BY <2>1, <2>2 DEF SlotsFit
  <2> QED BY <2>1, <2>3 DEF SlotsFit
<1>24. CASE TeardownPointer
  BY <1>24 DEF TeardownPointer, SlotsFit, Operations, Ready
<1>25. CASE PutFailed
  BY <1>25 DEF PutFailed, SlotsFit, Operations, Ready
<1>26. CASE RemoveFailed
  BY <1>26 DEF RemoveFailed, SlotsFit, Operations, Ready
<1>27. CASE Fail
  <2>1. op.step = "fail" /\ UNCHANGED <<proc, loaded>> /\ op'.step = "ended"
        /\ op'.agreed = op.agreed /\ op'.outcome = Verdict
    BY <1>27 DEF Fail, Operations, entry
  <2>2. op'.outcome \in {"rolledBack", "untouched"} => ~op.stuck
    BY <2>1 DEF Verdict
  <2>3. op.agreed /\ ~op.stuck => loaded = OldRoute
    BY <2>1 DEF EntryFits, TakenBack
  <2>4. op.agreed => proc[op.serving] = op.before
    BY <2>1 DEF SlotsFit
  <2>5. op.agreed /\ ~op.stuck => Served = op.before
    BY <2>3, <2>4, ServedAsBefore
  <2>6. Served' = Served
    BY <2>1 DEF Served
  <2>7. op'.outcome # "succeeded"
    BY <2>1 DEF Verdict
  <2> QED BY <2>1, <2>2, <2>5, <2>6, <2>7 DEF SlotsFit
<1> QED BY <1>1, <1>2, <1>3, <1>4, <1>5, <1>6, <1>7, <1>8, <1>9, <1>10, <1>11, <1>12, <1>13, <1>14, <1>15, <1>16, <1>17, <1>18, <1>19, <1>20, <1>21, <1>22, <1>23, <1>24, <1>25, <1>26, <1>27 DEF Call, Forward, Promotion, Back

-----------------------------------------------------------------------------
(* What happens around an operation *)

LEMMA RequestsKeepTraffic ==
  ASSUME TrafficIInv,
         (\E r \in Releases : PrepareDeploy(r) \/ PrepareRollback(r)) \/ Retry \/ Cancel
  PROVE  TrafficIInv'
<1>1. UNCHANGED <<op, disk, units, mirror, entry>>
  BY DEF PrepareDeploy, PrepareRollback, Retry, Cancel, Ask
<1>2. wanted' \subseteq [kind : {"deploy", "rollback"}, rel : Releases]
  <2> USE DEF TrafficIInv, SlotsTypeOK
  <2>1. CASE \E r \in Releases : PrepareDeploy(r) \/ PrepareRollback(r)
    BY <2>1 DEF PrepareDeploy, PrepareRollback, Ask
  <2>2. CASE Retry
    BY <2>2 DEF Retry, Ask, Operations, OpFits, Marks
  <2>3. CASE Cancel
    BY <2>3 DEF Cancel
  <2> QED BY <2>1, <2>2, <2>3
<1>3. cancelled' \in BOOLEAN /\ {requests, failures, cancels, crashes, foreign}' \subseteq Nat
  <2> USE DEF TrafficIInv, SlotsTypeOK
  <2>1. CASE \E r \in Releases : PrepareDeploy(r) \/ PrepareRollback(r)
    BY <2>1 DEF PrepareDeploy, PrepareRollback, Ask
  <2>2. CASE Retry
    BY <2>2 DEF Retry, Ask
  <2>3. CASE Cancel
    BY <2>3 DEF Cancel
  <2> QED BY <2>1, <2>2, <2>3
<1>4. SlotsTypeOK'
  BY <1>1, <1>2, <1>3 DEF TrafficIInv, SlotsTypeOK, NginxTypeOK, disk, units, mirror, entry
<1>5. OpFits' /\ CallFits' /\ EntryFits' /\ SlotsFit'
  BY <1>1 DEF TrafficIInv, OpFits, CallFits, EntryFits, SlotsFit, OldRoute, NewRoute, Ready, Served,
     disk, units, mirror, entry
<1> QED BY <1>4, <1>5 DEF TrafficIInv

\* Another application's reload moves the traffic only where the entry no longer
\* agrees.
LEMMA ReloadKeepsTraffic ==
  ASSUME TrafficIInv, OthersReload
  PROVE  TrafficIInv'
<1>1. /\ op \in Operations /\ SameOperation(op, op') /\ op' = [op EXCEPT !.agreed = @ /\ file = loaded]
      /\ loaded' = file
      /\ UNCHANGED <<file, call, dirs, pointer, unit, proc, column, slotRow, wanted, cancelled,
                     requests, failures, cancels, crashes>>
  BY MovesWithAgreement DEF OthersReload, ForeignReload, TrafficIInv, SlotsTypeOK, Steps, disk, units, mirror,
     Operations
<1>2. /\ op'.step = op.step /\ op'.switched = op.switched /\ op'.stuck = op.stuck
      /\ op'.outcome = op.outcome
      /\ op'.agreed => op.agreed /\ loaded' = loaded
  BY <1>1 DEF Operations
<1>3. OldRoute' = OldRoute /\ NewRoute' = NewRoute
  BY <1>1, RoutesStay
<1>4. SlotsTypeOK'
  <2>1. foreign' \in Nat
    BY DEF OthersReload, TrafficIInv, SlotsTypeOK
  <2> QED BY <1>1, <2>1 DEF TrafficIInv, SlotsTypeOK, NginxTypeOK, SameOperation
<1>5. OpFits'
  BY <1>1, <1>2 DEF TrafficIInv, OpFits, Marks, SameOperation
<1>6. CallFits'
  BY <1>1, <1>2, <1>3 DEF TrafficIInv, CallFits
<1>7. EntryFits'
  BY <1>1, <1>2, <1>3 DEF TrafficIInv, EntryFits
<1>8. SlotsFit'
  <2>1. op'.agreed => Served' = Served
    BY <1>1, <1>2 DEF Served
  <2> QED BY <1>1, <1>2, <2>1 DEF TrafficIInv, SlotsFit, SameOperation, Ready
<1> QED BY <1>4, <1>5, <1>6, <1>7, <1>8 DEF TrafficIInv

\* The daemon's death ends an operation where it is; nothing claims a result.
LEMMA CrashKeepsTraffic ==
  ASSUME TrafficIInv, Crash
  PROVE  TrafficIInv'
<1>1. /\ op \in Operations /\ op.step # "reconcile"
      /\ op' = [op EXCEPT !.step = "reconcile",
                          !.outcome = IF op.step = "ended" THEN @ ELSE "crashed"]
      /\ call' = [call EXCEPT !.step = "idle"]
      /\ UNCHANGED <<file, loaded, dirs, pointer, unit, proc, column, slotRow, wanted, cancelled,
                     requests, failures, cancels, foreign>>
  BY DEF Crash, TrafficIInv, SlotsTypeOK, disk, units, mirror
<1>2. /\ op' \in Operations /\ op'.step = "reconcile" /\ op'.agreed = op.agreed
      /\ op'.rel = op.rel /\ op'.prev = op.prev /\ op'.serving = op.serving
      /\ op'.target = op.target /\ op'.before = op.before /\ op'.vacant = op.vacant
      /\ op'.outcome = IF op.step = "ended" THEN op.outcome ELSE "crashed"
  <2>1. "reconcile" \in Steps /\ "crashed" \in Outcomes
    BY DEF Steps, Outcomes
  <2> QED BY <1>1, <2>1 DEF Operations
<1>3. SlotsTypeOK'
  <2>1. crashes' \in Nat
    BY DEF Crash, TrafficIInv, SlotsTypeOK
  <2>2. NginxTypeOK'
    BY <1>1 DEF TrafficIInv, SlotsTypeOK, NginxTypeOK, CallSteps
  <2> QED BY <1>1, <1>2, <2>1, <2>2 DEF TrafficIInv, SlotsTypeOK
<1>4. OpFits'
  BY <1>1, <1>2 DEF TrafficIInv, OpFits, Marks, Idle, BeforeSwitch, Promoted, Restoring
<1>5. CallFits' /\ EntryFits'
  BY <1>1, <1>2 DEF TrafficIInv, CallFits, EntryFits, OldRoute, NewRoute, BeforeSwitch, Promoted,
     TakenBack
<1>6. SlotsFit'
  <2>1. Served' = Served
    BY <1>1 DEF Served
  <2> QED BY <1>1, <1>2, <2>1 DEF TrafficIInv, SlotsFit, Idle, Promoted, Restoring
<1> QED BY <1>3, <1>4, <1>5, <1>6 DEF TrafficIInv

\* The reconciliation writes the column and the rows only.
LEMMA ReconcileKeepsTraffic ==
  ASSUME TrafficIInv, Reconcile
  PROVE  TrafficIInv'
<1>1. /\ op \in Operations /\ op.step = "reconcile" /\ op' = [op EXCEPT !.step = "ended"]
      /\ UNCHANGED <<entry, disk, units, wanted, cancelled, requests, cancels, crashes, foreign>>
      /\ failures' \in Nat
  BY DEF Reconcile, Go, TrafficIInv, SlotsTypeOK
<1>2. /\ op' \in Operations /\ op'.step = "ended" /\ op'.agreed = op.agreed
      /\ op'.rel = op.rel /\ op'.prev = op.prev /\ op'.serving = op.serving
      /\ op'.target = op.target /\ op'.before = op.before /\ op'.vacant = op.vacant
      /\ op'.outcome = op.outcome
  <2>1. "ended" \in Steps
    BY DEF Steps
  <2> QED BY <1>1, <2>1 DEF Operations
<1>3. /\ column' \in Slot \union {None}
      /\ slotRow' \in [Slot -> [rel : Releases \union {None}, state : SlotStates]]
  <2>0. /\ column \in Slot \union {None}
        /\ slotRow \in [Slot -> [rel : Releases \union {None}, state : SlotStates]]
    BY DEF TrafficIInv, SlotsTypeOK
  <2>1. CurrentSlot \in Slot \union {None}
    BY DEF CurrentSlot, TrafficIInv, SlotsTypeOK, NginxTypeOK, Routes
  <2>2. \A s \in Slot : Reconciled(s) \in [rel : Releases \union {None}, state : SlotStates]
    BY <2>0 DEF Reconciled, ExpectedState, SlotStates
  <2> QED BY <2>0, <2>1, <2>2 DEF Reconcile, mirror
<1>4. SlotsTypeOK'
  BY <1>1, <1>2, <1>3 DEF TrafficIInv, SlotsTypeOK, NginxTypeOK, entry, disk, units
<1>5. OpFits'
  BY <1>1, <1>2 DEF TrafficIInv, OpFits, Marks, Idle, BeforeSwitch, Promoted, Restoring
<1>6. CallFits' /\ EntryFits'
  BY <1>1, <1>2 DEF TrafficIInv, CallFits, EntryFits, OldRoute, NewRoute, BeforeSwitch, Promoted,
     TakenBack, entry
<1>7. SlotsFit'
  <2>1. Served' = Served
    BY <1>1 DEF Served, entry, units
  <2> QED BY <1>1, <1>2, <2>1 DEF TrafficIInv, SlotsFit, Idle, Promoted, Restoring, units, disk
<1> QED BY <1>4, <1>5, <1>6, <1>7 DEF TrafficIInv

\* The operation begins: what it finds is what it holds itself to.
LEMMA BeginKeepsTraffic ==
  ASSUME TrafficIInv, RowsFullIInv, NEW q \in wanted, ApplySlotBegin(q)
  PROVE  TrafficIInv'
<1>1. /\ q.kind \in {"deploy", "rollback"} /\ q.rel \in Releases
      /\ column \in Slot \union {None} /\ proc \in [Slot -> Processes]
      /\ loaded \in Routes \union {None}
  BY DEF TrafficIInv, SlotsTypeOK, NginxTypeOK
<1>2. UNCHANGED <<dirs, pointer, unit, proc, column, slotRow, file, loaded, call, requests, cancels,
                  crashes, foreign>> /\ cancelled' = FALSE /\ wanted' \subseteq wanted
  BY DEF ApplySlotBegin, disk, units, mirror, entry
<1>3. nextSlot(column) \in Slot /\ nextSlot(column) # column
  <2>1. CASE column \in Slot
    BY <2>1 DEF nextSlot, Opposite, Slot
  <2>2. CASE column \notin Slot
    BY <1>1, <2>2 DEF nextSlot, Slot
  <2> QED BY <2>1, <2>2
<1>4. Active \in Releases \union {None}
  BY ActiveIsActive
<1>5. Served \in Processes
  <2>1. Stopped \in Processes
    BY DEF Stopped, Processes
  <2> QED BY <1>1, <2>1 DEF Served, Routes
<1>6. /\ InAgreement \in BOOLEAN /\ (proc[nextSlot(column)] = Stopped) \in BOOLEAN
      /\ {"prepare", "ended"} \subseteq Steps /\ {"none", "refused"} \subseteq Outcomes
  BY DEF InAgreement, Steps, Outcomes
<1>7. Begun(q) \in Operations
  BY <1>1, <1>3, <1>4, <1>5, <1>6 DEF Begun, Operations
<1>8. /\ op' \in Operations /\ op'.rel = q.rel /\ op'.prev = Active /\ op'.serving = column
      /\ op'.target = nextSlot(column) /\ op'.before = Served /\ op'.agreed = InAgreement
      /\ op'.vacant = (proc[nextSlot(column)] = Stopped) /\ ~op'.switched /\ ~op'.stuck
      /\ \/ op'.step = "prepare" /\ op'.outcome = "none"
         \/ op'.step = "ended" /\ op'.outcome = "refused"
  <2>1. CASE op' = Begun(q)
    BY <1>7, <2>1 DEF Begun
  <2>2. CASE op' = [Begun(q) EXCEPT !.step = "ended", !.outcome = "refused"]
    <3>1. op' \in Operations
      BY <1>6, <1>7, <2>2 DEF Operations
    <3> QED BY <3>1, <2>2 DEF Begun
  <2> QED BY <2>1, <2>2 DEF ApplySlotBegin
<1>9. InAgreement =>
        /\ column \in Slot /\ Active \in Releases /\ Served # Stopped /\ Served = proc[column]
        /\ PortsOf(Served.conf) = PortsOf(Active)
        /\ file = RouteTo(Active, column) /\ loaded = RouteTo(Active, column)
  BY <1>1, <1>4 DEF InAgreement, Served, RouteTo, Routes
<1>10. SlotsTypeOK'
  <2>1. failures' \in Nat
    BY DEF ApplySlotBegin, TrafficIInv, SlotsTypeOK
  <2> QED BY <1>2, <1>8, <2>1 DEF TrafficIInv, SlotsTypeOK, NginxTypeOK
<1>11. OpFits'
  BY <1>1, <1>3, <1>4, <1>8, <1>9 DEF OpFits, Marks, Idle, BeforeSwitch, Promoted, Restoring
<1>12. CallFits'
  BY <1>8 DEF CallFits
<1>13. EntryFits'
  BY <1>2, <1>8, <1>9 DEF EntryFits, OldRoute, Promoted, TakenBack, BeforeSwitch
<1>14. SlotsFit'
  BY <1>2, <1>8, <1>9 DEF SlotsFit, Promoted, Restoring, Idle
<1> QED BY <1>10, <1>11, <1>12, <1>13, <1>14 DEF TrafficIInv

LEMMA TrafficStart == Init => TrafficIInv
<1> SUFFICES ASSUME Init PROVE TrafficIInv
  OBVIOUS
<1>0. op = [kind |-> "deploy", rel |-> None, prev |-> None, serving |-> None, target |-> "blue",
            step |-> "ended", started |-> FALSE, switched |-> FALSE, undone |-> FALSE,
            stuck |-> FALSE, reload |-> FALSE, todo |-> {}, outcome |-> "none",
            before |-> Stopped, agreed |-> FALSE, vacant |-> FALSE]
  BY DEF Init
<1>1. /\ op \in Operations /\ op.step = "ended" /\ op.outcome = "none" /\ ~op.agreed /\ ~op.vacant
      /\ ~op.switched /\ ~op.stuck /\ op.target = "blue" /\ op.serving = None
  BY <1>0 DEF Operations, Steps, Outcomes, Processes, Stopped, Slot
<1>2. SlotsTypeOK
  <2>1. proc \in [Slot -> Processes] /\ cancelled \in BOOLEAN
    BY DEF Init, Processes, Stopped
  <2>3. slotRow \in [Slot -> [rel : Releases \union {None}, state : SlotStates]]
    BY DEF Init, SlotStates
  <2>4. {requests, failures, cancels, crashes, foreign} \subseteq Nat
    BY DEF Init
  <2>2. NginxTypeOK
    BY DEF Init, NginxInit, NginxTypeOK, CallSteps, Results
  <2> QED BY <1>1, <2>1, <2>2, <2>3, <2>4 DEF Init, SlotsTypeOK
<1>3. OpFits
  BY <1>1, NoneAssumption DEF OpFits, Marks, Idle, BeforeSwitch, Promoted, Restoring, Slot
<1>4. CallFits /\ EntryFits /\ SlotsFit
  BY <1>1 DEF CallFits, EntryFits, SlotsFit, BeforeSwitch, Promoted, Restoring, TakenBack, Idle
<1> QED BY <1>2, <1>3, <1>4 DEF TrafficIInv

\* The inductive invariant of the traffic: at each place of an operation the entry,
\* the processes and the call of Apply are what its steps so far make them.
THEOREM TrafficInvariant == Spec => [](RowsFullIInv /\ TrafficIInv)
<1>1. Spec => []RowsFullIInv
  BY SlotsImplementRows, RowsInvariant, PTL
<1>2. RowsFullIInv /\ TrafficIInv /\ [Next]_vars => TrafficIInv'
  <2>1. ASSUME TrafficIInv, Call PROVE TrafficIInv'
    BY <2>1, CallsKeepTypes, CallsKeepMarks, CallsKeepCall, CallsKeepEntry, CallsKeepProcesses
       DEF TrafficIInv
  <2>2. ASSUME RowsFullIInv, TrafficIInv, Next PROVE TrafficIInv'
    BY <2>1, <2>2, RequestsKeepTraffic, ReloadKeepsTraffic, CrashKeepsTraffic, ReconcileKeepsTraffic,
       BeginKeepsTraffic DEF Next, Call, Forward, Promotion, Back
  <2>3. ASSUME TrafficIInv, UNCHANGED vars PROVE TrafficIInv'
    BY <2>3 DEF vars, rows, disk, units, mirror, entry, bounds, TrafficIInv, SlotsTypeOK, NginxTypeOK,
       OpFits, CallFits, EntryFits, SlotsFit, OldRoute, NewRoute, Ready, Served
  <2> QED BY <2>2, <2>3
<1> QED BY <1>1, <1>2, TrafficStart, PTL DEF Spec

\* Every variable keeps its type.
THEOREM SlotsTypes == Spec => []TypeOK
<1>1. RowsFullIInv /\ TrafficIInv => TypeOK
  BY DEF RowsFullIInv, RowsIInv, ColumnsTypeOK, ActivationsTypeOK, RowsTypeOK, TrafficIInv,
     SlotsTypeOK, Processes, Operations, TypeOK
<1> QED BY <1>1, TrafficInvariant, PTL

\* An operation that answers that the traffic did not move, or was moved back, has
\* left it with the very process that served before.
THEOREM FailureIsHarmless == Spec => []FailureKeepsTraffic
<1>1. TrafficIInv => FailureKeepsTraffic
  BY DEF TrafficIInv, SlotsFit, FailureKeepsTraffic, Idle
<1> QED BY <1>1, TrafficInvariant, PTL

\* Success in a vacant slot means that the release that was asked for serves.
THEOREM SuccessIsServed == Spec => []SuccessServesRelease
<1>1. TrafficIInv => SuccessServesRelease
  <2> SUFFICES ASSUME TrafficIInv, op.step = "ended", op.outcome = "succeeded", op.vacant
               PROVE  Served = ProcessOf(op.rel)
    BY DEF SuccessServesRelease
  <2>1. op.target \in Slot /\ op.rel \in Releases
    BY DEF TrafficIInv, SlotsTypeOK, Operations, OpFits, Marks
  <2>2. proc[op.target] = ProcessOf(op.rel) /\ loaded = NewRoute
    BY DEF TrafficIInv, SlotsFit, EntryFits
  <2>3. NewRoute \in Routes /\ NewRoute.slot = op.target /\ NewRoute.ports = PortsOf(op.rel)
    BY <2>1 DEF NewRoute, RouteTo, Routes, PortsOf, Ports
  <2>4. ProcessOf(op.rel) # Stopped /\ ProcessOf(op.rel).conf = op.rel
    BY <2>1, ReleaseRowsAssumption DEF ProcessOf, Stopped
  <2> QED BY <2>2, <2>3, <2>4, NoneAssumption DEF Served
<1> QED BY <1>1, TrafficInvariant, PTL

-----------------------------------------------------------------------------
(* The switch itself *)

\* A route whose slot runs a process that listens on its port answers.
Answers(route) == proc[route.slot] # Stopped /\ PortsOf(proc[route.slot].conf) = route.ports

\* While the operation calls nginx, both routes it can be left with answer.
LEMMA BothRoutesAnswer ==
  ASSUME TrafficIInv, op.agreed, op.step \in {"switching", "undoSwitching"}
  PROVE  Answers(OldRoute) /\ Answers(NewRoute)
<1>1. proc[op.serving] = op.before /\ Ready(op.rel, op.target)
  BY DEF TrafficIInv, SlotsFit, Idle, Restoring
<1>2. op.before # Stopped /\ PortsOf(op.before.conf) = PortsOf(op.prev)
  BY DEF TrafficIInv, OpFits, Marks
<1> QED BY <1>1, <1>2 DEF Answers, OldRoute, NewRoute, RouteTo, Ready

\* A start leaves a process that runs alone.
LEMMA StartKeepsServing ==
  ASSUME SlotsTypeOK, NEW slot \in Slot, proc' \in {proc, StartedIn(slot)}, loaded' = loaded,
         Served # Stopped
  PROVE  Served' = Served
  BY DEF Served, StartedIn, SlotsTypeOK, NginxTypeOK, Routes

\* A call of an operation, forward or back.
LEMMA CallsKeepServing ==
  ASSUME TrafficIInv, TrafficIInv', Call, op.agreed, op'.agreed, Served # Stopped
  PROVE  Served' # Stopped
<1>0. /\ op.serving \in Slot /\ op.target \in Slot /\ op.target # op.serving /\ SlotsTypeOK
      /\ OldRoute \in Routes /\ NewRoute \in Routes /\ proc \in [Slot -> Processes]
  BY DEF TrafficIInv, SlotsTypeOK, Operations, OpFits, Marks, OldRoute, NewRoute, RouteTo, Routes,
     PortsOf, Ports
<1>a. ASSUME UNCHANGED <<proc, loaded>> PROVE Served' # Stopped
  BY <1>a DEF Served
<1>1. CASE StartSlot
  BY <1>0, <1>1, StartKeepsServing DEF StartSlot, entry
<1>2. CASE UndoStart
  BY <1>0, <1>2, StartKeepsServing DEF UndoStart, entry
<1>3. CASE DrainAndStop
  <2>1. loaded = NewRoute /\ loaded' = loaded
    BY <1>3 DEF DrainAndStop, At, TrafficIInv, EntryFits, Promoted, entry
  <2>2. NewRoute.slot = op.target
    BY DEF NewRoute, RouteTo
  <2> QED BY <1>0, <1>3, <2>1, <2>2 DEF DrainAndStop, Served
<1>4. CASE TeardownStop
  <2>1. op.step = "teardownStop" /\ ~op.stuck
    BY <1>4 DEF TeardownStop, At, TrafficIInv, OpFits, Marks
  <2>2. loaded = OldRoute /\ loaded' = loaded
    BY <1>4, <2>1 DEF TeardownStop, TrafficIInv, EntryFits, TakenBack, entry
  <2>3. OldRoute.slot = op.serving
    BY DEF OldRoute, RouteTo
  <2> QED BY <1>0, <1>4, <2>2, <2>3 DEF TeardownStop, Served
<1>5. CASE ApplyStep
  <2>1. op' = op /\ proc' = proc /\ op.step \in {"switching", "undoSwitching"}
    BY <1>5 DEF ApplyStep, units
  <2>2. OldRoute' = OldRoute /\ NewRoute' = NewRoute
    BY <2>1 DEF OldRoute, NewRoute
  <2>3. loaded' \in {OldRoute, NewRoute}
    BY <2>1, <2>2 DEF TrafficIInv, CallFits
  <2>4. Answers(loaded')
    BY <2>1, <2>3, BothRoutesAnswer
  <2>5. loaded' # None
    BY <1>0, <2>3, NoneAssumption
  <2> QED BY <2>1, <2>4, <2>5 DEF Answers, Served
<1>6. CASE PrepareSlot \/ Materialize \/ ActivateSlot \/ WaitForReady \/ Switch \/ Switched
           \/ ObserveSlot
  BY <1>6, <1>a DEF PrepareSlot, Materialize, ActivateSlot, WaitForReady, Switch, CallApply, Switched,
     ObserveSlot, entry, units
<1>7. CASE Record \/ SetServingSlot \/ PutServing \/ PutDraining \/ PutStopped \/ PruneDirectory
           \/ PruneRow \/ Succeed
  BY <1>7, <1>a DEF Record, SetServingSlot, PutServing, PutDraining, PutStopped, PruneDirectory,
     PruneRow, Succeed, entry, units
<1>8. CASE UndoSwitch \/ SwitchedBack \/ UndoReady \/ TeardownPointer \/ PutFailed \/ RemoveFailed
           \/ Fail
  BY <1>8, <1>a DEF UndoSwitch, CallApply, SwitchedBack, UndoReady, TeardownPointer, PutFailed,
     RemoveFailed, Fail, entry, units
<1> QED BY <1>1, <1>2, <1>3, <1>4, <1>5, <1>6, <1>7, <1>8 DEF Call, Forward, Promotion, Back

\* Blue-green, the promise of the two slots: no step of an operation, forward or
\* back, takes a served application off the air.
THEOREM NeverOffTheAir == Spec => NeverDark
<1> DEFINE KeepsServing ==
      op.step \notin {"ended", "reconcile"} /\ op.agreed /\ op'.agreed =>
        (Served # Stopped => Served' # Stopped)
<1>1. TrafficIInv /\ TrafficIInv' /\ [Next]_vars => KeepsServing
  <2> SUFFICES ASSUME TrafficIInv, TrafficIInv', [Next]_vars,
                      op.step \notin {"ended", "reconcile"}, op.agreed, op'.agreed,
                      Served # Stopped
               PROVE  Served' # Stopped
    OBVIOUS
  <2>1. CASE Call
    BY <2>1, CallsKeepServing
  <2>2. CASE OthersReload
    <3>1. loaded' = file /\ proc' = proc /\ (op'.agreed => file = loaded)
      BY <2>2 DEF OthersReload, ForeignReload, units, TrafficIInv, SlotsTypeOK, Operations
    <3> QED BY <3>1 DEF Served
  <2>3. CASE (\E r \in Releases : PrepareDeploy(r) \/ PrepareRollback(r)) \/ Retry \/ Cancel \/ Crash
    <3>1. UNCHANGED <<proc, loaded>>
      BY <2>3 DEF PrepareDeploy, PrepareRollback, Retry, Ask, Cancel, Crash, units, entry
    <3> QED BY <3>1 DEF Served
  <2>4. CASE Reconcile \/ \E q \in wanted : ApplySlotBegin(q)
    BY <2>4 DEF Reconcile, ApplySlotBegin
  <2>5. CASE UNCHANGED vars
    <3>1. UNCHANGED <<proc, loaded>>
      BY <2>5 DEF vars, units, entry
    <3> QED BY <3>1 DEF Served
  <2> QED BY <2>1, <2>2, <2>3, <2>4, <2>5 DEF Next, Call, Forward, Promotion, Back
<1>2. Spec => [][KeepsServing]_vars
  <2>1. Spec => []TrafficIInv
    BY TrafficInvariant, PTL
  <2> HIDE DEF KeepsServing
  <2> QED BY <1>1, <2>1, PTL DEF Spec
<1> QED BY <1>2, PTL DEF NeverDark

-----------------------------------------------------------------------------
(* The rows of the slots, which are written one by one *)

SaysServing(s) == slotRow[s].state = "serving"

AtMostOneServing == \A s, t \in Slot : SaysServing(s) /\ SaysServing(t) => s = t

\* At most one call of all was lost, or the daemon died once.
OneTrouble == cancels = 0 /\ failures + crashes <= 1

\* What there is to go by: when there was trouble, which release is active while
\* the promotion writes, and what it has written to the column.
PromotionFits ==
  /\ cancelled => cancels > 0
  /\ op.step = "reconcile" => crashes > 0
  /\ op.step \in {"column", "serving", "draining"} => status[op.rel] = "active"
  /\ op.step = "serving" => column = op.target

\* Two rows say serving only while the promotion is between its two writes, and,
\* when one of them was lost, until the operation has taken itself back or the
\* daemon has read what nginx runs by.
RowsFollow ==
  /\ \A s \in Slot : SaysServing(s) => column \in Slot
  /\ op.step \in BeforeSwitch \union {"switching", "observe", "record", "column", "serving"} =>
       AtMostOneServing /\ (op.serving \notin Slot => \A s \in Slot : ~SaysServing(s))
  /\ op.step \in {"drain", "stopped", "prune", "pruned", "remove", "fail", "ended"} =>
       AtMostOneServing
  /\ op.step \in Restoring \union {"teardownStop", "teardownPointer", "slotFailed"} =>
       AtMostOneServing \/ failures + crashes = 1
  /\ op.step = "reconcile" =>
       AtMostOneServing \/ (status[op.rel] = "active" /\ op.rel \in Releases /\ file = NewRoute)

SlotRowsFit == PromotionFits /\ (OneTrouble => RowsFollow)

\* Trouble is only ever added.
LEMMA CallsAddTrouble ==
  ASSUME TrafficIInv, SlotRowsFit, Call, OneTrouble'
  PROVE  /\ OneTrouble /\ RowsFollow /\ ~cancelled
         /\ Breaks => failures' + crashes' = 1
         /\ failures + crashes = 1 => failures' + crashes' = 1
<1>1. /\ cancels' = cancels /\ crashes' = crashes /\ failures' >= failures
      /\ failures \in Nat /\ crashes \in Nat /\ cancels \in Nat /\ failures' \in Nat
  BY CallsCount DEF TrafficIInv, SlotsTypeOK
<1>2. OneTrouble
  <2>1. cancels' = 0 /\ failures' + crashes' <= 1
    BY DEF OneTrouble
  <2>2. \A f, g, c \in Nat : g >= f /\ g + c <= 1 => f + c <= 1
    OBVIOUS
  <2>3. failures' + crashes <= 1
    BY <1>1, <2>1
  <2>4. cancels = 0 /\ failures + crashes <= 1
    BY <1>1, <2>1, <2>2, <2>3
  <2> QED BY <2>4 DEF OneTrouble
<1>3. ~cancelled
  BY <1>2 DEF OneTrouble, SlotRowsFit, PromotionFits
<1>4. Breaks => failures' + crashes' = 1
  BY <1>1, <1>3 DEF OneTrouble, Breaks
<1>5. ASSUME failures + crashes = 1 PROVE failures' + crashes' = 1
  <2>1. \A f, g, c \in Nat : g >= f /\ f + c = 1 /\ g + c <= 1 => g + c = 1
    OBVIOUS
  <2>2. failures' + crashes <= 1
    BY <1>1 DEF OneTrouble
  <2> QED BY <1>1, <1>5, <2>1, <2>2
<1> QED BY <1>2, <1>3, <1>4, <1>5 DEF SlotRowsFit

LEMMA CallsKeepPromotion ==
  ASSUME TrafficIInv, RowsFullIInv, SlotRowsFit, Call
  PROVE  PromotionFits'
<1>0. /\ op \in Operations /\ SameOperation(op, op') /\ op.step \notin Idle /\ op.rel \in Releases
      /\ cancelled' = cancelled /\ cancels' = cancels /\ PromotionFits
      /\ status \in [Releases -> Statuses]
  BY CallsKeepOp, CallsCount DEF TrafficIInv, SlotsTypeOK, OpFits, Marks, SlotRowsFit, RowsFullIInv,
     RowsIInv, ColumnsTypeOK
<1>a. Undo(op).step \in {"undoSwitch", "teardownStop", "slotFailed"}
  BY <1>0, UndoMoves
<1>b. ASSUME op'.step \notin {"reconcile", "column", "serving", "draining"} PROVE PromotionFits'
  BY <1>0, <1>b DEF PromotionFits
<1>c. UNCHANGED rows => status' = status
  BY DEF rows
<1>d. \A b, c \in BOOLEAN : [op EXCEPT !.agreed = b, !.reload = c] \in Operations
  BY <1>0, MovesWithAgreement DEF SameOperation, Steps
<1> USE <1>0, <1>a, <1>c DEF Operations, At, GoFail, Go, GoStuck, SameOperation
<1>1. CASE PrepareSlot \/ Materialize \/ ActivateSlot \/ StartSlot \/ WaitForReady \/ ObserveSlot
  BY <1>1, <1>b DEF PrepareSlot, Materialize, ActivateSlot, StartSlot, WaitForReady, ObserveSlot
<1>2. CASE Switch \/ UndoSwitch
  BY <1>2, <1>b DEF Switch, UndoSwitch, CallApply
<1>3. CASE ApplyStep
  <2>1. op' = op /\ op.step \in {"switching", "undoSwitching"}
    BY <1>3 DEF ApplyStep
  <2> QED BY <1>b, <2>1
<1>4. CASE Switched
  <2>1. CASE op' = [op EXCEPT !.step = "observe", !.switched = TRUE, !.agreed = Known]
    BY <1>b, <2>1
  <2>2. CASE op' = Undo([op EXCEPT !.agreed = Known,
                                   !.reload = call.result = "NGINX_RELOAD_FAILED"])
    <3> DEFINE p == [op EXCEPT !.agreed = Known, !.reload = call.result = "NGINX_RELOAD_FAILED"]
    <3>1. p \in Operations
      BY <1>d DEF Known
    <3> HIDE DEF p
    <3>2. Undo(p).step \in {"undoSwitch", "teardownStop", "slotFailed"}
      BY <3>1, UndoMoves
    <3> QED BY <1>b, <2>2, <3>2 DEF p
  <2> QED BY <1>4, <2>1, <2>2 DEF Switched
<1>5. CASE Record
  <2>1. CASE ActivateRelease(op.rel) /\ op' = [op EXCEPT !.step = "column"]
    BY <2>1 DEF PromotionFits, ActivateRelease
  <2>2. CASE op' = Undo(op)
    BY <1>b, <2>2
  <2> QED BY <1>5, <2>1, <2>2 DEF Record
<1>6. CASE SetServingSlot
  <2>1. CASE column' = op.target /\ op' = [op EXCEPT !.step = "serving"]
    BY <1>6, <2>1 DEF PromotionFits, SetServingSlot
  <2>2. CASE op' = Undo(op)
    BY <1>b, <2>2
  <2> QED BY <1>6, <2>1, <2>2 DEF SetServingSlot
<1>7. CASE PutServing
  <2>1. CASE op'.step \in {"draining", "prune"}
    BY <1>7, <2>1 DEF PromotionFits, PutServing
  <2>2. CASE op' = Undo(op)
    BY <1>b, <2>2
  <2> QED BY <1>7, <2>1, <2>2 DEF PutServing
<1>8. CASE PutDraining \/ DrainAndStop \/ PutStopped \/ PruneDirectory \/ PruneRow \/ Succeed
  BY <1>8, <1>b DEF PutDraining, AfterPromotion, DrainAndStop, PutStopped, PruneDirectory, PruneRow,
     Succeed
<1>9. CASE SwitchedBack
  <2>1. CASE op' = [op EXCEPT !.step = "undoStart", !.agreed = Known]
    BY <1>b, <2>1
  <2>2. CASE op' = [op EXCEPT !.step = "slotFailed", !.stuck = TRUE, !.agreed = Known]
    BY <1>b, <2>2
  <2> QED BY <1>9, <2>1, <2>2 DEF SwitchedBack
<1>10. CASE UndoStart \/ UndoReady \/ TeardownStop \/ TeardownPointer
  BY <1>10, <1>b DEF UndoStart, UndoReady, TeardownStop, TeardownPointer
<1>11. CASE PutFailed \/ RemoveFailed \/ Fail
  BY <1>11, <1>b DEF PutFailed, RemoveFailed, Fail
<1> QED BY <1>1, <1>2, <1>3, <1>4, <1>5, <1>6, <1>7, <1>8, <1>9, <1>10, <1>11
        DEF Call, Forward, Promotion, Back

\* The calls that write rows of the slots.
LEMMA RowWrites ==
  ASSUME TrafficIInv, RowsFullIInv, SlotRowsFit, OneTrouble',
         PutServing \/ PutDraining \/ PutStopped \/ PutFailed \/ SetServingSlot
  PROVE  RowsFollow'
<1>0. /\ op \in Operations /\ op.step \notin Idle /\ op.target \in Slot /\ op.target # op.serving
      /\ slotRow \in [Slot -> [rel : Releases \union {None}, state : SlotStates]]
      /\ SameOperation(op, op')
      /\ op.step \in {"draining", "stopped"} => op.serving \in Slot
  BY CallsKeepOp, CallsCount DEF TrafficIInv, SlotsTypeOK, OpFits, Marks, Operations, Call, Promotion,
     Back
<1>t. OneTrouble /\ RowsFollow /\ ~cancelled /\ (Breaks => failures' + crashes' = 1)
  BY CallsAddTrouble DEF Call, Promotion, Back
<1>p. PromotionFits
  BY DEF SlotRowsFit
<1>w. ASSUME NEW slot \in Slot, NEW r, NEW state, PutApplicationSlot(slot, r, state)
      PROVE  /\ \A s \in Slot \ {slot} : slotRow'[s] = slotRow[s]
             /\ slotRow'[slot].state = state
  BY <1>0, <1>w DEF PutApplicationSlot
<1>u. ASSUME op' = Undo(op), UNCHANGED mirror, failures' + crashes' = 1
      PROVE  RowsFollow'
  <2>1. op'.step \in {"undoSwitch", "teardownStop", "slotFailed"}
    BY <1>0, <1>u, UndoMoves
  <2> QED BY <1>t, <1>u, <2>1 DEF RowsFollow, Restoring, BeforeSwitch, SaysServing, mirror
<1> USE <1>0 DEF Operations, At, GoFail, Go, SameOperation, RowsFollow, Restoring, BeforeSwitch
<1>1. CASE SetServingSlot
  <2>1. CASE column' = op.target /\ op' = [op EXCEPT !.step = "serving"]
    BY <1>1, <1>t, <2>1 DEF SetServingSlot, SaysServing, AtMostOneServing
  <2>2. CASE GoFail /\ column' = column
    BY <1>1, <1>t, <1>u, <2>2 DEF SetServingSlot, mirror
  <2> QED BY <1>1, <2>1, <2>2 DEF SetServingSlot
<1>2. CASE PutServing
  <2>1. CASE /\ PutApplicationSlot(op.target, op.rel, "serving")
             /\ op'.step = IF op.serving \in Slot THEN "draining" ELSE "prune"
    <3>1. column' = op.target /\ op.step = "serving"
      BY <1>2, <1>p DEF PutServing, PromotionFits
    <3>2. op.serving \notin Slot => AtMostOneServing'
      BY <1>t, <1>w, <2>1, <3>1 DEF AtMostOneServing, SaysServing
    <3> QED BY <2>1, <3>1, <3>2
  <2>2. CASE GoFail /\ slotRow' = slotRow
    BY <1>2, <1>t, <1>u, <2>2 DEF PutServing, mirror
  <2> QED BY <1>2, <2>1, <2>2 DEF PutServing
<1>3. CASE PutDraining
  <2>1. CASE PutApplicationSlot(op.serving, op.prev, "draining") /\ op'.step \in {"drain", "prune"}
    <3>1. op.serving \in Slot /\ column' = column
      BY <1>3 DEF PutDraining
    <3>2. ~SaysServing(op.serving)'
      BY <1>w, <2>1, <3>1 DEF SaysServing
    <3>3. AtMostOneServing'
      BY <3>1, <3>2 DEF AtMostOneServing, SaysServing, Slot
    <3>4. \A s \in Slot : SaysServing(s)' => SaysServing(s)
      BY <1>w, <2>1, <3>1, <3>2 DEF SaysServing
    <3> QED BY <1>t, <2>1, <3>1, <3>3, <3>4
  <2>2. CASE GoFail /\ slotRow' = slotRow
    BY <1>3, <1>t, <1>u, <2>2 DEF PutDraining, mirror
  <2> QED BY <1>3, <2>1, <2>2 DEF PutDraining, AfterPromotion
<1>4. CASE PutStopped
  <2>1. op.serving \in Slot /\ column' = column /\ op'.step = "prune" /\ AtMostOneServing
    BY <1>4, <1>t DEF PutStopped
  <2>2. \A s \in Slot : SaysServing(s)' => SaysServing(s)
    BY <1>4, <1>w, <2>1 DEF PutStopped, SaysServing
  <2> QED BY <1>t, <2>1, <2>2 DEF AtMostOneServing
<1>5. CASE PutFailed
  <2>1. op'.step = "remove" /\ op.step = "slotFailed" /\ column' = column
    BY <1>5 DEF PutFailed
  <2>2. CASE PutApplicationSlot(op.target, op.rel, "failed")
    <3>1. ~SaysServing(op.target)'
      BY <1>w, <2>2 DEF SaysServing
    <3>2. AtMostOneServing'
      BY <3>1 DEF AtMostOneServing, SaysServing, Slot
    <3>3. \A s \in Slot : SaysServing(s)' => SaysServing(s)
      BY <1>w, <2>2, <3>1 DEF SaysServing
    <3> QED BY <1>t, <2>1, <3>2, <3>3
  <2>3. CASE Breaks /\ slotRow' = slotRow
    <3>1. failures + crashes = 0
      <4>1. failures' = failures + 1 /\ crashes' = crashes /\ failures \in Nat /\ crashes \in Nat
        BY <1>5, <1>t, <2>3 DEF Breaks, PutFailed, TrafficIInv, SlotsTypeOK
      <4> QED BY <1>t, <2>3, <4>1
    <3>2. AtMostOneServing
      BY <1>t, <2>1, <3>1
    <3> QED BY <1>t, <2>1, <2>3, <3>2 DEF AtMostOneServing, SaysServing
  <2> QED BY <1>5, <2>2, <2>3 DEF PutFailed
<1> QED BY <1>1, <1>2, <1>3, <1>4, <1>5

\* The calls that write none: a failure on the way counts as the one trouble.
LEMMA OtherCallsKeepRows ==
  ASSUME TrafficIInv, SlotRowsFit, OneTrouble', Call, UNCHANGED mirror,
         ~(SetServingSlot \/ PutServing \/ PutDraining \/ PutStopped \/ PutFailed)
  PROVE  RowsFollow'
<1>0. /\ op \in Operations /\ SameOperation(op, op') /\ op.step \notin Idle
      /\ column' = column /\ slotRow' = slotRow
  BY CallsKeepOp, CallsCount DEF TrafficIInv, SlotsTypeOK, mirror
<1>t. /\ RowsFollow /\ (Breaks => failures' + crashes' = 1)
      /\ failures + crashes = 1 => failures' + crashes' = 1
  BY CallsAddTrouble
<1>c. AtMostOneServing' = AtMostOneServing /\ \A s \in Slot : SaysServing(s)' = SaysServing(s)
  BY <1>0 DEF AtMostOneServing, SaysServing
<1> DEFINE Early == BeforeSwitch \union {"switching", "observe", "record", "column", "serving"}
           Late == {"drain", "stopped", "prune", "pruned", "remove", "fail", "ended"}
           Undoing == Restoring \union {"teardownStop", "teardownPointer", "slotFailed"}
<1>d. Early \cap Late = {} /\ Early \cap Undoing = {} /\ Late \cap Undoing = {}
      /\ "reconcile" \notin Early \union Late \union Undoing
  BY DEF BeforeSwitch, Restoring
<1>e. ASSUME op.step \in Early, op'.step \in Early PROVE RowsFollow'
  <2> HIDE DEF Early, Late, Undoing
  <2>1. op'.serving = op.serving
    BY <1>0 DEF SameOperation
  <2>2. AtMostOneServing /\ (op.serving \notin Slot => \A s \in Slot : ~SaysServing(s))
    BY <1>t, <1>e DEF RowsFollow, Early
  <2>3. \A s \in Slot : SaysServing(s)' => column' \in Slot
    BY <1>0, <1>c, <1>t DEF RowsFollow
  <2> QED BY <1>c, <1>d, <1>e, <2>1, <2>2, <2>3 DEF RowsFollow, Early, Late, Undoing
<1>f. ASSUME op.step \in Late, op'.step \in Late PROVE RowsFollow'
  BY <1>0, <1>c, <1>t, <1>d, <1>f DEF RowsFollow
<1>g. ASSUME op'.step \in Undoing, AtMostOneServing \/ failures' + crashes' = 1 PROVE RowsFollow'
  BY <1>0, <1>c, <1>t, <1>d, <1>g DEF RowsFollow
<1>k. /\ BeforeSwitch \union {"switching", "observe", "record", "column"} \subseteq Early
      /\ {"drain", "stopped", "prune", "pruned", "remove", "fail", "ended"} \subseteq Late
      /\ {"undoSwitch", "undoSwitching", "undoStart", "undoReady", "teardownStop", "teardownPointer",
          "slotFailed"} \subseteq Undoing
  BY DEF Restoring
<1>h. ASSUME op' = Undo(op), op.step \in Early \/ Breaks PROVE RowsFollow'
  <2>1. op'.step \in Undoing
    BY <1>0, <1>h, <1>k, UndoMoves
  <2>2. AtMostOneServing \/ failures' + crashes' = 1
    BY <1>h, <1>t DEF RowsFollow
  <2> QED BY <1>g, <2>1, <2>2
<1>i. ASSUME op.step \in Undoing, op'.step \in Undoing PROVE RowsFollow'
  <2>1. AtMostOneServing \/ failures' + crashes' = 1
    BY <1>i, <1>t DEF RowsFollow
  <2> QED BY <1>g, <1>i, <2>1
<1>j. \A b, c \in BOOLEAN : [op EXCEPT !.agreed = b, !.reload = c] \in Operations
  BY <1>0, MovesWithAgreement DEF SameOperation, Steps
<1>m. {"prepare", "materialize", "activate", "start", "ready", "switch"} \subseteq BeforeSwitch
  BY DEF BeforeSwitch
<1> HIDE DEF Early, Late, Undoing
<1> USE <1>0, <1>k, <1>m DEF Operations, At, GoFail, Go, GoStuck
<1>1. CASE PrepareSlot \/ Materialize \/ ActivateSlot
  BY <1>1, <1>e, <1>h DEF PrepareSlot, Materialize, ActivateSlot
<1>2. CASE StartSlot \/ WaitForReady \/ Switch
  BY <1>2, <1>e, <1>h DEF StartSlot, WaitForReady, Switch, CallApply
<1>3. CASE ApplyStep
  <2>1. op' = op /\ op.step \in {"switching", "undoSwitching"}
    BY <1>3 DEF ApplyStep
  <2> QED BY <1>e, <1>i, <2>1
<1>4. CASE Switched
  <2>0. op.step = "switching"
    BY <1>4 DEF Switched, Returned
  <2>1. CASE op' = [op EXCEPT !.step = "observe", !.switched = TRUE, !.agreed = Known]
    BY <1>e, <2>0, <2>1
  <2>2. CASE op' = Undo([op EXCEPT !.agreed = Known,
                                   !.reload = call.result = "NGINX_RELOAD_FAILED"])
    <3> DEFINE p == [op EXCEPT !.agreed = Known, !.reload = call.result = "NGINX_RELOAD_FAILED"]
    <3>1. p \in Operations
      BY <1>j DEF Known
    <3> HIDE DEF p
    <3>2. Undo(p).step \in {"undoSwitch", "teardownStop", "slotFailed"}
      BY <3>1, UndoMoves
    <3>3. AtMostOneServing
      BY <1>t, <2>0 DEF RowsFollow
    <3> QED BY <1>g, <2>2, <3>2, <3>3 DEF p
  <2> QED BY <1>4, <2>1, <2>2 DEF Switched
<1>5. CASE ObserveSlot \/ Record
  BY <1>5, <1>e, <1>h DEF ObserveSlot, Record
<1>6. CASE DrainAndStop \/ PruneDirectory \/ PruneRow \/ Succeed
  <2>1. op.step \in {"drain", "prune", "pruned"}
    BY <1>6 DEF DrainAndStop, PruneDirectory, PruneRow, Succeed
  <2>2. op'.step \in {"drain", "stopped", "prune", "pruned", "ended"}
    <3>1. CASE DrainAndStop    BY <3>1 DEF DrainAndStop
    <3>2. CASE PruneDirectory  BY <3>2 DEF PruneDirectory
    <3>3. CASE PruneRow        BY <3>3 DEF PruneRow
    <3>4. CASE Succeed         BY <3>4 DEF Succeed
    <3> QED BY <1>6, <3>1, <3>2, <3>3, <3>4
  <2> QED BY <1>f, <2>1, <2>2
<1>7. CASE UndoSwitch
  BY <1>7, <1>i DEF UndoSwitch, CallApply
<1>8. CASE SwitchedBack
  <2>0. op.step = "undoSwitching"
    BY <1>8 DEF SwitchedBack, Returned
  <2>1. CASE op' = [op EXCEPT !.step = "undoStart", !.agreed = Known]
    BY <1>i, <2>0, <2>1
  <2>2. CASE op' = [op EXCEPT !.step = "slotFailed", !.stuck = TRUE, !.agreed = Known]
    BY <1>i, <2>0, <2>2
  <2> QED BY <1>8, <2>1, <2>2 DEF SwitchedBack
<1>9. CASE UndoStart \/ UndoReady \/ TeardownStop \/ TeardownPointer
  BY <1>9, <1>i DEF UndoStart, UndoReady, TeardownStop, TeardownPointer
<1>10. CASE RemoveFailed \/ Fail
  BY <1>10, <1>f DEF RemoveFailed, Fail
<1> QED BY <1>1, <1>2, <1>3, <1>4, <1>5, <1>6, <1>7, <1>8, <1>9, <1>10
        DEF Call, Forward, Promotion, Back

LEMMA CallsKeepSlotRows ==
  ASSUME TrafficIInv, RowsFullIInv, SlotRowsFit, Call
  PROVE  SlotRowsFit'
<1>1. ASSUME OneTrouble',
             SetServingSlot \/ PutServing \/ PutDraining \/ PutStopped \/ PutFailed
      PROVE  RowsFollow'
  BY <1>1, RowWrites
<1>2. ASSUME OneTrouble',
             ~(SetServingSlot \/ PutServing \/ PutDraining \/ PutStopped \/ PutFailed)
      PROVE  RowsFollow'
  <2>1. UNCHANGED mirror
    <3>1. CASE Forward \/ Record \/ PruneRow \/ Fail
      BY <3>1 DEF Forward, PrepareSlot, Materialize, ActivateSlot, StartSlot, WaitForReady, Switch,
         CallApply, ApplyStep, Switched, ObserveSlot, Record, PruneRow, Fail
    <3>2. CASE DrainAndStop \/ PruneDirectory \/ Succeed
      BY <3>2 DEF DrainAndStop, PruneDirectory, Succeed
    <3>3. CASE Back
      BY <1>2, <3>3 DEF Back, UndoSwitch, CallApply, SwitchedBack, UndoStart, UndoReady,
         TeardownStop, TeardownPointer, RemoveFailed
    <3> QED BY <1>2, <3>1, <3>2, <3>3 DEF Call, Promotion
  <2> QED BY <1>2, <2>1, OtherCallsKeepRows
<1> QED BY <1>1, <1>2, CallsKeepPromotion DEF SlotRowsFit

LEMMA RequestsKeepSlotRows ==
  ASSUME TrafficIInv, RowsFullIInv, SlotRowsFit,
         (\E r \in Releases : PrepareDeploy(r) \/ PrepareRollback(r)) \/ Retry \/ OthersReload
  PROVE  SlotRowsFit'
<1>1. /\ UNCHANGED <<column, slotRow, file, cancelled, failures, cancels, crashes>>
      /\ op'.step = op.step /\ op'.rel = op.rel /\ op'.serving = op.serving /\ op'.target = op.target
  <2>1. CASE (\E r \in Releases : PrepareDeploy(r) \/ PrepareRollback(r)) \/ Retry
    BY <2>1 DEF PrepareDeploy, PrepareRollback, Retry, Ask, mirror, entry
  <2>2. CASE OthersReload
    BY <2>2 DEF OthersReload, ForeignReload, mirror, TrafficIInv, SlotsTypeOK, Operations
  <2> QED BY <2>1, <2>2
<1>2. \A r \in Releases : status[r] = "active" => status'[r] = "active"
  <2>0. status \in [Releases -> Statuses]
    BY DEF RowsFullIInv, RowsIInv, ColumnsTypeOK
  <2>1. CASE \E r \in Releases : PrepareDeploy(r)
    BY <2>0, <2>1 DEF PrepareDeploy, CreateRelease
  <2>2. CASE (\E r \in Releases : PrepareRollback(r)) \/ Retry \/ OthersReload
    BY <2>2 DEF PrepareRollback, Retry, OthersReload, rows
  <2> QED BY <2>1, <2>2
<1>3. op.step \in {"column", "serving", "draining"} => op.rel \in Releases
  BY DEF TrafficIInv, OpFits, Marks, Idle
<1>4. PromotionFits'
  BY <1>1, <1>2, <1>3 DEF SlotRowsFit, PromotionFits
<1>5. NewRoute' = NewRoute
  BY <1>1 DEF NewRoute, RouteTo, PortsOf
<1>6. AtMostOneServing' = AtMostOneServing /\ \A s \in Slot : SaysServing(s)' = SaysServing(s)
  BY <1>1 DEF AtMostOneServing, SaysServing
<1>7. RowsFollow => RowsFollow'
  BY <1>1, <1>2, <1>5, <1>6 DEF RowsFollow
<1>8. OneTrouble' = OneTrouble
  BY <1>1 DEF OneTrouble
<1> QED BY <1>4, <1>7, <1>8 DEF SlotRowsFit

LEMMA CancelKeepsSlotRows ==
  ASSUME TrafficIInv, SlotRowsFit, Cancel
  PROVE  SlotRowsFit'
<1>1. cancels \in Nat /\ cancels' = cancels + 1
  BY DEF Cancel, TrafficIInv, SlotsTypeOK
<1>2. cancels' > 0 /\ cancels' # 0
  BY <1>1
<1>3. UNCHANGED <<op, crashes, status, column>>
  BY DEF Cancel, rows, mirror
<1> QED BY <1>2, <1>3 DEF SlotRowsFit, PromotionFits, OneTrouble

\* The daemon's death is the one trouble; where the rows contradict each other
\* then, nginx runs by the release that is active.
LEMMA CrashKeepsSlotRows ==
  ASSUME TrafficIInv, SlotRowsFit, Crash
  PROVE  SlotRowsFit'
<1>1. /\ op \in Operations /\ failures \in Nat /\ crashes \in Nat /\ crashes' = crashes + 1
      /\ UNCHANGED <<status, column, slotRow, file, cancelled, failures, cancels>>
      /\ op' = [op EXCEPT !.step = "reconcile",
                          !.outcome = IF op.step = "ended" THEN @ ELSE "crashed"]
      /\ op.step # "reconcile"
  BY DEF Crash, TrafficIInv, SlotsTypeOK, rows, mirror
<1>2. op'.step = "reconcile" /\ op'.rel = op.rel /\ op'.target = op.target
  BY <1>1 DEF Operations
<1>3. PromotionFits'
  BY <1>1, <1>2 DEF SlotRowsFit, PromotionFits
<1>4. ASSUME OneTrouble' PROVE RowsFollow'
  <2>1. failures + crashes = 0 /\ cancels = 0
    BY <1>1, <1>4 DEF OneTrouble
  <2>2. RowsFollow
    BY <2>1 DEF OneTrouble, SlotRowsFit
  <2>3. op.step # "draining" => AtMostOneServing
    BY <1>1, <2>1, <2>2 DEF RowsFollow, Operations, Steps, BeforeSwitch, Restoring
  <2>4. op.step = "draining" => status[op.rel] = "active" /\ op.rel \in Releases /\ file = NewRoute
    BY DEF SlotRowsFit, PromotionFits, TrafficIInv, OpFits, Marks, Idle, EntryFits, Promoted
  <2>5. AtMostOneServing' = AtMostOneServing /\ NewRoute' = NewRoute
    BY <1>1, <1>2 DEF AtMostOneServing, SaysServing, NewRoute, RouteTo, PortsOf
  <2>6. \A s \in Slot : SaysServing(s)' => column' \in Slot
    BY <1>1, <2>2 DEF RowsFollow, SaysServing
  <2> QED BY <1>1, <1>2, <2>3, <2>4, <2>5, <2>6 DEF RowsFollow, BeforeSwitch, Restoring
<1> QED BY <1>3, <1>4 DEF SlotRowsFit

\* The reconciliation makes one row of two, unless it cannot read what nginx runs by.
LEMMA ReconcileKeepsSlotRows ==
  ASSUME TrafficIInv, RowsFullIInv, SlotRowsFit, Reconcile
  PROVE  SlotRowsFit'
<1>1. /\ op \in Operations /\ op.step = "reconcile" /\ op' = [op EXCEPT !.step = "ended"]
      /\ UNCHANGED <<status, file, proc, cancelled, cancels, crashes>>
      /\ failures \in Nat /\ crashes \in Nat /\ crashes > 0
      /\ slotRow \in [Slot -> [rel : Releases \union {None}, state : SlotStates]]
  BY DEF Reconcile, Go, TrafficIInv, SlotsTypeOK, rows, entry, units, SlotRowsFit, PromotionFits
<1>2. op'.step = "ended"
  BY <1>1 DEF Operations
<1>3. PromotionFits'
  BY <1>1, <1>2 DEF SlotRowsFit, PromotionFits
<1>4. ASSUME OneTrouble' PROVE RowsFollow'
  <2>1. failures' = failures \/ failures' = failures + 1
    BY DEF Reconcile
  <2>2. failures' = failures /\ failures = 0 /\ OneTrouble
    BY <1>1, <1>4, <2>1 DEF OneTrouble
  <2>3. RowsFollow
    BY <2>2 DEF SlotRowsFit
  <2>4. CASE /\ Active # None /\ Readable /\ column' = CurrentSlot
             /\ slotRow' = [s \in Slot |-> Reconciled(s)]
    <3>1. \A s \in Slot : SaysServing(s)' => CurrentSlot = s
      BY <1>1, <2>4 DEF SaysServing, Reconciled, ExpectedState
    <3>2. AtMostOneServing'
      BY <3>1 DEF AtMostOneServing, SaysServing
    <3> QED BY <1>2, <2>4, <3>1, <3>2 DEF RowsFollow, BeforeSwitch, Restoring
  <2>5. CASE (Active = None \/ ~Readable) /\ UNCHANGED mirror
    <3>1. ~(status[op.rel] = "active" /\ op.rel \in Releases /\ file = NewRoute)
      <4> SUFFICES ASSUME status[op.rel] = "active", op.rel \in Releases, file = NewRoute
                   PROVE  FALSE
        OBVIOUS
      <4>1. Active = op.rel
        BY ActiveIsTheOne
      <4>2. Readable
        BY <4>1, ReleaseRowsAssumption DEF Readable, NewRoute, RouteTo
      <4> QED BY <2>5, <4>1, <4>2, ReleaseRowsAssumption
    <3>2. AtMostOneServing
      BY <1>1, <2>3, <3>1 DEF RowsFollow
    <3>3. AtMostOneServing' /\ \A s \in Slot : SaysServing(s)' => column' \in Slot
      BY <2>3, <2>5, <3>2 DEF AtMostOneServing, SaysServing, mirror, RowsFollow
    <3> QED BY <1>2, <3>3 DEF RowsFollow, BeforeSwitch, Restoring
  <2> QED BY <1>1, <2>2, <2>4, <2>5 DEF Reconcile
<1> QED BY <1>3, <1>4 DEF SlotRowsFit

LEMMA BeginKeepsSlotRows ==
  ASSUME TrafficIInv, TrafficIInv', SlotRowsFit, NEW q \in wanted, ApplySlotBegin(q)
  PROVE  SlotRowsFit'
<1>1. /\ op.step = "ended" /\ cancelled' = FALSE
      /\ UNCHANGED <<column, slotRow, cancels, crashes>>
      /\ failures \in Nat /\ crashes \in Nat
      /\ failures' = failures \/ failures' = failures + 1
  BY DEF ApplySlotBegin, TrafficIInv, SlotsTypeOK, mirror
<1>2. op'.step \in {"prepare", "ended"} /\ op'.serving = column
  <2>1. CASE op' = Begun(q)
    BY <2>1 DEF Begun
  <2>2. CASE op' = [Begun(q) EXCEPT !.step = "ended", !.outcome = "refused"]
    BY <2>2 DEF Begun
  <2> QED BY <2>1, <2>2 DEF ApplySlotBegin
<1>3. PromotionFits'
  BY <1>1, <1>2 DEF PromotionFits
<1>4. ASSUME OneTrouble' PROVE RowsFollow'
  <2>1. OneTrouble
    BY <1>1, <1>4 DEF OneTrouble
  <2>2. AtMostOneServing /\ \A s \in Slot : SaysServing(s) => column \in Slot
    BY <1>1, <2>1 DEF SlotRowsFit, RowsFollow
  <2>3. AtMostOneServing' /\ \A s \in Slot : SaysServing(s)' => column' \in Slot
    BY <1>1, <2>2 DEF AtMostOneServing, SaysServing
  <2> QED BY <1>1, <1>2, <2>3 DEF RowsFollow, BeforeSwitch, Restoring
<1> QED BY <1>3, <1>4 DEF SlotRowsFit

\* The rows of the slots through every step, each lost write and each death.
THEOREM SlotRowsInvariant == Spec => [](RowsFullIInv /\ TrafficIInv /\ SlotRowsFit)
<1>1. Init => SlotRowsFit
  <2> SUFFICES ASSUME Init PROVE SlotRowsFit
    OBVIOUS
  <2>1. op.step = "ended" /\ ~cancelled /\ \A s \in Slot : slotRow[s].state = "none"
    BY DEF Init
  <2> QED BY <2>1 DEF SlotRowsFit, PromotionFits, RowsFollow, AtMostOneServing, SaysServing,
          BeforeSwitch, Restoring
<1>2. RowsFullIInv /\ TrafficIInv /\ TrafficIInv' /\ SlotRowsFit /\ [Next]_vars => SlotRowsFit'
  <2>1. ASSUME RowsFullIInv, TrafficIInv, TrafficIInv', SlotRowsFit, Next PROVE SlotRowsFit'
    BY <2>1, CallsKeepSlotRows, RequestsKeepSlotRows, CancelKeepsSlotRows, CrashKeepsSlotRows,
       ReconcileKeepsSlotRows, BeginKeepsSlotRows DEF Next, Call, Forward, Promotion, Back
  <2>2. ASSUME SlotRowsFit, UNCHANGED vars PROVE SlotRowsFit'
    BY <2>2 DEF vars, rows, mirror, entry, bounds, SlotRowsFit, PromotionFits, OneTrouble, RowsFollow,
       AtMostOneServing, SaysServing, NewRoute, RouteTo, PortsOf
  <2> QED BY <2>1, <2>2
<1> QED BY <1>1, <1>2, TrafficInvariant, PTL DEF Spec

\* One row says serving while the daemon is idle, though the rows are written one
\* by one and any one call may be lost, or the daemon die at any step.
THEOREM OneRowServes == Spec => []OneServingRow
<1>1. SlotRowsFit => OneServingRow
  BY DEF SlotRowsFit, OneTrouble, RowsFollow, AtMostOneServing, SaysServing, OneServingRow
<1> QED BY <1>1, SlotRowsInvariant, PTL

=============================================================================
