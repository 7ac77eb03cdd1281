--------------------------- MODULE OpEngineProofs ---------------------------
(***************************************************************************)
(* Proofs about the task engine, for every number of workers, resources,   *)
(* requests and retries: the types, the mutual exclusion on resources, the *)
(* statuses and idempotency keys, the chain of automatic retries, the audit*)
(* trail, the operations no worker holds, and the contract of OneAtATime.  *)
(***************************************************************************)
EXTENDS OpEngine, FiniteSetTheorems, TLAPS

\* A worker that claimed an operation holds a running row, and no row is
\* held twice; nobody works while the daemon is down.
WorkersHoldRunning ==
    /\ \A w \in Workers : pc[w] \in {"claimed", "exec", "finish", "done"} => cur[w] \in OpIds
    /\ \A w \in Workers : Executing(w) => ops[cur[w]].status = "running"
    /\ \A v, w \in Workers : Executing(v) /\ Executing(w) /\ cur[v] = cur[w] => v = w
    /\ daemon = "down" => \A w \in Workers : pc[w] = "idle"

\* A retry handler holds the id of an operation that ended, and stays so.
RetriesOfEnded ==
    \A c \in calls : c.what = "retry" => CanRetry(ops[c.op].status)

IInv ==
    /\ TypeOK
    /\ OneIncompletePerResource
    /\ LockMatchesRunning
    /\ WorkersHoldRunning
    /\ RetriesOfEnded
-----------------------------------------------------------------------------
(* The rows of the table *)

\* A row that was handed out is a complete record (scanOperation).
LEMMA KnownRow ==
    ASSUME TypeOK, NEW o \in OpIds
    PROVE  /\ ops[o].status # "absent" => ops[o] \in Operation
           /\ ops[o].status \in Statuses \cup {"absent"}
  <1>1. ops[o] = AbsentOp \/ ops[o] \in Operation
    BY DEF TypeOK
  <1>2. AbsentOp.status = "absent"
    BY DEF AbsentOp
  <1>3. ops[o] \in Operation => ops[o].status \in Statuses
    BY DEF Operation
  <1> QED BY <1>1, <1>2, <1>3

\* What Service.Create inserts.
LEMMA NewOpRow ==
    ASSUME NEW r \in Resources, NEW k \in Kinds, NEW p \in Policies, NEW key \in Keys \cup {NoKey}
    PROVE  /\ NewOp(r, k, p, key) \in Operation
           /\ NewOp(r, k, p, key).status = "pending"
           /\ NewOp(r, k, p, key).resource = r
  <1>1. p \in PolicyType /\ 0 \in 0..MaxBackoff
    BY PolicyAssumption, BoundsAssumption
  <1> QED BY <1>1 DEF NewOp, PendingRow, Operation, Statuses, Codes

\* What Service.Retry and insertRetryOperation insert.
LEMMA RetryRow ==
    ASSUME NEW o \in OpIds, ops[o] \in Operation, NEW d \in 1..MaxBackoff
    PROVE  /\ ManualRetryOp(o) \in Operation
           /\ ManualRetryOp(o).status = "pending"
           /\ ManualRetryOp(o).resource = ops[o].resource
           /\ ManualRetryOp(o).key = NoKey
           /\ AutoRetryOp(o, d) \in Operation
           /\ AutoRetryOp(o, d).status = "pending"
           /\ AutoRetryOp(o, d).resource = ops[o].resource
           /\ AutoRetryOp(o, d).key = NoKey
  <1>1. 0 \in 0..MaxBackoff /\ d \in 0..MaxBackoff
    BY BoundsAssumption
  <1>2. /\ ops[o].resource \in Resources /\ ops[o].kind \in Kinds /\ ops[o].policy \in PolicyType
        /\ ops[o].attempt + 1 \in Nat
    BY DEF Operation
  <1>3. /\ ManualRetryOp(o) \in Operation
        /\ ManualRetryOp(o).status = "pending"
        /\ ManualRetryOp(o).resource = ops[o].resource
        /\ ManualRetryOp(o).key = NoKey
    BY <1>1, <1>2 DEF ManualRetryOp, PendingRow, Operation, Statuses, Codes
  <1>4. /\ AutoRetryOp(o, d) \in Operation
        /\ AutoRetryOp(o, d).status = "pending"
        /\ AutoRetryOp(o, d).resource = ops[o].resource
        /\ AutoRetryOp(o, d).key = NoKey
    BY <1>1, <1>2 DEF AutoRetryOp, PendingRow, Operation, Statuses, Codes
  <1> QED BY <1>3, <1>4

\* What Finish and RecoverRunning leave of a row.
LEMMA EndedRow ==
    ASSUME NEW o \in OpIds, ops[o] \in Operation, NEW out \in Outcomes
    PROVE  /\ Ended(o, out) \in Operation
           /\ Ended(o, out).status = out.status
           /\ Ended(o, out).status \in Terminal
           /\ Ended(o, out).resource = ops[o].resource
           /\ Ended(o, out).key = ops[o].key
  BY DEF Ended, Outcomes, Terminal, Statuses, Operation

\* Every execution ends in a typed outcome.
LEMMA OutcomeType ==
    ASSUME NEW kind, NEW c
    PROVE  ExecOutcomes(kind, c) \subseteq Outcomes
  <1>1. /\ [status |-> "succeeded", code |-> ""] \in Outcomes
        /\ [status |-> "cancelled", code |-> "EXEC_CANCELLED"] \in Outcomes
        /\ \A x \in {"INVALID_REQUEST", "EXEC_EXIT_NONZERO", "RUNTIME_NOT_READY", "INTERNAL",
                     "BACKUP_PREFLIGHT_FAILED", "CONFIG_INVALID", "DEPLOY_ROLLED_BACK"} :
              [status |-> "failed", code |-> x] \in Outcomes
    BY DEF Outcomes, Terminal, Codes, DefaultRetryableCodes, NeverRetryableCodes
  <1>2. /\ CommandOutcomes(c) \subseteq Outcomes /\ RuntimeOutcomes(c) \subseteq Outcomes
        /\ BackupOutcomes(c) \subseteq Outcomes /\ DeployOutcomes(c) \subseteq Outcomes
    BY <1>1 DEF CommandOutcomes, RuntimeOutcomes, BackupOutcomes, DeployOutcomes
  <1> QED BY <1>2 DEF ExecOutcomes
-----------------------------------------------------------------------------
(* Initial states and steps that leave the tables alone *)

LEMMA InitInv == Init => IInv
  <1> SUFFICES ASSUME Init PROVE IInv
    OBVIOUS
  <1>1. \A o \in OpIds : ops[o] = AbsentOp /\ ops[o].status = "absent"
    BY DEF Init, AbsentOp
  <1>2. TypeOK
    <2>1. NoOutcome \in Outcomes
      BY DEF NoOutcome, Outcomes, Terminal, Codes
    <2>2. audit \in [OpIds -> Seq(Events)]
      BY DEF Init
    <2>3. ops \in [OpIds -> {AbsentOp} \cup Operation] /\ locks \in [Resources -> OpIds \cup {NoOp}]
      BY DEF Init
    <2>4. /\ pc \in [Workers -> WorkerStates] /\ cur \in [Workers -> OpIds \cup {NoOp}]
          /\ outcome \in [Workers -> Outcomes]
      BY <2>1 DEF Init, WorkerStates
    <2>5. /\ daemon \in {"up", "stopping", "down"} /\ registry \subseteq OpIds
          /\ signalled \subseteq OpIds /\ calls \subseteq CallType /\ wake \in BOOLEAN
      BY Zenon DEF Init
    <2>6. faults \in 0..MaxFaults
      BY BoundsAssumption DEF Init
    <2> QED BY <2>2, <2>3, <2>4, <2>5, <2>6 DEF TypeOK
  <1>3. OneIncompletePerResource
    BY <1>1 DEF OneIncompletePerResource, Incomplete
  <1>4. LockMatchesRunning
    BY <1>1, NoOpAssumption DEF LockMatchesRunning, Init
  <1>5. WorkersHoldRunning /\ RetriesOfEnded
    BY DEF Init, WorkersHoldRunning, RetriesOfEnded, Executing
  <1> QED BY <1>2, <1>3, <1>4, <1>5 DEF IInv

\* Steps that only move workers or calls keep the table facts.
LEMMA TablesUnchanged ==
    ASSUME IInv, UNCHANGED dbVars
    PROVE  OneIncompletePerResource' /\ LockMatchesRunning'
  BY DEF IInv, dbVars, OneIncompletePerResource, LockMatchesRunning

LEMMA StutterStep == ASSUME IInv, UNCHANGED vars PROVE IInv'
  BY DEF IInv, vars, TypeOK, OneIncompletePerResource, LockMatchesRunning, WorkersHoldRunning,
         RetriesOfEnded, Executing

LEMMA CancelSignalStep ==
    ASSUME IInv, NEW o \in OpIds, CancelSignal(o)
    PROVE  IInv'
  <1> USE DEF CancelSignal, dbVars, workerVars
  <1>1. TypeOK'
    BY DEF IInv, TypeOK
  <1>2. WorkersHoldRunning' /\ RetriesOfEnded'
    BY DEF IInv, WorkersHoldRunning, RetriesOfEnded, Executing
  <1> QED BY <1>1, <1>2, TablesUnchanged DEF IInv

LEMMA RetryReadStep ==
    ASSUME IInv, NEW o \in OpIds, RetryRead(o)
    PROVE  IInv'
  <1> USE DEF RetryRead, dbVars, workerVars
  <1>1. TypeOK'
    BY DEF IInv, TypeOK, CallType
  <1>2. WorkersHoldRunning' /\ RetriesOfEnded'
    BY DEF IInv, WorkersHoldRunning, RetriesOfEnded, Executing
  <1> QED BY <1>1, <1>2, TablesUnchanged DEF IInv

\* One worker moves without touching the tables: between claim and
\* termination, or to and from its wait.
LEMMA WorkerMoveStep ==
    ASSUME IInv, NEW w \in Workers,
           WakeUp(w) \/ NothingToDo(w) \/ Register(w) \/ Run(w) \/ FinishRefused(w) \/ Unregister(w)
    PROVE  IInv'
  <1> USE DEF dbVars, workerVars
  <1>1. UNCHANGED dbVars
    BY DEF WakeUp, NothingToDo, Register, Run, FinishRefused, Unregister
  <1>2. TypeOK'
    <2>1. CASE WakeUp(w) \/ NothingToDo(w)
      BY <2>1 DEF IInv, TypeOK, WakeUp, NothingToDo, WorkerStates
    <2>2. CASE Register(w)
      BY <2>2 DEF IInv, TypeOK, Register, WorkerStates, WorkersHoldRunning
    <2>3. CASE Run(w)
      <3>1. PICK out \in ExecOutcomes(ops[cur[w]].kind, cur[w] \in signalled \/ daemon = "stopping") :
               outcome' = [outcome EXCEPT ![w] = out]
        BY <2>3 DEF Run
      <3>2. out \in Outcomes
        BY <3>1, OutcomeType
      <3> QED BY <2>3, <3>1, <3>2 DEF IInv, TypeOK, Run, WorkerStates
    <2>4. CASE FinishRefused(w)
      BY <2>4, BoundsAssumption DEF IInv, TypeOK, FinishRefused, WorkerStates
    <2>5. CASE Unregister(w)
      <3>1. NoOutcome \in Outcomes
        BY DEF NoOutcome, Outcomes, Terminal, Codes
      <3> QED BY <2>5, <3>1 DEF IInv, TypeOK, Unregister, WorkerStates
    <2> QED BY <2>1, <2>2, <2>3, <2>4, <2>5
  <1>3. WorkersHoldRunning'
    <2> USE DEF IInv, TypeOK, WorkersHoldRunning, Executing
    <2>1. CASE WakeUp(w)
      BY <2>1 DEF WakeUp
    <2>2. CASE NothingToDo(w)
      BY <2>2 DEF NothingToDo
    <2>3. CASE Register(w)
      BY <2>3 DEF Register, Serving
    <2>4. CASE Run(w)
      BY <2>4 DEF Run, Serving
    <2>5. CASE FinishRefused(w)
      BY <2>5 DEF FinishRefused, Serving
    <2>6. CASE Unregister(w)
      BY <2>6 DEF Unregister, Serving
    <2> QED BY <2>1, <2>2, <2>3, <2>4, <2>5, <2>6
  <1>4. RetriesOfEnded'
    BY <1>1 DEF IInv, RetriesOfEnded, WakeUp, NothingToDo, Register, Run, FinishRefused, Unregister
  <1> QED BY <1>1, <1>2, <1>3, <1>4, TablesUnchanged DEF IInv

LEMMA ShutdownStep == ASSUME IInv, Shutdown \/ Exit PROVE IInv'
  <1> USE DEF dbVars, workerVars
  <1>1. NoOutcome \in Outcomes
    BY DEF NoOutcome, Outcomes, Terminal, Codes
  <1>2. TypeOK'
    BY <1>1 DEF IInv, TypeOK, Shutdown, Exit, WorkerStates
  <1>3. WorkersHoldRunning' /\ RetriesOfEnded'
    BY DEF IInv, WorkersHoldRunning, RetriesOfEnded, Executing, Shutdown, Exit
  <1>4. UNCHANGED dbVars
    BY DEF Shutdown, Exit
  <1> QED BY <1>2, <1>3, <1>4, TablesUnchanged DEF IInv
-----------------------------------------------------------------------------
(* Steps that insert or change a row *)

\* A pending row stored under a free id, on a resource without an incomplete
\* operation, keeps the table facts; rows handed out before are untouched.
LEMMA InsertKeeps ==
    ASSUME IInv, NEW id \in OpIds, ~Known(id), NEW row \in Operation, row.status = "pending",
           ~hasIncompleteOperation(row.resource),
           ops' = [ops EXCEPT ![id] = row], locks' = locks
    PROVE  /\ ops' \in [OpIds -> {AbsentOp} \cup Operation]
           /\ OneIncompletePerResource' /\ LockMatchesRunning'
           /\ \A o \in OpIds : Known(o) => ops'[o] = ops[o]
  <1>1. ops \in [OpIds -> {AbsentOp} \cup Operation]
    BY DEF IInv, TypeOK
  <1>2. \A o \in OpIds : ops'[o] = IF o = id THEN row ELSE ops[o]
    BY <1>1
  <1>3. OneIncompletePerResource'
    BY <1>2 DEF IInv, OneIncompletePerResource, hasIncompleteOperation, On, Incomplete
  <1>4. LockMatchesRunning'
    BY <1>2 DEF IInv, LockMatchesRunning, Known
  <1> QED BY <1>1, <1>2, <1>3, <1>4 DEF Known

\* Running rows and rows that can be retried were handed out, so steps that
\* keep those rows keep what workers and retry handlers rely on.
LEMMA KnownKept ==
    ASSUME IInv, \A o \in OpIds : Known(o) => ops'[o] = ops[o],
           pc' = pc, cur' = cur, daemon' = daemon,
           \A c \in calls' : c.what = "retry" => c \in calls
    PROVE  WorkersHoldRunning' /\ RetriesOfEnded'
  <1>1. WorkersHoldRunning'
    BY DEF IInv, WorkersHoldRunning, Executing, Known
  <1>2. RetriesOfEnded'
    <2> SUFFICES ASSUME NEW c \in calls', c.what = "retry" PROVE CanRetry(ops[c.op].status)'
      BY DEF RetriesOfEnded
    <2>1. c \in calls /\ c.op \in OpIds
      BY DEF IInv, TypeOK, CallType
    <2>2. CanRetry(ops[c.op].status)
      BY <2>1 DEF IInv, RetriesOfEnded
    <2> QED BY <2>1, <2>2 DEF CanRetry, Known
  <1> QED BY <1>1, <1>2

LEMMA CreateStep ==
    ASSUME IInv, NEW r \in Resources, NEW k \in Kinds, NEW p \in Policies,
           NEW key \in Keys \cup {NoKey}, Create(r, k, p, key)
    PROVE  IInv'
  <1>1. PICK id \in OpIds :
           /\ NextId(id)
           /\ ops' = [ops EXCEPT ![id] = NewOp(r, k, p, key)]
           /\ audit' = [audit EXCEPT ![id] = <<"operation.created">>]
    BY DEF Create
  <1> DEFINE row == NewOp(r, k, p, key)
  <1>0. row \in Operation /\ row.status = "pending" /\ row.resource = r
    BY NewOpRow
  <1>2. ~Known(id) /\ locks' = locks /\ ~hasIncompleteOperation(row.resource)
    BY <1>1, <1>0 DEF Create, NextId, Free
  <1>3. /\ ops' \in [OpIds -> {AbsentOp} \cup Operation]
        /\ OneIncompletePerResource' /\ LockMatchesRunning'
        /\ \A o \in OpIds : Known(o) => ops'[o] = ops[o]
    <2> HIDE DEF row
    <2> QED BY <1>1, <1>0, <1>2, InsertKeeps DEF row
  <1>4. audit' \in [OpIds -> Seq(Events)]
    BY <1>1 DEF IInv, TypeOK, Events
  <1>5. wake' \in BOOLEAN
    BY DEF Create
  <1>6. TypeOK'
    BY <1>3, <1>4, <1>5 DEF IInv, TypeOK, Create, workerVars
  <1>7. WorkersHoldRunning' /\ RetriesOfEnded'
    BY <1>3, KnownKept DEF Create, workerVars
  <1> QED BY <1>3, <1>6, <1>7 DEF IInv

LEMMA RetryCreateStep ==
    ASSUME IInv, NEW o \in OpIds, RetryCreate(o)
    PROVE  IInv'
  <1> DEFINE call == [op |-> o, what |-> "retry"]
  <1>1. call \in calls /\ call.what = "retry" /\ call.op = o
    BY DEF RetryCreate
  <1>2. ops[o] \in Operation
    BY <1>1, KnownRow DEF IInv, RetriesOfEnded, CanRetry
  <1>3. CASE calls' = calls \ {call} /\ UNCHANGED <<ops, audit>>
    <2>1. TypeOK'
      BY <1>3 DEF IInv, TypeOK, RetryCreate, workerVars
    <2>2. WorkersHoldRunning' /\ RetriesOfEnded'
      BY <1>3, KnownKept DEF RetryCreate, workerVars
    <2> QED BY <1>3, <2>1, <2>2, TablesUnchanged DEF IInv, RetryCreate, dbVars
  <1>4. CASE /\ ~hasIncompleteOperation(ops[o].resource)
             /\ \E id \in OpIds :
                   /\ NextId(id)
                   /\ ops' = [ops EXCEPT ![id] = ManualRetryOp(o)]
                   /\ audit' = [audit EXCEPT ![id] = <<"operation.created">>]
                   /\ calls' = (calls \ {call}) \cup {[op |-> id, what |-> "audit"]}
    <2>1. PICK id \in OpIds :
             /\ NextId(id)
             /\ ops' = [ops EXCEPT ![id] = ManualRetryOp(o)]
             /\ audit' = [audit EXCEPT ![id] = <<"operation.created">>]
             /\ calls' = (calls \ {call}) \cup {[op |-> id, what |-> "audit"]}
      BY <1>4
    <2>2. /\ ManualRetryOp(o) \in Operation /\ ManualRetryOp(o).status = "pending"
          /\ ManualRetryOp(o).resource = ops[o].resource
      <3>1. 1 \in 1..MaxBackoff
        BY BoundsAssumption
      <3> QED BY <1>2, <3>1, RetryRow
    <2>3. ~Known(id) /\ locks' = locks
      BY <2>1 DEF NextId, Free, RetryCreate
    <2>4. /\ ops' \in [OpIds -> {AbsentOp} \cup Operation]
          /\ OneIncompletePerResource' /\ LockMatchesRunning'
          /\ \A x \in OpIds : Known(x) => ops'[x] = ops[x]
      BY <1>4, <2>1, <2>2, <2>3, InsertKeeps
    <2>5. audit' \in [OpIds -> Seq(Events)] /\ calls' \subseteq CallType
      BY <2>1 DEF IInv, TypeOK, Events, CallType
    <2>6. TypeOK'
      BY <2>4, <2>5 DEF IInv, TypeOK, RetryCreate, workerVars
    <2>7. \A c \in calls' : c.what = "retry" => c \in calls
      BY <2>1
    <2>8. WorkersHoldRunning' /\ RetriesOfEnded'
      BY <2>4, <2>7, KnownKept DEF RetryCreate, workerVars
    <2> QED BY <2>4, <2>6, <2>8 DEF IInv
  <1> QED BY <1>3, <1>4 DEF RetryCreate

LEMMA RetryAuditStep ==
    ASSUME IInv, NEW o \in OpIds, RetryAudit(o)
    PROVE  IInv'
  <1>1. audit' \in [OpIds -> Seq(Events)]
    BY DEF IInv, TypeOK, RetryAudit, Events
  <1>2. wake' \in BOOLEAN
    BY DEF RetryAudit
  <1>3. TypeOK'
    BY <1>1, <1>2 DEF IInv, TypeOK, RetryAudit, workerVars
  <1>4. OneIncompletePerResource' /\ LockMatchesRunning'
    BY DEF IInv, RetryAudit, OneIncompletePerResource, LockMatchesRunning
  <1>5. WorkersHoldRunning' /\ RetriesOfEnded'
    BY KnownKept DEF RetryAudit, workerVars
  <1> QED BY <1>3, <1>4, <1>5 DEF IInv

LEMMA CancelStep ==
    ASSUME IInv, NEW o \in OpIds, Cancel(o)
    PROVE  IInv'
  <1> USE DEF Cancel, workerVars
  <1>1. CASE CancelPending(o)
    <2> USE <1>1 DEF CancelPending
    <2>1. ops[o] \in Operation
      BY KnownRow DEF IInv
    <2>2. /\ ops \in [OpIds -> {AbsentOp} \cup Operation]
          /\ \A x \in OpIds : ops'[x] = IF x = o THEN [ops[o] EXCEPT !.status = "cancelled"] ELSE ops[x]
      BY DEF IInv, TypeOK
    <2>3. [ops[o] EXCEPT !.status = "cancelled"] \in Operation
      BY <2>1 DEF Operation, Statuses
    <2>4. /\ ops'[o].status = "cancelled" /\ ops'[o].resource = ops[o].resource
          /\ \A x \in OpIds \ {o} : ops'[x] = ops[x]
      BY <2>1, <2>2 DEF Operation
    <2>5. ops' \in [OpIds -> {AbsentOp} \cup Operation]
      BY <2>2, <2>3
    <2>6. audit' \in [OpIds -> Seq(Events)]
      BY DEF IInv, TypeOK, Events
    <2>7. TypeOK'
      BY <2>5, <2>6 DEF IInv, TypeOK
    <2>8. OneIncompletePerResource'
      BY <2>4 DEF IInv, OneIncompletePerResource, Incomplete
    <2>9. LockMatchesRunning'
      BY <2>4 DEF IInv, LockMatchesRunning
    <2>10. WorkersHoldRunning'
      BY <2>4 DEF IInv, WorkersHoldRunning, Executing
    <2>11. RetriesOfEnded'
      BY <2>4 DEF IInv, RetriesOfEnded, CanRetry, TypeOK, CallType
    <2> QED BY <2>7, <2>8, <2>9, <2>10, <2>11 DEF IInv
  <1>2. CASE CancelRunning(o)
    <2> USE <1>2 DEF CancelRunning
    <2>1. TypeOK'
      BY DEF IInv, TypeOK, CallType
    <2>2. \A c \in calls' : c.what = "retry" => c \in calls
      OBVIOUS
    <2>3. WorkersHoldRunning' /\ RetriesOfEnded'
      BY <2>2, KnownKept
    <2> QED BY <2>1, <2>3, TablesUnchanged DEF IInv, dbVars
  <1> QED BY <1>1, <1>2

LEMMA ClaimStep ==
    ASSUME IInv, NEW w \in Workers, Claim(w)
    PROVE  IInv'
  <1>1. PICK o \in OpIds : ClaimNextPending(w, o)
    BY DEF Claim
  <1> USE DEF ClaimNextPending, Runnable
  <1>2. ops[o] \in Operation /\ ops[o].status = "pending" /\ locks[ops[o].resource] = NoOp
    BY <1>1, KnownRow DEF IInv
  <1>3. [ops[o] EXCEPT !.status = "running"] \in Operation
    BY <1>2 DEF Operation, Statuses
  <1>4. /\ ops \in [OpIds -> {AbsentOp} \cup Operation]
        /\ \A x \in OpIds : ops'[x] = IF x = o THEN [ops[o] EXCEPT !.status = "running"] ELSE ops[x]
    BY <1>1 DEF IInv, TypeOK
  <1>5. ops' \in [OpIds -> {AbsentOp} \cup Operation]
    BY <1>1, <1>3, <1>4
  <1>6. /\ ops'[o].status = "running" /\ ops'[o].resource = ops[o].resource
        /\ \A x \in OpIds \ {o} : ops'[x] = ops[x]
    BY <1>2, <1>4 DEF Operation
  <1>7. ops[o].resource \in Resources
    BY <1>2 DEF Operation
  <1>8. TypeOK'
    <2>1. audit' \in [OpIds -> Seq(Events)]
      BY <1>1 DEF IInv, TypeOK, Events
    <2>2. /\ locks' \in [Resources -> OpIds \cup {NoOp}]
          /\ pc' \in [Workers -> WorkerStates] /\ cur' \in [Workers -> OpIds \cup {NoOp}]
      BY <1>1 DEF IInv, TypeOK, WorkerStates
    <2> QED BY <1>5, <2>1, <2>2 DEF IInv, TypeOK, Claim
  <1>9. OneIncompletePerResource'
    BY <1>2, <1>6 DEF IInv, OneIncompletePerResource, Incomplete
  <1>10. LockMatchesRunning'
    <2> SUFFICES ASSUME NEW r \in Resources, NEW x \in OpIds
                 PROVE  locks'[r] = x <=> ops'[x].status = "running" /\ ops'[x].resource = r
      BY DEF LockMatchesRunning
    <2>1. locks'[r] = IF r = ops[o].resource THEN o ELSE locks[r]
      BY <1>1, <1>7 DEF IInv, TypeOK
    <2>2. locks[r] = x <=> ops[x].status = "running" /\ ops[x].resource = r
      BY DEF IInv, LockMatchesRunning
    <2> QED BY <1>2, <1>6, <2>1, <2>2, NoOpAssumption
  <1>11. WorkersHoldRunning'
    <2>1. /\ \A v \in Workers : pc'[v] = IF v = w THEN "claimed" ELSE pc[v]
          /\ \A v \in Workers : cur'[v] = IF v = w THEN o ELSE cur[v]
          /\ daemon' = daemon /\ daemon = "up"
      BY <1>1 DEF IInv, TypeOK, Claim
    <2>2. \A v \in Workers : Executing(v) => cur[v] # o
      BY <1>2 DEF IInv, WorkersHoldRunning
    <2>3. \A v \in Workers : Executing(v)' => v = w \/ Executing(v)
      BY <2>1 DEF Executing
    <2> QED BY <1>6, <2>1, <2>2, <2>3 DEF IInv, WorkersHoldRunning, Executing
  <1>12. RetriesOfEnded'
    BY <1>2, <1>6 DEF IInv, RetriesOfEnded, CanRetry, TypeOK, CallType, Claim
  <1> QED BY <1>8, <1>9, <1>10, <1>11, <1>12 DEF IInv

LEMMA TickStep == ASSUME IInv, Tick PROVE IInv'
  <1>1. \A o \in OpIds : /\ ops'[o] \in {AbsentOp} \cup Operation
                         /\ ops'[o].status = ops[o].status /\ ops'[o].resource = ops[o].resource
    <2> SUFFICES ASSUME NEW o \in OpIds
                 PROVE  /\ ops'[o] \in {AbsentOp} \cup Operation
                        /\ ops'[o].status = ops[o].status /\ ops'[o].resource = ops[o].resource
      OBVIOUS
    <2>1. ops'[o] = IF ops[o].backoff > 0 THEN [ops[o] EXCEPT !.backoff = @ - 1] ELSE ops[o]
      BY DEF Tick
    <2>2. CASE ops[o] \in Operation
      BY <2>1, <2>2, BoundsAssumption DEF Operation
    <2>3. CASE ops[o] = AbsentOp
      <3>1. AbsentOp.backoff = 0
        BY DEF AbsentOp
      <3> QED BY <2>1, <2>3, <3>1
    <2> QED BY <2>2, <2>3 DEF IInv, TypeOK
  <1>2. ops' \in [OpIds -> {AbsentOp} \cup Operation]
    BY <1>1 DEF Tick
  <1>3. TypeOK'
    BY <1>2 DEF IInv, TypeOK, Tick, workerVars
  <1>4. OneIncompletePerResource' /\ LockMatchesRunning'
    <2>1. locks' = locks
      BY DEF Tick
    <2>2. OneIncompletePerResource'
      BY <1>1 DEF IInv, OneIncompletePerResource
    <2>3. LockMatchesRunning'
      BY <1>1, <2>1 DEF IInv, LockMatchesRunning
    <2> QED BY <2>2, <2>3
  <1>5. WorkersHoldRunning'
    BY <1>1 DEF IInv, WorkersHoldRunning, Executing, Tick, workerVars
  <1>6. RetriesOfEnded'
    BY <1>1 DEF IInv, RetriesOfEnded, CanRetry, TypeOK, CallType, Tick
  <1> QED BY <1>3, <1>4, <1>5, <1>6 DEF IInv
-----------------------------------------------------------------------------
(* Steps that end operations *)

\* Ending a running operation, releasing its lock and leaving at most one
\* pending row behind on the same resource keeps the table facts.
LEMMA EndKeeps ==
    ASSUME IInv, NEW o \in OpIds, ops[o].status = "running",
           ops'[o].status \in Terminal, calls' = calls,
           locks' = releaseLock(ops[o].resource, o),
           NEW id \in OpIds,
           \A x \in OpIds \ {o} :
              \/ ops'[x] = ops[x]
              \/ /\ x = id /\ ~Known(x)
                 /\ ops'[x].status = "pending" /\ ops'[x].resource = ops[o].resource
    PROVE  /\ OneIncompletePerResource' /\ LockMatchesRunning' /\ RetriesOfEnded'
           /\ \A x \in OpIds \ {o} : Known(x) => ops'[x] = ops[x]
  <1>1. ops[o] \in Operation /\ ops[o].resource \in Resources
    BY KnownRow DEF IInv, Operation
  <1>2. \A x \in OpIds \ {o} :
           ops[x].status \in Incomplete => ops[x].resource # ops[o].resource
    BY DEF IInv, OneIncompletePerResource, Incomplete
  <1>3. \A x \in OpIds : ops'[x].status \in Incomplete =>
           \/ x # o /\ ops'[x] = ops[x]
           \/ x = id /\ ops'[x].resource = ops[o].resource
    BY DEF Incomplete, Terminal
  <1>4. OneIncompletePerResource'
    <2> SUFFICES ASSUME NEW x \in OpIds, NEW y \in OpIds,
                        ops'[x].status \in Incomplete, ops'[y].status \in Incomplete,
                        ops'[x].resource = ops'[y].resource
                 PROVE  x = y
      BY DEF OneIncompletePerResource, Incomplete
    <2> QED BY <1>2, <1>3 DEF IInv, OneIncompletePerResource
  <1>5. LockMatchesRunning'
    <2> SUFFICES ASSUME NEW r \in Resources, NEW x \in OpIds
                 PROVE  locks'[r] = x <=> ops'[x].status = "running" /\ ops'[x].resource = r
      BY DEF LockMatchesRunning
    <2>1. locks'[r] = IF r = ops[o].resource /\ locks[r] = o THEN NoOp ELSE locks[r]
      BY <1>1 DEF IInv, TypeOK, releaseLock
    <2>2. /\ locks[r] = x <=> ops[x].status = "running" /\ ops[x].resource = r
          /\ locks[r] = o <=> ops[o].status = "running" /\ ops[o].resource = r
      BY DEF IInv, LockMatchesRunning
    <2>3. ops'[x].status = "running" <=> x # o /\ ops[x].status = "running" /\ ops'[x] = ops[x]
      BY DEF Terminal, Known
    <2>4. CASE x = o
      BY <1>1, <2>1, <2>2, <2>3, <2>4, NoOpAssumption
    <2>5. CASE x # o
      BY <1>2, <2>1, <2>2, <2>3, <2>5, NoOpAssumption DEF Known
    <2> QED BY <2>4, <2>5
  <1>6. \A x \in OpIds \ {o} : Known(x) => ops'[x] = ops[x]
    OBVIOUS
  <1>7. RetriesOfEnded'
    BY <1>6 DEF IInv, RetriesOfEnded, CanRetry, TypeOK, CallType, Known
  <1> QED BY <1>4, <1>5, <1>6, <1>7

\* The rows after the terminal write of a worker: its own has ended, and at
\* most one was added, queued on the same resource.
LEMMA FinishRows ==
    ASSUME IInv, NEW w \in Workers, Finish(w)
    PROVE  /\ cur[w] \in OpIds /\ ops[cur[w]] \in Operation /\ ops[cur[w]].status = "running"
           /\ locks' = releaseLock(ops[cur[w]].resource, cur[w])
           /\ ops' \in [OpIds -> {AbsentOp} \cup Operation]
           /\ audit' \in [OpIds -> Seq(Events)] /\ wake' \in BOOLEAN
           /\ ops'[cur[w]].status \in Terminal /\ ops'[cur[w]].resource = ops[cur[w]].resource
           /\ ops'[cur[w]].key = ops[cur[w]].key
           /\ \E id \in OpIds : \A x \in OpIds \ {cur[w]} :
                 \/ ops'[x] = ops[x]
                 \/ /\ x = id /\ ~Known(x)
                    /\ ops'[x].status = "pending" /\ ops'[x].resource = ops[cur[w]].resource
                    /\ ops'[x].key = NoKey
  <1> DEFINE o == cur[w]
             out == outcome[w]
  <1>1. /\ pc[w] = "finish" /\ o \in OpIds /\ ops[o].status = "running" /\ out \in Outcomes
        /\ FinishTx(o, out)
    BY DEF Finish, IInv, TypeOK, WorkersHoldRunning, Executing
  <1>2. ops[o] \in Operation
    BY <1>1, KnownRow DEF IInv
  <1>3. /\ Ended(o, out) \in Operation /\ Ended(o, out).status \in Terminal
        /\ Ended(o, out).resource = ops[o].resource /\ Ended(o, out).key = ops[o].key
    BY <1>1, <1>2, EndedRow
  <1>4. locks' = releaseLock(ops[o].resource, o)
    BY <1>1 DEF FinishTx
  <1>5. terminalEvent(out.status) \in Events
    BY DEF terminalEvent, Events
  <1> HIDE DEF o, out
  <1>6. /\ ops' \in [OpIds -> {AbsentOp} \cup Operation]
        /\ audit' \in [OpIds -> Seq(Events)]
        /\ wake' \in BOOLEAN
        /\ ops'[o] = Ended(o, out)
        /\ \E id \in OpIds : \A x \in OpIds \ {o} :
              \/ ops'[x] = ops[x]
              \/ /\ x = id /\ ~Known(x)
                 /\ ops'[x].status = "pending" /\ ops'[x].resource = ops[o].resource
                 /\ ops'[x].key = NoKey
    <2>0. ops \in [OpIds -> {AbsentOp} \cup Operation] /\ audit \in [OpIds -> Seq(Events)] /\ wake \in BOOLEAN
      BY DEF IInv, TypeOK
    <2>1. CASE ~planRetry(ops[o], out)
      <3>1. /\ ops' = [ops EXCEPT ![o] = Ended(o, out)] /\ wake' = wake
            /\ audit' = [audit EXCEPT ![o] = Append(@, terminalEvent(out.status))]
        BY <1>1, <2>1 DEF FinishTx
      <3>2. audit' \in [OpIds -> Seq(Events)]
        BY <1>1, <1>5, <2>0, <3>1
      <3>3. wake' \in BOOLEAN
        BY <2>0, <3>1
      <3> QED BY <1>1, <1>3, <2>0, <3>1, <3>2, <3>3
    <2>2. CASE planRetry(ops[o], out)
      <3>1. PICK id \in OpIds, delay \in 1..MaxBackoff :
               /\ NextId(id)
               /\ ops' = [ops EXCEPT ![o] = Ended(o, out), ![id] = AutoRetryOp(o, delay)]
               /\ audit' = [audit EXCEPT ![o] = Append(@, terminalEvent(out.status)),
                                         ![id] = <<"operation.retried">>]
        BY <1>1, <2>2 DEF FinishTx
      <3>2. /\ AutoRetryOp(o, delay) \in Operation /\ AutoRetryOp(o, delay).status = "pending"
            /\ AutoRetryOp(o, delay).resource = ops[o].resource
            /\ AutoRetryOp(o, delay).key = NoKey
        BY <1>1, <1>2, RetryRow
      <3>3. ~Known(id) /\ id # o
        BY <1>1, <3>1 DEF NextId, Free, Known
      <3>4. \A x \in OpIds : ops'[x] = IF x = id THEN AutoRetryOp(o, delay)
                                       ELSE IF x = o THEN Ended(o, out) ELSE ops[x]
        BY <2>0, <3>1, <3>3
      <3>5. ops' \in [OpIds -> {AbsentOp} \cup Operation]
        BY <1>3, <2>0, <3>1, <3>2
      <3>6. audit' \in [OpIds -> Seq(Events)]
        <4>1. <<"operation.retried">> \in Seq(Events)
          BY DEF Events
        <4>2. Append(audit[o], terminalEvent(out.status)) \in Seq(Events)
          BY <1>1, <1>5, <2>0
        <4> QED BY <1>1, <2>0, <3>1, <4>1, <4>2
      <3>7. wake' \in BOOLEAN
        BY <1>1, <2>2 DEF FinishTx
      <3> QED BY <1>1, <3>2, <3>3, <3>4, <3>5, <3>6, <3>7
    <2> QED BY <2>1, <2>2
  <1> QED BY <1>1, <1>2, <1>3, <1>4, <1>6 DEF o

LEMMA FinishStep ==
    ASSUME IInv, NEW w \in Workers, Finish(w)
    PROVE  IInv'
  <1> DEFINE o == cur[w]
  <1>1. /\ pc[w] = "finish" /\ o \in OpIds /\ ops[o].status = "running"
        /\ locks' = releaseLock(ops[o].resource, o)
        /\ ops' \in [OpIds -> {AbsentOp} \cup Operation]
        /\ audit' \in [OpIds -> Seq(Events)] /\ wake' \in BOOLEAN
        /\ ops'[o].status \in Terminal
        /\ \E id \in OpIds : \A x \in OpIds \ {o} :
              \/ ops'[x] = ops[x]
              \/ /\ x = id /\ ~Known(x)
                 /\ ops'[x].status = "pending" /\ ops'[x].resource = ops[o].resource
    <2>1. PICK id \in OpIds : \A x \in OpIds \ {o} :
             \/ ops'[x] = ops[x]
             \/ /\ x = id /\ ~Known(x)
                /\ ops'[x].status = "pending" /\ ops'[x].resource = ops[o].resource
                /\ ops'[x].key = NoKey
      BY FinishRows
    <2>2. \A x \in OpIds \ {o} :
             \/ ops'[x] = ops[x]
             \/ /\ x = id /\ ~Known(x)
                /\ ops'[x].status = "pending" /\ ops'[x].resource = ops[o].resource
      BY <2>1
    <2> QED BY <2>2, FinishRows DEF Finish
  <1> HIDE DEF o
  <1>2. /\ OneIncompletePerResource' /\ LockMatchesRunning' /\ RetriesOfEnded'
        /\ \A x \in OpIds \ {o} : Known(x) => ops'[x] = ops[x]
    <2>1. calls' = calls
      BY DEF Finish
    <2> QED BY <1>1, <2>1, EndKeeps
  <1>3. TypeOK'
    <2>1. pc' \in [Workers -> WorkerStates]
      BY DEF Finish, IInv, TypeOK, WorkerStates
    <2>2. locks' \in [Resources -> OpIds \cup {NoOp}]
      BY <1>1 DEF releaseLock, IInv, TypeOK
    <2> QED BY <1>1, <2>1, <2>2 DEF Finish, IInv, TypeOK
  <1>4. WorkersHoldRunning'
    <2>1. /\ \A v \in Workers : pc'[v] = IF v = w THEN "done" ELSE pc[v]
          /\ cur' = cur /\ daemon' = daemon /\ daemon # "down"
      BY DEF Finish, Serving, IInv, TypeOK
    <2>2. \A v \in Workers \ {w} : Executing(v) => cur[v] # o /\ cur[v] \in OpIds /\ Known(cur[v])
      BY <1>1 DEF IInv, WorkersHoldRunning, Executing, o, Known
    <2>3. \A v \in Workers : Executing(v)' => v # w /\ Executing(v)
      BY <2>1 DEF Executing
    <2>4. pc[w] = "finish" /\ o \in OpIds
      BY <1>1
    <2> QED BY <2>4, <1>2, <2>1, <2>2, <2>3 DEF IInv, WorkersHoldRunning, Executing, o
  <1> QED BY <1>2, <1>3, <1>4 DEF IInv

\* The rows after recovery: what was running has failed, what it was replayed
\* as is queued under a free id on the same resource, and nothing else changed.
LEMMA RecoveredRows ==
    ASSUME IInv, NEW f \in [Replayed -> OpIds], NEW delay \in [Replayed -> 1..MaxBackoff],
           FreshIds(f), RecoverRunning(f, delay)
    PROVE  /\ \A p \in Replayed :
                 /\ p \in OpIds /\ ops[p].status = "running" /\ f[p] \in OpIds /\ ~Known(f[p])
                 /\ ops'[f[p]] \in Operation /\ ops'[f[p]].status = "pending"
                 /\ ops'[f[p]].resource = ops[p].resource /\ ops'[f[p]].key = NoKey
           /\ \A x \in Stale :
                 ops'[x] \in Operation /\ ops'[x].status = "failed" /\ ops'[x].key = ops[x].key
           /\ \A x \in OpIds :
                 x \notin Stale /\ ~(\E p \in Replayed : f[p] = x) => ops'[x] = ops[x]
           /\ \A x \in OpIds : ops'[x].status \in Incomplete =>
                 \/ ops'[x] = ops[x] /\ ops[x].status = "pending"
                 \/ \E p \in Replayed : f[p] = x
  <1>1. FreshIds(f) /\ RecoverRunning(f, delay)
    OBVIOUS
  <1>2. /\ ops \in [OpIds -> {AbsentOp} \cup Operation] /\ audit \in [OpIds -> Seq(Events)]
        /\ locks \in [Resources -> OpIds \cup {NoOp}]
    BY DEF IInv, TypeOK
  <1>3. \A p \in Replayed : /\ p \in Stale /\ p \in OpIds /\ ops[p] \in Operation
                            /\ f[p] \in OpIds /\ ~Known(f[p])
    <2>1. \A p \in Replayed : p \in Stale /\ p \in OpIds /\ ops[p].status = "running"
      BY DEF Replayed, Stale
    <2>2. \A p \in Replayed : ops[p] \in Operation
      BY <2>1, KnownRow DEF IInv
    <2> QED BY <1>1, <2>1, <2>2 DEF FreshIds, Free
  <1>4. \A p, q \in Replayed : f[p] = f[q] => p = q
    <2>1. \A p, q \in Replayed : p < q => f[p] < f[q]
      BY <1>1 DEF FreshIds
    <2>2. \A p \in Replayed : p \in Int /\ f[p] \in Int
      BY <1>3, BoundsAssumption DEF OpIds
    <2> QED BY <2>1, <2>2
  <1>5. \A x \in Stale : /\ ops'[x] = Ended(x, RestartOutcome) /\ ops'[x] \in Operation
                         /\ ops'[x].status = "failed" /\ ops'[x].key = ops[x].key
    <2>1. RestartOutcome \in Outcomes /\ RestartOutcome.status = "failed"
      BY DEF RestartOutcome, Outcomes, Terminal, Codes, DefaultRetryableCodes
    <2> SUFFICES ASSUME NEW x \in Stale
                 PROVE  /\ ops'[x] = Ended(x, RestartOutcome) /\ ops'[x] \in Operation
                        /\ ops'[x].status = "failed" /\ ops'[x].key = ops[x].key
      OBVIOUS
    <2>2. x \in OpIds /\ ops[x].status = "running"
      BY DEF Stale
    <2>3. ops[x] \in Operation
      BY <2>2, KnownRow DEF IInv
    <2>4. ops'[x] = Ended(x, RestartOutcome)
      BY <1>1, <2>2 DEF RecoverRunning
    <2> QED BY <2>1, <2>2, <2>3, <2>4, EndedRow
  <1>6. \A p \in Replayed :
           /\ ops'[f[p]] \in Operation /\ ops'[f[p]].status = "pending"
           /\ ops'[f[p]].resource = ops[p].resource /\ ops'[f[p]].key = NoKey
    <2> SUFFICES ASSUME NEW p \in Replayed
                 PROVE  /\ ops'[f[p]] \in Operation /\ ops'[f[p]].status = "pending"
                        /\ ops'[f[p]].resource = ops[p].resource /\ ops'[f[p]].key = NoKey
      OBVIOUS
    <2>1. f[p] \in OpIds /\ f[p] \notin Stale
      BY <1>3 DEF Stale, Known
    <2>2. (CHOOSE q \in Replayed : f[q] = f[p]) = p
      BY <1>4
    <2>3. ops'[f[p]] = AutoRetryOp(p, delay[p])
      BY <1>1, <2>1, <2>2 DEF RecoverRunning
    <2>4. delay[p] \in 1..MaxBackoff
      BY <1>1
    <2> QED BY <1>3, <2>3, <2>4, RetryRow
  <1>7. \A x \in OpIds :
           x \notin Stale /\ ~(\E p \in Replayed : f[p] = x) => ops'[x] = ops[x]
    BY <1>1 DEF RecoverRunning
  <1>8. \A x \in OpIds : ops'[x].status \in Incomplete =>
           \/ ops'[x] = ops[x] /\ ops[x].status = "pending"
           \/ \E p \in Replayed : f[p] = x
    <2> SUFFICES ASSUME NEW x \in OpIds, ops'[x].status \in Incomplete,
                        ~(\E p \in Replayed : f[p] = x)
                 PROVE  ops'[x] = ops[x] /\ ops[x].status = "pending"
      OBVIOUS
    <2>1. x \notin Stale
      BY <1>5 DEF Incomplete
    <2> QED BY <1>7, <2>1 DEF Stale, Incomplete
  <1>9. \A p \in Replayed : p \in OpIds /\ ops[p].status = "running"
    BY DEF Replayed, Stale
  <1> QED BY <1>3, <1>5, <1>6, <1>7, <1>8, <1>9

LEMMA StartStep == ASSUME IInv, Start PROVE IInv'
  <1>1. PICK f \in [Replayed -> OpIds], delay \in [Replayed -> 1..MaxBackoff] :
           FreshIds(f) /\ RecoverRunning(f, delay)
    BY DEF Start
  <1>2. /\ ops \in [OpIds -> {AbsentOp} \cup Operation] /\ audit \in [OpIds -> Seq(Events)]
        /\ locks \in [Resources -> OpIds \cup {NoOp}]
    BY DEF IInv, TypeOK
  <1>3. \A p \in Replayed : f[p] \in OpIds /\ ~Known(f[p])
    BY <1>1, RecoveredRows
  <1>4. \A x \in Stale : ops'[x] \in Operation /\ ops'[x].status = "failed"
    BY <1>1, RecoveredRows
  <1>5. \A p \in Replayed :
           /\ ops'[f[p]] \in Operation /\ ops'[f[p]].status = "pending"
           /\ ops'[f[p]].resource = ops[p].resource
    BY <1>1, RecoveredRows
  <1>6. \A x \in OpIds :
           x \notin Stale /\ ~(\E p \in Replayed : f[p] = x) => ops'[x] = ops[x]
    BY <1>1, RecoveredRows
  <1>7. TypeOK'
    <2>1. ops' \in [OpIds -> {AbsentOp} \cup Operation]
      <3>1. \A x \in OpIds : ops'[x] \in {AbsentOp} \cup Operation
        BY <1>2, <1>4, <1>5, <1>6
      <3>2. ops' = [x \in OpIds |-> ops'[x]]
        BY <1>1 DEF RecoverRunning
      <3> QED BY <3>1, <3>2
    <2>2. locks' \in [Resources -> OpIds \cup {NoOp}]
      BY <1>1, <1>2 DEF RecoverRunning
    <2>3. audit' \in [OpIds -> Seq(Events)]
      <3>1. <<"operation.retried">> \in Seq(Events)
        BY DEF Events
      <3>2. \A x \in OpIds : Append(audit[x], "daemon.recovered") \in Seq(Events)
        BY <1>2 DEF Events
      <3> QED BY <1>1, <1>2, <3>1, <3>2 DEF RecoverRunning
    <2> QED BY <2>1, <2>2, <2>3 DEF IInv, TypeOK, Start, workerVars
  <1>8. \A x \in OpIds : ops'[x].status \in Incomplete =>
           \/ ops'[x] = ops[x] /\ ops[x].status = "pending"
           \/ \E p \in Replayed : f[p] = x
    BY <1>1, RecoveredRows
  <1>9. OneIncompletePerResource'
    <2> SUFFICES ASSUME NEW x \in OpIds, NEW y \in OpIds,
                        ops'[x].status \in Incomplete, ops'[y].status \in Incomplete,
                        ops'[x].resource = ops'[y].resource
                 PROVE  x = y
      BY DEF OneIncompletePerResource
    <2>0. \A p, q \in OpIds :
             ops[p].status = "running" /\ ops[q].status \in {"pending", "running"}
                /\ ops[p].resource = ops[q].resource => p = q
      BY DEF IInv, OneIncompletePerResource, Incomplete
    <2>1. \A p \in Replayed : p \in OpIds /\ ops[p].status = "running"
      BY DEF Replayed, Stale
    <2>2. CASE ops'[x] = ops[x] /\ ops[x].status = "pending" /\ ops'[y] = ops[y] /\ ops[y].status = "pending"
      BY <2>2 DEF IInv, OneIncompletePerResource, Incomplete
    <2>3. CASE ops'[x] = ops[x] /\ ops[x].status = "pending" /\ \E p \in Replayed : f[p] = y
      BY <1>5, <2>0, <2>1, <2>3
    <2>4. CASE ops'[y] = ops[y] /\ ops[y].status = "pending" /\ \E p \in Replayed : f[p] = x
      BY <1>5, <2>0, <2>1, <2>4
    <2>5. CASE (\E p \in Replayed : f[p] = x) /\ (\E q \in Replayed : f[q] = y)
      BY <1>5, <2>0, <2>1, <2>5
    <2> QED BY <1>8, <2>2, <2>3, <2>4, <2>5
  <1>10. LockMatchesRunning'
    <2> SUFFICES ASSUME NEW r \in Resources, NEW x \in OpIds
                 PROVE  locks'[r] = x <=> ops'[x].status = "running" /\ ops'[x].resource = r
      BY DEF LockMatchesRunning
    <2>1. ops'[x].status # "running"
      BY <1>5, <1>8 DEF Incomplete
    <2>2. locks[r] \in OpIds => locks[r] \in Stale /\ ops[locks[r]].resource = r
      BY DEF IInv, LockMatchesRunning, Stale
    <2>3. locks'[r] = IF \E o \in Stale : ops[o].resource = r /\ locks[r] = o THEN NoOp ELSE locks[r]
      BY <1>1 DEF RecoverRunning
    <2>4. locks'[r] = NoOp
      BY <1>2, <2>2, <2>3
    <2> QED BY <2>1, <2>4, NoOpAssumption
  <1>11. WorkersHoldRunning'
    BY DEF IInv, WorkersHoldRunning, Executing, Start, workerVars
  <1>12. RetriesOfEnded'
    <2> SUFFICES ASSUME NEW c \in calls', c.what = "retry" PROVE CanRetry(ops[c.op].status)'
      BY DEF RetriesOfEnded
    <2>1. c \in calls /\ c.op \in OpIds /\ CanRetry(ops[c.op].status)
      BY DEF IInv, TypeOK, CallType, RetriesOfEnded, Start
    <2>2. ops'[c.op] = ops[c.op]
      BY <1>3, <1>6, <2>1 DEF Stale, Known, CanRetry
    <2> QED BY <2>1, <2>2
  <1> QED BY <1>7, <1>9, <1>10, <1>11, <1>12 DEF IInv
-----------------------------------------------------------------------------
LEMMA NextInv == IInv /\ [Next]_vars => IInv'
  <1> SUFFICES ASSUME IInv, [Next]_vars PROVE IInv'
    OBVIOUS
  <1>1. CASE Request
    BY <1>1, CreateStep, CancelStep, RetryReadStep DEF Request
  <1>2. CASE Answer
    BY <1>2, CancelSignalStep, RetryCreateStep, RetryAuditStep DEF Answer
  <1>3. CASE \E w \in Workers : WorkerStep(w)
    BY <1>3, WorkerMoveStep, ClaimStep, FinishStep DEF WorkerStep
  <1>4. CASE Tick \/ Shutdown \/ Exit \/ Start
    BY <1>4, TickStep, ShutdownStep, StartStep
  <1>5. CASE UNCHANGED vars
    BY <1>5, StutterStep
  <1> QED BY <1>1, <1>2, <1>3, <1>4, <1>5 DEF Next

\* The inductive invariant of the engine.
THEOREM EngineInvariant == Spec => []IInv
  BY InitInv, NextInv, PTL DEF Spec

\* Every variable keeps its type, for any number of rows, workers, handlers.
THEOREM TypeCorrect == Spec => []TypeOK
  <1>1. IInv => TypeOK
    BY DEF IInv
  <1> QED BY <1>1, EngineInvariant, PTL

\* The contract of hasIncompleteOperation: never two pending or running
\* operations on one resource, automatic retries and recovery included.
THEOREM OneAtATimePerResource == Spec => []OneIncompletePerResource
  <1>1. IInv => OneIncompletePerResource
    BY DEF IInv
  <1> QED BY <1>1, EngineInvariant, PTL

\* resource_locks never disagrees with the running rows, crashes included.
THEOREM LocksMatchRunning == Spec => []LockMatchesRunning
  <1>1. IInv => LockMatchesRunning
    BY DEF IInv
  <1> QED BY <1>1, EngineInvariant, PTL

\* Two workers never execute operations of one resource at the same time.
THEOREM MutualExclusion == Spec => []ExclusiveExecution
  <1>1. IInv => ExclusiveExecution
    <2> SUFFICES ASSUME IInv PROVE ExclusiveExecution
      OBVIOUS
    <2>1. \A w \in Workers : Executing(w) => cur[w] \in OpIds /\ ops[cur[w]].status = "running"
      BY DEF IInv, WorkersHoldRunning, Executing
    <2>2. \A v, w \in Workers :
             /\ Executing(v) /\ Executing(w)
             /\ ops[cur[v]].resource = ops[cur[w]].resource
             => cur[v] = cur[w]
      BY <2>1 DEF IInv, OneIncompletePerResource, Incomplete
    <2>3. \A v, w \in Workers : Executing(v) /\ Executing(w) /\ cur[v] = cur[w] => v = w
      BY DEF IInv, WorkersHoldRunning
    <2> QED BY <2>1, <2>2, <2>3 DEF ExclusiveExecution
  <1> QED BY <1>1, EngineInvariant, PTL

-----------------------------------------------------------------------------
(* Statuses and idempotency keys *)

\* What one step may do to the rows: a status changes as CanTransition allows,
\* a key stays, and a row that is added has no key or one nobody had.
RowOf(o) ==
    /\ Known(o) => /\ ops'[o].key = ops[o].key
                   /\ ops'[o].status = ops[o].status \/ CanTransition(ops[o].status, ops'[o].status)
                   /\ ops'[o].status # "absent"
    /\ ~Known(o) => \/ ops'[o].status = "absent"
                    \/ ops'[o].key = NoKey
                    \/ ~KeyInUse(ops'[o].key) /\ \A p \in OpIds \ {o} : ops'[p] = ops[p]
RowsStep == \A o \in OpIds : RowOf(o)

LEMMA SameRows ==
    ASSUME \A o \in OpIds : ops'[o].status = ops[o].status /\ ops'[o].key = ops[o].key
    PROVE  RowsStep
  BY DEF RowsStep, RowOf, Known

LEMMA CreateRows ==
    ASSUME IInv, NEW r \in Resources, NEW k \in Kinds, NEW p \in Policies,
           NEW key \in Keys \cup {NoKey}, Create(r, k, p, key)
    PROVE  RowsStep
  <1>1. PICK id \in OpIds : NextId(id) /\ ops' = [ops EXCEPT ![id] = NewOp(r, k, p, key)]
    BY DEF Create
  <1>2. NewOp(r, k, p, key).key = key
    BY DEF NewOp, PendingRow
  <1>3. /\ ~Known(id) /\ ops'[id].key = key
        /\ \A o \in OpIds \ {id} : ops'[o] = ops[o]
    BY <1>1, <1>2 DEF NextId, Free, IInv, TypeOK
  <1>4. key = NoKey \/ ~KeyInUse(key)
    BY DEF Create
  <1> QED BY <1>3, <1>4 DEF RowsStep, RowOf, Known

LEMMA RetryRows ==
    ASSUME IInv, NEW o \in OpIds, RetryCreate(o)
    PROVE  RowsStep
  <1>1. CASE ops' = ops
    BY <1>1, SameRows
  <1>2. CASE \E id \in OpIds : NextId(id) /\ ops' = [ops EXCEPT ![id] = ManualRetryOp(o)]
    <2>1. PICK id \in OpIds : NextId(id) /\ ops' = [ops EXCEPT ![id] = ManualRetryOp(o)]
      BY <1>2
    <2>2. ManualRetryOp(o).key = NoKey
      BY DEF ManualRetryOp, PendingRow
    <2>3. /\ ~Known(id) /\ ops'[id].key = NoKey
          /\ \A x \in OpIds \ {id} : ops'[x] = ops[x]
      BY <2>1, <2>2 DEF NextId, Free, IInv, TypeOK
    <2> QED BY <2>3 DEF RowsStep, RowOf, Known
  <1> QED BY <1>1, <1>2 DEF RetryCreate

\* One row changes its status and nothing else.
LEMMA OneStatus ==
    ASSUME IInv, NEW o \in OpIds, NEW s, s # "absent", CanTransition(ops[o].status, s),
           ops' = [ops EXCEPT ![o].status = s]
    PROVE  RowsStep
  <1>1. ops[o] \in Operation
    BY KnownRow DEF IInv, CanTransition
  <1>2. /\ ops'[o].status = s /\ ops'[o].key = ops[o].key
        /\ \A x \in OpIds \ {o} : ops'[x] = ops[x]
    BY <1>1 DEF IInv, TypeOK, Operation
  <1>3. ops[o].status # "absent"
    BY DEF CanTransition
  <1> QED BY <1>2, <1>3 DEF RowsStep, RowOf, Known

LEMMA EndRows ==
    ASSUME IInv, NEW w \in Workers, Finish(w)
    PROVE  RowsStep
  <1>1. PICK o \in OpIds :
          /\ ops[o].status = "running" /\ ops'[o].status \in Terminal /\ ops'[o].key = ops[o].key
          /\ \E id \in OpIds : \A x \in OpIds \ {o} :
                \/ ops'[x] = ops[x]
                \/ /\ x = id /\ ~Known(x)
                   /\ ops'[x].status = "pending" /\ ops'[x].resource = ops[o].resource
                   /\ ops'[x].key = NoKey
    BY FinishRows
  <1>2. RowOf(o)
    BY <1>1 DEF RowOf, Known, CanTransition, Terminal
  <1>3. ASSUME NEW x \in OpIds \ {o} PROVE RowOf(x)
    <2>1. CASE ops'[x] = ops[x]
      BY <2>1 DEF RowOf, Known
    <2>2. CASE ~Known(x) /\ ops'[x].key = NoKey
      BY <2>2 DEF RowOf
    <2> QED BY <1>1, <2>1, <2>2
  <1> QED BY <1>2, <1>3 DEF RowsStep

LEMMA StartRows == ASSUME IInv, Start PROVE RowsStep
  <1>1. PICK f \in [Replayed -> OpIds], delay \in [Replayed -> 1..MaxBackoff] :
           FreshIds(f) /\ RecoverRunning(f, delay)
    BY DEF Start
  <1>2. ASSUME NEW x \in OpIds PROVE RowOf(x)
    <2>1. CASE x \in Stale
      <3>1. ops'[x].status = "failed" /\ ops'[x].key = ops[x].key /\ ops[x].status = "running"
        BY <1>1, <2>1, RecoveredRows DEF Stale
      <3> QED BY <3>1 DEF RowOf, Known, CanTransition
    <2>2. CASE \E p \in Replayed : f[p] = x
      <3>1. ~Known(x) /\ ops'[x].key = NoKey
        BY <1>1, <2>2, RecoveredRows
      <3> QED BY <3>1 DEF RowOf
    <2>3. CASE x \notin Stale /\ ~(\E p \in Replayed : f[p] = x)
      <3>1. ops'[x] = ops[x]
        BY <1>1, <2>3, RecoveredRows
      <3> QED BY <3>1 DEF RowOf, Known
    <2> QED BY <2>1, <2>2, <2>3
  <1> QED BY <1>2 DEF RowsStep

\* A tick changes nothing of a row but its backoff.
LEMMA TickKeeps ==
    ASSUME TypeOK, Tick, NEW o \in OpIds
    PROVE  /\ ops'[o].status = ops[o].status /\ ops'[o].code = ops[o].code
           /\ ops'[o].policy = ops[o].policy /\ ops'[o].attempt = ops[o].attempt
           /\ ops'[o].auto = ops[o].auto /\ ops'[o].retryOf = ops[o].retryOf
           /\ ops'[o].key = ops[o].key
  <1>1. ops'[o] = IF ops[o].backoff > 0 THEN [ops[o] EXCEPT !.backoff = @ - 1] ELSE ops[o]
    BY DEF Tick
  <1>2. CASE ops[o] \in Operation
    BY <1>1, <1>2 DEF Operation
  <1>3. CASE ops[o] = AbsentOp
    <2>1. AbsentOp.backoff = 0
      BY DEF AbsentOp
    <2> QED BY <1>1, <1>3, <2>1
  <1> QED BY <1>2, <1>3 DEF TypeOK

LEMMA TickRows == ASSUME IInv, Tick PROVE RowsStep
  BY TickKeeps, SameRows DEF IInv

LEMMA EveryStepOnRows == IInv /\ [Next]_vars => RowsStep
  <1> SUFFICES ASSUME IInv, [Next]_vars PROVE RowsStep
    OBVIOUS
  <1>1. CASE ops' = ops
    BY <1>1, SameRows
  <1>2. CASE Request
    <2>1. ASSUME NEW o \in OpIds, Cancel(o) PROVE RowsStep
      BY <1>1, <2>1, OneStatus DEF Cancel, CancelPending, CancelRunning, CanTransition
    <2> QED BY <1>1, <1>2, <2>1, CreateRows DEF Request, RetryRead, dbVars
  <1>3. CASE Answer
    BY <1>1, <1>3, RetryRows DEF Answer, CancelSignal, RetryAudit, dbVars
  <1>4. ASSUME NEW w \in Workers, WorkerStep(w) PROVE RowsStep
    <2>1. CASE Claim(w)
      BY <2>1, OneStatus DEF Claim, ClaimNextPending, Runnable, CanTransition
    <2> QED BY <1>1, <1>4, <2>1, EndRows
            DEF WorkerStep, WakeUp, NothingToDo, Register, Run, FinishRefused, Unregister, dbVars
  <1>5. CASE Tick \/ Shutdown \/ Exit \/ Start \/ UNCHANGED vars
    BY <1>1, <1>5, TickRows, StartRows DEF Shutdown, Exit, vars, dbVars
  <1> QED BY <1>2, <1>3, <1>4, <1>5 DEF Next

\* Every change of a status is one that domain/operation.go allows, although no
\* SQL statement consults CanTransition; a terminal status never changes.
THEOREM StatusStateMachine == Spec => StatusFollowsStateMachine
  <1>1. IInv /\ [Next]_vars =>
          [\A o \in OpIds : Known(o) /\ ops'[o].status # ops[o].status
                              => CanTransition(ops[o].status, ops'[o].status)]_vars
    <2> SUFFICES ASSUME RowsStep, NEW o \in OpIds, Known(o), ops'[o].status # ops[o].status
                 PROVE  CanTransition(ops[o].status, ops'[o].status)
      BY EveryStepOnRows
    <2> QED BY DEF RowsStep, RowOf
  <1> QED BY <1>1, EngineInvariant, PTL DEF Spec, StatusFollowsStateMachine

\* An idempotency key names one operation: the unique index of migration 0001 is
\* never what stops an insert.
THEOREM KeysName == Spec => []KeyNamesOneOperation
  <1>1. Init => KeyNamesOneOperation
    <2> SUFFICES ASSUME Init, NEW o \in OpIds PROVE ~Known(o)
      BY DEF KeyNamesOneOperation
    <2>1. ops[o] = AbsentOp
      BY DEF Init
    <2>2. AbsentOp.status = "absent"
      BY DEF AbsentOp
    <2> QED BY <2>1, <2>2 DEF Known
  <1>2. IInv /\ KeyNamesOneOperation /\ [Next]_vars => KeyNamesOneOperation'
    <2> SUFFICES ASSUME IInv, KeyNamesOneOperation, [Next]_vars PROVE KeyNamesOneOperation'
      OBVIOUS
    <2>0. RowsStep
      BY EveryStepOnRows
    <2> SUFFICES ASSUME NEW o \in OpIds, NEW p \in OpIds, Known(o)', Known(p)',
                        ops'[o].key = ops'[p].key, ops'[o].key # NoKey
                 PROVE  o = p
      BY DEF KeyNamesOneOperation
    <2>1. RowOf(o) /\ RowOf(p) /\ ops'[o].status # "absent" /\ ops'[p].status # "absent"
      BY <2>0 DEF RowsStep, Known
    <2>2. CASE Known(o) /\ Known(p)
      BY <2>1, <2>2 DEF RowOf, KeyNamesOneOperation
    <2>3. CASE Known(o) /\ ~Known(p)
      BY <2>1, <2>3 DEF RowOf, KeyInUse, Known
    <2>4. CASE ~Known(o) /\ Known(p)
      BY <2>1, <2>4 DEF RowOf, KeyInUse, Known
    <2>5. CASE ~Known(o) /\ ~Known(p)
      BY <2>1, <2>5 DEF RowOf, KeyInUse, Known
    <2> QED BY <2>2, <2>3, <2>4, <2>5
  <1> QED BY <1>1, <1>2, EngineInvariant, PTL DEF Spec
-----------------------------------------------------------------------------
(* The chain of automatic retries *)

\* The failure of o calls for a next attempt; p is the one the engine stored.
Due(o)        == ops[o].status = "failed" /\ planRetryFor(ops[o], ops[o].code)
Follows(p, o) == ops[p].auto /\ ops[p].retryOf = o

\* A next attempt is stored exactly for the failures that call for one, once.
ChainInv ==
    /\ \A o, p \in OpIds : Follows(p, o) => Due(o)
    /\ \A o \in OpIds : Due(o) => \E p \in OpIds : Follows(p, o)
    /\ \A o, p, q \in OpIds : Follows(p, o) /\ Follows(q, o) => p = q

\* An id that was not handed out is the empty record, and follows nothing.
LEMMA AbsentRow ==
    ASSUME TypeOK, NEW o \in OpIds, ~Known(o)
    PROVE  ops[o] = AbsentOp /\ ~ops[o].auto /\ ~Due(o)
  <1>1. ops[o] \in Operation => ops[o].status \in Statuses
    BY DEF Operation
  <1>2. ops[o] = AbsentOp
    BY <1>1 DEF TypeOK, Known, Statuses
  <1>3. AbsentOp.auto = FALSE /\ AbsentOp.status = "absent"
    BY DEF AbsentOp
  <1>4. ~Due(o)
    BY <1>2, <1>3 DEF Due
  <1> QED BY <1>2, <1>3, <1>4

\* The rows of R fail, each with its next attempt stored with the failure.
LEMMA ChainGrows ==
    ASSUME ChainInv, NEW R \in SUBSET OpIds, NEW f \in [R -> OpIds],
           \A o \in R : ~Due(o),
           \A o \in OpIds : Due(o)' <=> Due(o) \/ o \in R,
           \A o, p \in OpIds : Follows(p, o)' <=> Follows(p, o) \/ (o \in R /\ p = f[o])
    PROVE  ChainInv'
  <1>1. \A o, p \in OpIds : Follows(p, o) => Due(o)
    BY Zenon DEF ChainInv
  <1>2. \A o \in OpIds : Due(o) => \E p \in OpIds : Follows(p, o)
    BY Zenon DEF ChainInv
  <1>3. \A o, p, q \in OpIds : Follows(p, o) /\ Follows(q, o) => p = q
    BY Zenon DEF ChainInv
  <1>4. (\A o, p \in OpIds : Follows(p, o) => Due(o))'
    BY <1>1
  <1>5. (\A o \in OpIds : Due(o) => \E p \in OpIds : Follows(p, o))'
    BY <1>2
  <1>6. (\A o, p, q \in OpIds : Follows(p, o) /\ Follows(q, o) => p = q)'
    BY <1>1, <1>3
  <1> QED BY <1>4, <1>5, <1>6 DEF ChainInv

\* No failure and no automatic row is added.
LEMMA ChainSame ==
    ASSUME ChainInv,
           \A o \in OpIds : Due(o)' <=> Due(o),
           \A o, p \in OpIds : Follows(p, o)' <=> Follows(p, o)
    PROVE  ChainInv'
  <1>1. \A o, p \in OpIds : Follows(p, o) => Due(o)
    BY Zenon DEF ChainInv
  <1>2. \A o \in OpIds : Due(o) => \E p \in OpIds : Follows(p, o)
    BY Zenon DEF ChainInv
  <1>3. \A o, p, q \in OpIds : Follows(p, o) /\ Follows(q, o) => p = q
    BY Zenon DEF ChainInv
  <1>4. (\A o, p \in OpIds : Follows(p, o) => Due(o))'
    BY <1>1
  <1>5. (\A o \in OpIds : Due(o) => \E p \in OpIds : Follows(p, o))'
    BY <1>2
  <1>6. (\A o, p, q \in OpIds : Follows(p, o) /\ Follows(q, o) => p = q)'
    BY <1>3
  <1> QED BY <1>4, <1>5, <1>6 DEF ChainInv

\* What a request or a manual retry inserts is not due and follows nothing.
LEMMA InsertChain ==
    ASSUME TypeOK, ChainInv, NEW id \in OpIds, ~Known(id), NEW row,
           row.status = "pending", ~row.auto, ops' = [ops EXCEPT ![id] = row]
    PROVE  ChainInv'
  <1>1. \A o \in OpIds : ops'[o] = IF o = id THEN row ELSE ops[o]
    BY DEF TypeOK
  <1>2. ~ops[id].auto /\ ~Due(id)
    BY AbsentRow
  <1>3. \A o \in OpIds : Due(o)' <=> Due(o)
    BY <1>1, <1>2 DEF Due
  <1>4. \A o, p \in OpIds : Follows(p, o)' <=> Follows(p, o)
    BY <1>1, <1>2 DEF Follows
  <1> QED BY <1>3, <1>4, ChainSame

\* A status changes among those that call for nothing.
LEMMA StatusChain ==
    ASSUME TypeOK, ChainInv, NEW o \in OpIds, NEW s \in {"running", "cancelled"},
           ops[o].status = "pending",
           ops' = [ops EXCEPT ![o].status = s]
    PROVE  ChainInv'
  <1>1. ops[o] \in Operation
    BY KnownRow
  <1>2. /\ \A x \in OpIds \ {o} : ops'[x] = ops[x]
        /\ ops'[o].status = s /\ ops'[o].auto = ops[o].auto /\ ops'[o].retryOf = ops[o].retryOf
    BY <1>1 DEF TypeOK, Operation
  <1>3. \A x \in OpIds : Due(x)' <=> Due(x)
    BY <1>2 DEF Due
  <1>4. \A x, p \in OpIds : Follows(p, x)' <=> Follows(p, x)
    BY <1>2 DEF Follows
  <1> QED BY <1>3, <1>4, ChainSame

\* Waiting out a backoff.
LEMMA TickChain == ASSUME TypeOK, ChainInv, Tick PROVE ChainInv'
  <1>2. \A o \in OpIds : Due(o)' <=> Due(o)
    BY TickKeeps DEF Due, planRetryFor, Retryable, Enabled
  <1>3. \A x, p \in OpIds : Follows(p, x)' <=> Follows(p, x)
    BY TickKeeps DEF Follows
  <1> QED BY <1>2, <1>3, ChainSame

\* The row an execution ends is due exactly when planRetry says so.
LEMMA EndedDue ==
    ASSUME NEW o \in OpIds, ops[o] \in Operation, NEW out \in Outcomes
    PROVE  /\ Ended(o, out).auto = ops[o].auto /\ Ended(o, out).retryOf = ops[o].retryOf
           /\ (Ended(o, out).status = "failed"
                 /\ planRetryFor(Ended(o, out), Ended(o, out).code)) <=> planRetry(ops[o], out)
  <1>1. /\ Ended(o, out).auto = ops[o].auto /\ Ended(o, out).retryOf = ops[o].retryOf
        /\ Ended(o, out).policy = ops[o].policy /\ Ended(o, out).attempt = ops[o].attempt
        /\ Ended(o, out).status = out.status /\ Ended(o, out).code = out.code
    BY DEF Ended, Operation
  <1> QED BY <1>1 DEF planRetry, planRetryFor, Retryable, Enabled

\* The terminal write of a worker.
LEMMA FinishChain ==
    ASSUME IInv, ChainInv, NEW w \in Workers, Finish(w)
    PROVE  ChainInv'
  <1> DEFINE o == cur[w]
             out == outcome[w]
  <1>1. /\ o \in OpIds /\ ops[o] \in Operation /\ ops[o].status = "running"
        /\ out \in Outcomes /\ FinishTx(o, out) /\ TypeOK
    BY FinishRows DEF Finish, IInv, TypeOK
  <1> HIDE DEF o, out
  <1>2. /\ Ended(o, out).auto = ops[o].auto /\ Ended(o, out).retryOf = ops[o].retryOf
        /\ (Ended(o, out).status = "failed"
              /\ planRetryFor(Ended(o, out), Ended(o, out).code)) <=> planRetry(ops[o], out)
    BY <1>1, EndedDue
  <1>3. ~Due(o)
    BY <1>1 DEF Due
  <1>4. CASE ~planRetry(ops[o], out)
    <2>1. ops' = [ops EXCEPT ![o] = Ended(o, out)]
      BY <1>1, <1>4 DEF FinishTx
    <2>2. \A x \in OpIds : ops'[x] = IF x = o THEN Ended(o, out) ELSE ops[x]
      BY <1>1, <2>1 DEF TypeOK
    <2>3. \A x \in OpIds : Due(x)' <=> Due(x)
      BY <1>2, <1>3, <1>4, <2>2 DEF Due
    <2>4. \A x, p \in OpIds : Follows(p, x)' <=> Follows(p, x)
      BY <1>2, <2>2 DEF Follows
    <2> QED BY <2>3, <2>4, ChainSame
  <1>5. CASE planRetry(ops[o], out)
    <2>1. PICK id \in OpIds, delay \in 1..MaxBackoff :
             NextId(id) /\ ops' = [ops EXCEPT ![o] = Ended(o, out), ![id] = AutoRetryOp(o, delay)]
      BY <1>1, <1>5 DEF FinishTx
    <2>2. ~Known(id) /\ id # o
      BY <1>1, <2>1 DEF NextId, Free, Known
    <2>3. ~ops[id].auto /\ ~Due(id)
      BY <1>1, <2>2, AbsentRow
    <2>4. /\ AutoRetryOp(o, delay).auto = TRUE /\ AutoRetryOp(o, delay).retryOf = o
          /\ AutoRetryOp(o, delay).status = "pending"
      BY DEF AutoRetryOp, PendingRow
    <2>5. \A x \in OpIds : ops'[x] = IF x = id THEN AutoRetryOp(o, delay)
                                     ELSE IF x = o THEN Ended(o, out) ELSE ops[x]
      BY <1>1, <2>1, <2>2 DEF TypeOK
    <2> DEFINE f == [x \in {o} |-> id]
    <2>6. {o} \in SUBSET OpIds /\ f \in [{o} -> OpIds] /\ f[o] = id /\ \A x \in {o} : ~Due(x)
      BY <1>1, <1>3
    <2> HIDE DEF f
    <2>7. \A x \in OpIds : Due(x)' <=> Due(x) \/ x \in {o}
      BY <1>1, <1>2, <1>5, <2>2, <2>3, <2>4, <2>5 DEF Due
    <2>8. \A x, p \in OpIds : Follows(p, x)' <=> Follows(p, x) \/ (x \in {o} /\ p = f[x])
      BY <1>2, <2>2, <2>3, <2>4, <2>5, <2>6 DEF Follows
    <2> QED BY <2>6, <2>7, <2>8, ChainGrows
  <1> QED BY <1>4, <1>5

\* Recovery fails the running rows and stores the next attempts of those that
\* are replayed, all in one transaction.
LEMMA StartChain == ASSUME IInv, ChainInv, Start PROVE ChainInv'
  <1>1. PICK f \in [Replayed -> OpIds], delay \in [Replayed -> 1..MaxBackoff] :
           FreshIds(f) /\ RecoverRunning(f, delay)
    BY DEF Start
  <1>2. TypeOK /\ RestartOutcome \in Outcomes
        /\ RestartOutcome.status = "failed" /\ RestartOutcome.code = "DAEMON_RESTARTED"
    BY DEF IInv, RestartOutcome, Outcomes, Terminal, Codes, DefaultRetryableCodes
  <1>3. \A p \in Replayed : /\ p \in OpIds /\ p \in Stale /\ f[p] \in OpIds /\ ~Known(f[p])
    BY <1>1, RecoveredRows DEF Stale
  <1>4. \A p, q \in Replayed : f[p] = f[q] => p = q
    <2>1. \A p, q \in Replayed : p < q => f[p] < f[q]
      BY <1>1 DEF FreshIds
    <2>2. \A p \in Replayed : p \in Int /\ f[p] \in Int
      BY <1>3, BoundsAssumption DEF OpIds
    <2> QED BY <2>1, <2>2
  <1>5. ASSUME NEW x \in Stale
        PROVE  /\ x \in OpIds /\ ~Due(x) /\ (Due(x)' <=> x \in Replayed)
               /\ ops'[x].auto = ops[x].auto /\ ops'[x].retryOf = ops[x].retryOf
    <2>1. x \in OpIds /\ ops[x].status = "running"
      BY DEF Stale
    <2>2. ops[x] \in Operation
      BY <1>2, <2>1, KnownRow
    <2>3. ops'[x] = Ended(x, RestartOutcome)
      BY <1>1, <2>1 DEF RecoverRunning
    <2>4. planRetry(ops[x], RestartOutcome) <=> x \in Replayed
      BY <1>2 DEF planRetry, Replayed
    <2>5. /\ Ended(x, RestartOutcome).auto = ops[x].auto
          /\ Ended(x, RestartOutcome).retryOf = ops[x].retryOf
          /\ (Ended(x, RestartOutcome).status = "failed"
                /\ planRetryFor(Ended(x, RestartOutcome), Ended(x, RestartOutcome).code))
             <=> planRetry(ops[x], RestartOutcome)
      BY <1>2, <2>1, <2>2, EndedDue
    <2> QED BY <2>1, <2>3, <2>4, <2>5 DEF Due
  <1>6. ASSUME NEW p \in Replayed
        PROVE  /\ ops'[f[p]].auto = TRUE /\ ops'[f[p]].retryOf = p
               /\ ops'[f[p]].status = "pending" /\ ~ops[f[p]].auto /\ ~Due(f[p])
               /\ f[p] \notin Stale
    <2>1. f[p] \in OpIds /\ ~Known(f[p]) /\ f[p] \notin Stale
      BY <1>3 DEF Stale, Known
    <2>2. (CHOOSE q \in Replayed : f[q] = f[p]) = p
      BY <1>4
    <2>3. ops'[f[p]] = AutoRetryOp(p, delay[p])
      BY <1>1, <2>1, <2>2 DEF RecoverRunning
    <2>4. ~ops[f[p]].auto /\ ~Due(f[p])
      BY <1>2, <2>1, AbsentRow
    <2>5. /\ AutoRetryOp(p, delay[p]).auto = TRUE /\ AutoRetryOp(p, delay[p]).retryOf = p
          /\ AutoRetryOp(p, delay[p]).status = "pending"
      BY DEF AutoRetryOp, PendingRow
    <2> QED BY <2>1, <2>3, <2>4, <2>5
  <1>7. \A x \in OpIds : x \notin Stale /\ ~(\E p \in Replayed : f[p] = x) => ops'[x] = ops[x]
    BY <1>1, RecoveredRows
  <1>8. \A x \in OpIds : Due(x)' <=> Due(x) \/ x \in Replayed
    <2> SUFFICES ASSUME NEW x \in OpIds PROVE Due(x)' <=> Due(x) \/ x \in Replayed
      OBVIOUS
    <2>1. CASE x \in Stale
      BY <1>5, <2>1
    <2>2. CASE \E p \in Replayed : f[p] = x
      <3>1. PICK p \in Replayed : f[p] = x
        BY <2>2
      <3>2. ops'[x].status = "pending" /\ ~Due(x) /\ x \notin Stale
        BY <1>6, <3>1
      <3>3. x \notin Replayed
        BY <1>3, <3>2
      <3>4. ~Due(x)'
        BY <3>2 DEF Due
      <3> QED BY <3>2, <3>3, <3>4
    <2>3. CASE x \notin Stale /\ ~(\E p \in Replayed : f[p] = x)
      BY <1>3, <1>7, <2>3 DEF Due
    <2> QED BY <2>1, <2>2, <2>3
  <1>9. \A x, p \in OpIds : Follows(p, x)' <=> Follows(p, x) \/ (x \in Replayed /\ p = f[x])
    <2> SUFFICES ASSUME NEW x \in OpIds, NEW p \in OpIds
                 PROVE  Follows(p, x)' <=> Follows(p, x) \/ (x \in Replayed /\ p = f[x])
      OBVIOUS
    <2>1. CASE p \in Stale
      BY <1>5, <1>6, <2>1 DEF Follows
    <2>2. CASE \E q \in Replayed : f[q] = p
      <3>1. PICK q \in Replayed : f[q] = p
        BY <2>2
      <3>2. ops'[p].auto = TRUE /\ ops'[p].retryOf = q /\ ~ops[p].auto
        BY <1>6, <3>1
      <3>3. Follows(p, x)' <=> x = q
        BY <3>2 DEF Follows
      <3>4. ~Follows(p, x)
        BY <3>2 DEF Follows
      <3>5. (x \in Replayed /\ p = f[x]) <=> x = q
        BY <1>4, <3>1
      <3> QED BY <3>3, <3>4, <3>5
    <2>3. CASE p \notin Stale /\ ~(\E q \in Replayed : f[q] = p)
      BY <1>7, <2>3 DEF Follows
    <2> QED BY <2>1, <2>2, <2>3
  <1>10. Replayed \in SUBSET OpIds /\ \A x \in Replayed : ~Due(x)
    BY <1>3, <1>5
  <1> QED BY <1>8, <1>9, <1>10, ChainGrows

LEMMA ChainStep == IInv /\ ChainInv /\ [Next]_vars => ChainInv'
  <1> SUFFICES ASSUME IInv, ChainInv, [Next]_vars PROVE ChainInv'
    OBVIOUS
  <1>0. TypeOK
    BY DEF IInv
  <1>1. CASE ops' = ops
    <2>1. \A o \in OpIds : Due(o)' <=> Due(o)
      BY <1>1 DEF Due
    <2>2. \A o, p \in OpIds : Follows(p, o)' <=> Follows(p, o)
      BY <1>1 DEF Follows
    <2> QED BY <2>1, <2>2, ChainSame
  <1>2. CASE Request
    <2>1. ASSUME NEW o \in OpIds, Cancel(o) PROVE ChainInv'
      <3>1. CASE CancelPending(o)
        <4>1. "cancelled" \in {"running", "cancelled"}
          OBVIOUS
        <4> QED BY <1>0, <3>1, <4>1, StatusChain DEF CancelPending
      <3>2. CASE CancelRunning(o)
        BY <1>1, <3>2 DEF CancelRunning
      <3> QED BY <2>1, <3>1, <3>2 DEF Cancel
    <2>2. ASSUME NEW r \in Resources, NEW k \in Kinds, NEW p \in Policies,
                 NEW key \in Keys \cup {NoKey}, Create(r, k, p, key)
          PROVE  ChainInv'
      <3>1. PICK id \in OpIds : NextId(id) /\ ops' = [ops EXCEPT ![id] = NewOp(r, k, p, key)]
        BY <2>2 DEF Create
      <3>2. ~Known(id) /\ NewOp(r, k, p, key).status = "pending" /\ ~NewOp(r, k, p, key).auto
        BY <3>1 DEF NextId, Free, NewOp, PendingRow
      <3> QED BY <1>0, <3>1, <3>2, InsertChain
    <2> QED BY <1>1, <1>2, <2>1, <2>2 DEF Request, RetryRead, dbVars
  <1>3. CASE Answer
    <2>1. ASSUME NEW o \in OpIds, RetryCreate(o) PROVE ChainInv'
      <3>1. CASE ops' # ops
        <4>1. PICK id \in OpIds : NextId(id) /\ ops' = [ops EXCEPT ![id] = ManualRetryOp(o)]
          BY <2>1, <3>1 DEF RetryCreate
        <4>2. ~Known(id) /\ ManualRetryOp(o).status = "pending" /\ ~ManualRetryOp(o).auto
          BY <4>1 DEF NextId, Free, ManualRetryOp, PendingRow
        <4> QED BY <1>0, <4>1, <4>2, InsertChain
      <3> QED BY <1>1, <3>1
    <2> QED BY <1>1, <1>3, <2>1 DEF Answer, CancelSignal, RetryAudit, dbVars
  <1>4. ASSUME NEW w \in Workers, WorkerStep(w) PROVE ChainInv'
    <2>1. CASE Claim(w)
      <3>1. "running" \in {"running", "cancelled"}
        OBVIOUS
      <3> QED BY <1>0, <2>1, <3>1, StatusChain DEF Claim, ClaimNextPending, Runnable
    <2> QED BY <1>1, <1>4, <2>1, FinishChain
            DEF WorkerStep, WakeUp, NothingToDo, Register, Run, FinishRefused, Unregister, dbVars
  <1>5. CASE Tick \/ Shutdown \/ Exit \/ Start \/ UNCHANGED vars
    BY <1>0, <1>1, <1>5, TickChain, StartChain DEF Shutdown, Exit, vars, dbVars
  <1> QED BY <1>2, <1>3, <1>4, <1>5 DEF Next

\* The next attempt is stored with the failure that calls for it: no crash loses
\* it or schedules it twice, and none goes beyond the policy of the chain.
THEOREM RetriesWhenDue == Spec => []RetryExactlyWhenDue
  <1>1. Init => ChainInv
    <2> SUFFICES ASSUME Init PROVE ChainInv
      OBVIOUS
    <2>1. \A o \in OpIds : ops[o] = AbsentOp
      BY DEF Init
    <2>2. AbsentOp.auto = FALSE /\ AbsentOp.status = "absent"
      BY DEF AbsentOp
    <2> QED BY <2>1, <2>2 DEF ChainInv, Follows, Due
  <1>2. IInv /\ ChainInv => RetryExactlyWhenDue
    <2> SUFFICES ASSUME IInv, ChainInv, NEW o \in OpIds
                 PROVE  Cardinality(AutoNext(o)) = IF Due(o) THEN 1 ELSE 0
      BY DEF RetryExactlyWhenDue, Due
    <2>1. \A p \in OpIds : p \in AutoNext(o) <=> Follows(p, o)
      BY AbsentRow DEF AutoNext, Follows, IInv
    <2>2. CASE Due(o)
      <3>1. PICK p \in OpIds : Follows(p, o)
        BY <2>2 DEF ChainInv
      <3>2. AutoNext(o) = {p}
        BY <2>1, <3>1 DEF ChainInv, AutoNext
      <3> QED BY <2>2, <3>2, FS_Singleton
    <2>3. CASE ~Due(o)
      <3>1. AutoNext(o) = {}
        BY <2>1, <2>3 DEF ChainInv, AutoNext
      <3> QED BY <2>3, <3>1, FS_EmptySet
    <2> QED BY <2>2, <2>3
  <1>3. Spec => []ChainInv
    BY <1>1, ChainStep, EngineInvariant, PTL DEF Spec
  <1> QED BY <1>2, <1>3, EngineInvariant, PTL
-----------------------------------------------------------------------------
(* The audit trail *)

\* How often events of E stand in a trail, and what a trail says of a row.
Places(s, E) == {i \in DOMAIN s : s[i] \in E}
Tally(s, E)  == Cardinality(Places(s, E))
Tells(s, status, code) ==
    /\ Tally(s, Closing) = (IF status \in Terminal THEN 1 ELSE 0)
    /\ status = "running" => Tally(s, {"lock.acquired"}) = 1
    /\ status = "pending" => Tally(s, {"lock.acquired"}) = 0
    /\ status = "failed" /\ code = "DAEMON_RESTARTED" => Tally(s, {"daemon.recovered"}) = 1
    /\ status \in {"succeeded", "cancelled"} => Tally(s, {terminalEvent(status)}) = 1

\* An execution never ends in the code of a restart.
OutcomeCodes == \A w \in Workers : outcome[w].code # "DAEMON_RESTARTED"

AuditInv == AuditTellsStatus /\ OutcomeCodes

\* A trail is a finite sequence.
LEMMA TallyType ==
    ASSUME NEW s \in Seq(Events), NEW E
    PROVE  IsFiniteSet(Places(s, E)) /\ Tally(s, E) \in Nat
  <1>1. IsFiniteSet(1..Len(s))
    BY FS_Interval
  <1>2. Places(s, E) \subseteq 1..Len(s)
    BY DEF Places
  <1>3. IsFiniteSet(Places(s, E))
    BY <1>1, <1>2, FS_Subset
  <1> QED BY <1>3, FS_CardinalityType DEF Tally

\* Appending an event counts it, where it is asked for.
LEMMA TallyAppend ==
    ASSUME NEW s \in Seq(Events), NEW e \in Events, NEW E
    PROVE  /\ e \in E => Tally(Append(s, e), E) = Tally(s, E) + 1
           /\ e \notin E => Tally(Append(s, e), E) = Tally(s, E)
  <1> DEFINE t == Append(s, e)
             n == Len(s) + 1
  <1>1. /\ DOMAIN s = 1..Len(s) /\ DOMAIN t = 1..n /\ Len(s) \in Nat
        /\ t[n] = e /\ \A i \in 1..Len(s) : t[i] = s[i]
    OBVIOUS
  <1>2. n \notin 1..Len(s) /\ 1..n = (1..Len(s)) \cup {n}
    BY <1>1
  <1> HIDE DEF t, n
  <1>3. CASE e \in E
    <2>1. Places(t, E) = Places(s, E) \cup {n} /\ n \notin Places(s, E)
      BY <1>1, <1>2, <1>3 DEF Places
    <2> QED BY <1>3, <2>1, TallyType, FS_AddElement DEF Tally, t
  <1>4. CASE e \notin E
    <2>1. Places(t, E) = Places(s, E)
      BY <1>1, <1>2, <1>4 DEF Places
    <2> QED BY <1>4, <2>1 DEF Tally, t
  <1> QED BY <1>3, <1>4

\* An empty trail, and the trail of a row that was just inserted.
LEMMA TallyNew ==
    ASSUME NEW E
    PROVE  /\ Tally(<<>>, E) = 0
           /\ \A e \in Events \ E : Tally(<<e>>, E) = 0
  <1>1. Places(<<>>, E) = {}
    BY DEF Places
  <1>2. \A e \in Events \ E : Places(<<e>>, E) = {}
    BY DEF Places
  <1> QED BY <1>1, <1>2, FS_EmptySet DEF Tally

\* A trail without an event of a set has none of a subset.
LEMMA TallySubset ==
    ASSUME NEW s \in Seq(Events), NEW E, NEW D \in SUBSET E, Tally(s, E) = 0
    PROVE  Tally(s, D) = 0
  <1>1. Places(s, E) = {}
    BY TallyType, FS_EmptySet DEF Tally
  <1>2. Places(s, D) = {}
    BY <1>1 DEF Places
  <1> QED BY <1>2, FS_EmptySet DEF Tally

LEMMA TellsNew ==
    ASSUME NEW code
    PROVE  /\ Tells(<<>>, "absent", code)
           /\ Tells(<<"operation.created">>, "pending", code)
           /\ Tells(<<"operation.retried">>, "pending", code)
  <1>1. /\ "operation.created" \in Events \ Closing /\ "operation.retried" \in Events \ Closing
        /\ "operation.created" \in Events \ {"lock.acquired"}
        /\ "operation.retried" \in Events \ {"lock.acquired"}
    BY DEF Events, Closing
  <1>2. /\ Tally(<<>>, Closing) = 0
        /\ Tally(<<"operation.created">>, Closing) = 0
        /\ Tally(<<"operation.retried">>, Closing) = 0
        /\ Tally(<<"operation.created">>, {"lock.acquired"}) = 0
        /\ Tally(<<"operation.retried">>, {"lock.acquired"}) = 0
    BY <1>1, TallyNew
  <1> QED BY <1>2 DEF Tells, Terminal

\* The event of a manual retry says nothing about the status.
LEMMA TellsRetried ==
    ASSUME NEW s \in Seq(Events), NEW status, NEW code, Tells(s, status, code)
    PROVE  Tells(Append(s, "operation.retried"), status, code)
  <1> DEFINE t == Append(s, "operation.retried")
  <1>1. "operation.retried" \in Events
    BY DEF Events
  <1>2. /\ Tally(t, Closing) = Tally(s, Closing)
        /\ Tally(t, {"lock.acquired"}) = Tally(s, {"lock.acquired"})
        /\ Tally(t, {"daemon.recovered"}) = Tally(s, {"daemon.recovered"})
        /\ Tally(t, {terminalEvent(status)}) = Tally(s, {terminalEvent(status)})
    BY <1>1, TallyAppend DEF Closing, terminalEvent
  <1> HIDE DEF t
  <1>3. Tells(t, status, code)
    BY <1>2 DEF Tells
  <1> QED BY <1>3 DEF t

LEMMA TellsClaimed ==
    ASSUME NEW s \in Seq(Events), NEW code, Tells(s, "pending", code)
    PROVE  Tells(Append(s, "lock.acquired"), "running", code)
  <1> DEFINE t == Append(s, "lock.acquired")
  <1>1. "lock.acquired" \in Events
    BY DEF Events
  <1>2. /\ Tally(t, Closing) = Tally(s, Closing)
        /\ Tally(t, {"lock.acquired"}) = Tally(s, {"lock.acquired"}) + 1
    BY <1>1, TallyAppend DEF Closing
  <1> HIDE DEF t
  <1>3. Tells(t, "running", code)
    BY <1>2 DEF Tells, Terminal
  <1> QED BY <1>3 DEF t

\* The terminal write of a worker, and the cancellation of a pending row.
LEMMA TellsEnded ==
    ASSUME NEW s \in Seq(Events), NEW from \in Incomplete, NEW old, Tells(s, from, old),
           NEW to \in Terminal, NEW code, to = "failed" => code # "DAEMON_RESTARTED"
    PROVE  Tells(Append(s, terminalEvent(to)), to, code)
  <1> DEFINE e == terminalEvent(to)
             t == Append(s, e)
  <1>1. e \in Events /\ e \in Closing
    BY DEF terminalEvent, Events, Closing
  <1>2. Tally(s, Closing) = 0
    BY DEF Tells, Incomplete, Terminal
  <1>3. Tally(s, {e}) = 0
    BY <1>1, <1>2, TallySubset
  <1> HIDE DEF e
  <1>4. Tally(t, Closing) = 1 /\ Tally(t, {e}) = 1
    BY <1>1, <1>2, <1>3, TallyAppend
  <1> HIDE DEF t
  <1>5. Tells(t, to, code)
    BY <1>4 DEF Tells, Terminal, e
  <1> QED BY <1>5 DEF t, e

LEMMA TellsRecovered ==
    ASSUME NEW s \in Seq(Events), NEW old, Tells(s, "running", old)
    PROVE  Tells(Append(s, "daemon.recovered"), "failed", "DAEMON_RESTARTED")
  <1> DEFINE e == "daemon.recovered"
             t == Append(s, e)
  <1>1. e \in Events /\ e \in Closing
    BY DEF Events, Closing
  <1>2. Tally(s, Closing) = 0
    BY DEF Tells, Terminal
  <1>3. Tally(s, {e}) = 0
    BY <1>1, <1>2, TallySubset
  <1> HIDE DEF e
  <1>4. Tally(t, Closing) = 1 /\ Tally(t, {e}) = 1
    BY <1>1, <1>2, <1>3, TallyAppend
  <1> HIDE DEF t
  <1>5. Tells(t, "failed", "DAEMON_RESTARTED")
    BY <1>4 DEF Tells, Terminal, e
  <1> QED BY <1>5 DEF t, e

\* The trail of every row, restated over the operators above.
LEMMA AuditAsTells ==
    AuditTellsStatus <=> \A o \in OpIds : Tells(audit[o], ops[o].status, ops[o].code)
  BY DEF AuditTellsStatus, Tells, Count, Tally, Places

LEMMA TrailsTell ==
    ASSUME \A o \in OpIds : Tells(audit'[o], ops'[o].status, ops'[o].code)
    PROVE  AuditTellsStatus'
  BY DEF AuditTellsStatus, Tells, Count, Tally, Places

\* Every outcome of an execution has a code of its own.
LEMMA ExecCodes ==
    ASSUME NEW kind, NEW c, NEW out \in ExecOutcomes(kind, c)
    PROVE  out.code # "DAEMON_RESTARTED"
  <1> DEFINE Own == {x \in Outcomes : x.code # "DAEMON_RESTARTED"}
  <1>1. /\ [status |-> "succeeded", code |-> ""] \in Own
        /\ [status |-> "cancelled", code |-> "EXEC_CANCELLED"] \in Own
        /\ \A x \in {"INVALID_REQUEST", "EXEC_EXIT_NONZERO", "RUNTIME_NOT_READY", "INTERNAL",
                     "BACKUP_PREFLIGHT_FAILED", "CONFIG_INVALID", "DEPLOY_ROLLED_BACK"} :
              [status |-> "failed", code |-> x] \in Own
    BY DEF Outcomes, Terminal, Codes, DefaultRetryableCodes, NeverRetryableCodes
  <1> HIDE DEF Own
  <1>2. /\ CommandOutcomes(c) \subseteq Own /\ RuntimeOutcomes(c) \subseteq Own
        /\ BackupOutcomes(c) \subseteq Own /\ DeployOutcomes(c) \subseteq Own
    BY <1>1 DEF CommandOutcomes, RuntimeOutcomes, BackupOutcomes, DeployOutcomes
  <1>3. out \in Own
    BY <1>2 DEF ExecOutcomes
  <1> QED BY <1>3 DEF Own

LEMMA OutcomeCodesStep == IInv /\ OutcomeCodes /\ [Next]_vars => OutcomeCodes'
  <1> SUFFICES ASSUME IInv, OutcomeCodes, [Next]_vars PROVE OutcomeCodes'
    OBVIOUS
  <1>1. CASE outcome' = outcome
    BY <1>1 DEF OutcomeCodes
  <1>2. ASSUME NEW w \in Workers, WorkerStep(w) PROVE OutcomeCodes'
    <2>1. CASE Run(w)
      <3>1. PICK out \in ExecOutcomes(ops[cur[w]].kind, cur[w] \in signalled \/ daemon = "stopping") :
               outcome' = [outcome EXCEPT ![w] = out]
        BY <2>1 DEF Run
      <3>2. out.code # "DAEMON_RESTARTED"
        BY <3>1, ExecCodes
      <3> QED BY <3>1, <3>2 DEF OutcomeCodes, IInv, TypeOK
    <2>2. CASE Unregister(w)
      BY <2>2 DEF Unregister, OutcomeCodes, IInv, TypeOK, NoOutcome
    <2> QED BY <1>1, <1>2, <2>1, <2>2
            DEF WorkerStep, WakeUp, Claim, NothingToDo, Register, Finish, FinishRefused
  <1>3. CASE Exit
    BY <1>3 DEF Exit, OutcomeCodes, NoOutcome
  <1>4. CASE Request \/ Answer \/ Tick \/ Shutdown \/ Start \/ UNCHANGED vars
    BY <1>1, <1>4 DEF Request, Create, Cancel, RetryRead, Answer, CancelSignal, RetryCreate,
                      RetryAudit, Tick, Shutdown, Start, vars, workerVars
  <1> QED BY <1>2, <1>3, <1>4 DEF Next

\* One row gets a trail that tells it, the others keep theirs.
LEMMA OneTrail ==
    ASSUME IInv, AuditTellsStatus, NEW o \in OpIds, NEW row, NEW t, Tells(t, row.status, row.code),
           ops' = [ops EXCEPT ![o] = row], audit' = [audit EXCEPT ![o] = t]
    PROVE  AuditTellsStatus'
  <1>1. \A x \in OpIds : /\ ops'[x] = IF x = o THEN row ELSE ops[x]
                         /\ audit'[x] = IF x = o THEN t ELSE audit[x]
    BY DEF IInv, TypeOK
  <1>2. \A x \in OpIds : Tells(audit[x], ops[x].status, ops[x].code)
    BY AuditAsTells
  <1>3. \A x \in OpIds : Tells(audit'[x], ops'[x].status, ops'[x].code)
    BY <1>1, <1>2
  <1> QED BY <1>3, TrailsTell

LEMMA CancelTrail ==
    ASSUME IInv, AuditTellsStatus, NEW o \in OpIds, CancelPending(o)
    PROVE  AuditTellsStatus'
  <1> DEFINE row == [ops[o] EXCEPT !.status = "cancelled"]
             t == Append(audit[o], "operation.cancelled")
  <1>1. ops[o] \in Operation /\ ops[o].status = "pending" /\ audit[o] \in Seq(Events)
    BY KnownRow DEF IInv, TypeOK, CancelPending
  <1>2. row.status = "cancelled" /\ row.code = ops[o].code
    BY <1>1 DEF Operation
  <1>3. Tells(audit[o], "pending", ops[o].code)
    BY <1>1, AuditAsTells
  <1>4. /\ "cancelled" \in Terminal /\ "pending" \in Incomplete
        /\ terminalEvent("cancelled") = "operation.cancelled"
    BY DEF Terminal, Incomplete, terminalEvent
  <1>5. Tells(t, "cancelled", ops[o].code)
    BY <1>1, <1>3, <1>4, TellsEnded
  <1>6. ops' = [ops EXCEPT ![o] = row] /\ audit' = [audit EXCEPT ![o] = t]
    BY DEF CancelPending, IInv, TypeOK
  <1> HIDE DEF row, t
  <1> QED BY <1>2, <1>5, <1>6, OneTrail

LEMMA ClaimTrail ==
    ASSUME IInv, AuditTellsStatus, NEW w \in Workers, NEW o \in OpIds, ClaimNextPending(w, o)
    PROVE  AuditTellsStatus'
  <1> DEFINE row == [ops[o] EXCEPT !.status = "running"]
             t == Append(audit[o], "lock.acquired")
  <1>1. ops[o] \in Operation /\ ops[o].status = "pending" /\ audit[o] \in Seq(Events)
    BY KnownRow DEF IInv, TypeOK, ClaimNextPending, Runnable
  <1>2. row.status = "running" /\ row.code = ops[o].code
    BY <1>1 DEF Operation
  <1>3. Tells(audit[o], "pending", ops[o].code)
    BY <1>1, AuditAsTells
  <1>5. Tells(t, "running", ops[o].code)
    BY <1>1, <1>3, TellsClaimed
  <1>6. ops' = [ops EXCEPT ![o] = row] /\ audit' = [audit EXCEPT ![o] = t]
    BY DEF ClaimNextPending, IInv, TypeOK
  <1> HIDE DEF row, t
  <1> QED BY <1>2, <1>5, <1>6, OneTrail

LEMMA InsertTrail ==
    ASSUME IInv, AuditTellsStatus, NEW id \in OpIds, NEW row, row.status = "pending",
           NEW e \in {"operation.created", "operation.retried"},
           ops' = [ops EXCEPT ![id] = row], audit' = [audit EXCEPT ![id] = <<e>>]
    PROVE  AuditTellsStatus'
  <1>1. Tells(<<e>>, row.status, row.code)
    BY TellsNew
  <1> QED BY <1>1, OneTrail

LEMMA RetryAuditTrail ==
    ASSUME IInv, AuditTellsStatus, NEW o \in OpIds, RetryAudit(o)
    PROVE  AuditTellsStatus'
  <1> DEFINE t == Append(audit[o], "operation.retried")
  <1>1. audit[o] \in Seq(Events) /\ Tells(audit[o], ops[o].status, ops[o].code)
    BY AuditAsTells DEF IInv, TypeOK
  <1>2. Tells(t, ops[o].status, ops[o].code)
    BY <1>1, TellsRetried
  <1>3. ops' = [ops EXCEPT ![o] = ops[o]] /\ audit' = [audit EXCEPT ![o] = t]
    BY DEF RetryAudit, IInv, TypeOK
  <1> HIDE DEF t
  <1> QED BY <1>2, <1>3, OneTrail

LEMMA FinishTrail ==
    ASSUME IInv, AuditTellsStatus, OutcomeCodes, NEW w \in Workers, Finish(w)
    PROVE  AuditTellsStatus'
  <1> DEFINE o == cur[w]
             out == outcome[w]
             t == Append(audit[o], terminalEvent(out.status))
  <1>1. /\ o \in OpIds /\ ops[o] \in Operation /\ ops[o].status = "running"
        /\ out \in Outcomes /\ out.code # "DAEMON_RESTARTED" /\ FinishTx(o, out)
        /\ audit[o] \in Seq(Events)
    BY FinishRows DEF Finish, IInv, TypeOK, OutcomeCodes
  <1>2. Tells(audit[o], "running", ops[o].code)
    BY <1>1, AuditAsTells
  <1>3. out.status \in Terminal /\ "running" \in Incomplete
    BY <1>1 DEF Outcomes, Incomplete
  <1>4. Tells(t, out.status, out.code)
    BY <1>1, <1>2, <1>3, TellsEnded
  <1>5. Ended(o, out).status = out.status /\ Ended(o, out).code = out.code
    BY <1>1 DEF Ended, Operation
  <1>6. ops \in [OpIds -> {AbsentOp} \cup Operation] /\ audit \in [OpIds -> Seq(Events)]
    BY DEF IInv, TypeOK
  <1>7. t = Append(audit[o], terminalEvent(out.status))
    OBVIOUS
  <1> HIDE DEF o, out, t
  <1>8. CASE ~planRetry(ops[o], out)
    <2>1. ops' = [ops EXCEPT ![o] = Ended(o, out)] /\ audit' = [audit EXCEPT ![o] = t]
      BY <1>1, <1>6, <1>7, <1>8 DEF FinishTx
    <2> QED BY <1>1, <1>4, <1>5, <2>1, OneTrail
  <1>9. CASE planRetry(ops[o], out)
    <2>1. PICK id \in OpIds, delay \in 1..MaxBackoff :
             /\ NextId(id)
             /\ ops' = [ops EXCEPT ![o] = Ended(o, out), ![id] = AutoRetryOp(o, delay)]
             /\ audit' = [audit EXCEPT ![o] = Append(@, terminalEvent(out.status)),
                                       ![id] = <<"operation.retried">>]
      BY <1>1, <1>9 DEF FinishTx
    <2>2. id # o
      BY <1>1, <2>1 DEF NextId, Free, Known
    <2>3. AutoRetryOp(o, delay).status = "pending"
      BY DEF AutoRetryOp, PendingRow
    <2>4. \A x \in OpIds :
             /\ ops'[x] = IF x = id THEN AutoRetryOp(o, delay)
                          ELSE IF x = o THEN Ended(o, out) ELSE ops[x]
             /\ audit'[x] = IF x = id THEN <<"operation.retried">>
                            ELSE IF x = o THEN t ELSE audit[x]
      BY <1>1, <1>6, <1>7, <2>1, <2>2
    <2>5. \A x \in OpIds : Tells(audit[x], ops[x].status, ops[x].code)
      BY AuditAsTells
    <2>6. Tells(<<"operation.retried">>, "pending", AutoRetryOp(o, delay).code)
      BY TellsNew
    <2>7. \A x \in OpIds : Tells(audit'[x], ops'[x].status, ops'[x].code)
      BY <1>4, <1>5, <2>3, <2>4, <2>5, <2>6
    <2> QED BY <2>7, TrailsTell
  <1> QED BY <1>8, <1>9

LEMMA StartTrail == ASSUME IInv, AuditTellsStatus, Start PROVE AuditTellsStatus'
  <1>1. PICK f \in [Replayed -> OpIds], delay \in [Replayed -> 1..MaxBackoff] :
           FreshIds(f) /\ RecoverRunning(f, delay)
    BY DEF Start
  <1>2. \A x \in OpIds : Tells(audit[x], ops[x].status, ops[x].code)
    BY AuditAsTells
  <1>3. \A x \in OpIds : audit'[x] = IF x \in Stale THEN Append(audit[x], "daemon.recovered")
                                     ELSE IF \E p \in Replayed : f[p] = x
                                          THEN <<"operation.retried">> ELSE audit[x]
    BY <1>1 DEF RecoverRunning
  <1>4. ASSUME NEW x \in OpIds PROVE Tells(audit'[x], ops'[x].status, ops'[x].code)
    <2>1. CASE x \in Stale
      <3>1. ops[x].status = "running" /\ ops[x] \in Operation /\ audit[x] \in Seq(Events)
        BY <2>1, KnownRow DEF Stale, IInv, TypeOK
      <3>2. ops'[x] = Ended(x, RestartOutcome)
        BY <1>1, <2>1 DEF RecoverRunning
      <3>3. ops'[x].status = "failed" /\ ops'[x].code = "DAEMON_RESTARTED"
        BY <3>1, <3>2 DEF Ended, RestartOutcome, Operation
      <3>4. Tells(Append(audit[x], "daemon.recovered"), "failed", "DAEMON_RESTARTED")
        BY <1>2, <3>1, TellsRecovered
      <3> QED BY <1>3, <2>1, <3>3, <3>4
    <2>2. CASE \E p \in Replayed : f[p] = x
      <3>1. ~Known(x) /\ ops'[x].status = "pending"
        BY <1>1, <2>2, RecoveredRows
      <3>2. x \notin Stale
        BY <3>1 DEF Stale, Known
      <3>3. Tells(<<"operation.retried">>, "pending", ops'[x].code)
        BY TellsNew
      <3> QED BY <1>3, <2>2, <3>1, <3>2, <3>3
    <2>3. CASE x \notin Stale /\ ~(\E p \in Replayed : f[p] = x)
      <3>1. ops'[x] = ops[x]
        BY <1>1, <2>3, RecoveredRows
      <3> QED BY <1>2, <1>3, <2>3, <3>1
    <2> QED BY <2>1, <2>2, <2>3
  <1> QED BY <1>4, TrailsTell

LEMMA TickTrail == ASSUME IInv, AuditTellsStatus, Tick PROVE AuditTellsStatus'
  <1>1. \A o \in OpIds : ops'[o].status = ops[o].status /\ ops'[o].code = ops[o].code
    BY TickKeeps DEF IInv
  <1>2. \A x \in OpIds : Tells(audit[x], ops[x].status, ops[x].code)
    BY AuditAsTells
  <1>3. audit' = audit
    BY DEF Tick
  <1>4. \A x \in OpIds : Tells(audit'[x], ops'[x].status, ops'[x].code)
    BY <1>1, <1>2, <1>3
  <1> QED BY <1>4, TrailsTell

LEMMA AuditStep == IInv /\ AuditInv /\ [Next]_vars => AuditInv'
  <1> SUFFICES ASSUME IInv, AuditTellsStatus, OutcomeCodes, [Next]_vars PROVE AuditTellsStatus'
    BY OutcomeCodesStep DEF AuditInv
  <1>1. CASE ops' = ops /\ audit' = audit
    BY <1>1 DEF AuditTellsStatus, Count
  <1>2. CASE Request
    <2>1. ASSUME NEW o \in OpIds, Cancel(o) PROVE AuditTellsStatus'
      BY <1>1, <2>1, CancelTrail DEF Cancel, CancelRunning
    <2>2. ASSUME NEW r \in Resources, NEW k \in Kinds, NEW p \in Policies,
                 NEW key \in Keys \cup {NoKey}, Create(r, k, p, key)
          PROVE  AuditTellsStatus'
      <3>1. PICK id \in OpIds : /\ ops' = [ops EXCEPT ![id] = NewOp(r, k, p, key)]
                                /\ audit' = [audit EXCEPT ![id] = <<"operation.created">>]
        BY <2>2 DEF Create
      <3>2. NewOp(r, k, p, key).status = "pending"
        BY DEF NewOp, PendingRow
      <3>3. "operation.created" \in {"operation.created", "operation.retried"}
        OBVIOUS
      <3> QED BY <3>1, <3>2, <3>3, InsertTrail
    <2> QED BY <1>1, <1>2, <2>1, <2>2 DEF Request, RetryRead, dbVars
  <1>3. CASE Answer
    <2>1. ASSUME NEW o \in OpIds, RetryCreate(o) PROVE AuditTellsStatus'
      <3>1. CASE UNCHANGED <<ops, audit>>
        BY <1>1, <3>1
      <3>2. CASE \E id \in OpIds : /\ ops' = [ops EXCEPT ![id] = ManualRetryOp(o)]
                                   /\ audit' = [audit EXCEPT ![id] = <<"operation.created">>]
        <4>1. ManualRetryOp(o).status = "pending"
          BY DEF ManualRetryOp, PendingRow
        <4>2. "operation.created" \in {"operation.created", "operation.retried"}
          OBVIOUS
        <4> QED BY <3>2, <4>1, <4>2, InsertTrail
      <3> QED BY <2>1, <3>1, <3>2 DEF RetryCreate
    <2> QED BY <1>1, <1>3, <2>1, RetryAuditTrail DEF Answer, CancelSignal, dbVars
  <1>4. ASSUME NEW w \in Workers, WorkerStep(w) PROVE AuditTellsStatus'
    <2>1. CASE Claim(w)
      BY <2>1, ClaimTrail DEF Claim
    <2> QED BY <1>1, <1>4, <2>1, FinishTrail
            DEF WorkerStep, WakeUp, NothingToDo, Register, Run, FinishRefused, Unregister, dbVars
  <1>5. CASE Tick \/ Shutdown \/ Exit \/ Start \/ UNCHANGED vars
    BY <1>1, <1>5, TickTrail, StartTrail DEF Shutdown, Exit, vars, dbVars
  <1> QED BY <1>2, <1>3, <1>4, <1>5 DEF Next

\* The audit trail tells the status: "acquired" iff the operation ever ran, one
\* closing event iff it ended, and the one of its status.
THEOREM AuditIsTrue == Spec => []AuditTellsStatus
  <1>1. Init => AuditInv
    <2> SUFFICES ASSUME Init PROVE AuditInv
      OBVIOUS
    <2>1. \A o \in OpIds : audit[o] = <<>> /\ ops[o] = AbsentOp
      BY DEF Init
    <2>2. AbsentOp.status = "absent" /\ AbsentOp.code = ""
      BY DEF AbsentOp
    <2>3. \A o \in OpIds : Tells(audit[o], ops[o].status, ops[o].code)
      BY <2>1, <2>2, TellsNew
    <2>4. OutcomeCodes
      BY DEF Init, OutcomeCodes, NoOutcome
    <2> QED BY <2>3, <2>4, AuditAsTells DEF AuditInv
  <1>2. Spec => []AuditInv
    BY <1>1, AuditStep, EngineInvariant, PTL DEF Spec
  <1>3. AuditInv => AuditTellsStatus
    BY DEF AuditInv
  <1> QED BY <1>2, <1>3, PTL
-----------------------------------------------------------------------------
(* Operations no worker holds *)

\* Also while the daemon is stopping: the orphans of this life of the process
\* are refused writes.
OrphansInv == daemon # "down" => Cardinality(Orphans) <= faults

LEMMA OrphansType ==
    /\ Orphans \subseteq OpIds /\ IsFiniteSet(Orphans) /\ Cardinality(Orphans) \in Nat
    /\ Orphans' \subseteq OpIds /\ IsFiniteSet(Orphans') /\ Cardinality(Orphans') \in Nat
  <1>1. IsFiniteSet(OpIds)
    BY FS_Interval, BoundsAssumption DEF OpIds
  <1>2. Orphans \subseteq OpIds /\ Orphans' \subseteq OpIds
    BY DEF Orphans
  <1> QED BY <1>1, <1>2, FS_Subset, FS_CardinalityType

\* A step that makes no orphan.
LEMMA NoNewOrphan ==
    ASSUME IInv, OrphansInv, daemon # "down", faults' = faults,
           \A o \in OpIds : o \in Orphans' => o \in Orphans
    PROVE  OrphansInv'
  <1>1. Orphans' \subseteq Orphans
    BY OrphansType
  <1>2. Cardinality(Orphans') <= Cardinality(Orphans)
    BY <1>1, OrphansType, FS_Subset
  <1>3. Cardinality(Orphans) <= faults
    BY DEF OrphansInv
  <1>4. \A a, b, c \in Nat : a <= b /\ b <= c => a <= c
    OBVIOUS
  <1>5. faults \in Nat
    BY BoundsAssumption DEF IInv, TypeOK
  <1>6. Cardinality(Orphans') <= faults'
    BY <1>2, <1>3, <1>4, <1>5, OrphansType
  <1> QED BY <1>6 DEF OrphansInv

\* Orphans depend on the statuses and on what the workers hold.
LEMMA SameHolders ==
    ASSUME IInv, OrphansInv, daemon # "down", faults' = faults,
           \A o \in OpIds : ops'[o].status = "running" => ops[o].status = "running",
           \A w \in Workers : Executing(w) => Executing(w)' /\ cur'[w] = cur[w]
    PROVE  OrphansInv'
  <1>1. \A o \in OpIds : o \in Orphans' => o \in Orphans
    BY DEF Orphans
  <1> QED BY <1>1, NoNewOrphan

LEMMA ClaimOrphans ==
    ASSUME IInv, OrphansInv, NEW w \in Workers, Claim(w)
    PROVE  OrphansInv'
  <1>1. PICK o \in OpIds : ClaimNextPending(w, o)
    BY DEF Claim
  <1>2. /\ \A x \in OpIds \ {o} : ops'[x] = ops[x]
        /\ \A v \in Workers \ {w} : pc'[v] = pc[v] /\ cur'[v] = cur[v]
        /\ pc[w] = "scan" /\ pc'[w] = "claimed" /\ cur'[w] = o
        /\ daemon # "down" /\ faults' = faults
    BY <1>1 DEF Claim, ClaimNextPending, IInv, TypeOK
  <1>3. Executing(w)' /\ ~Executing(w) /\ \A v \in Workers \ {w} : Executing(v)' <=> Executing(v)
    BY <1>2 DEF Executing
  <1>4. \A x \in OpIds : x \in Orphans' => x \in Orphans
    BY <1>2, <1>3 DEF Orphans
  <1> QED BY <1>2, <1>4, NoNewOrphan

LEMMA FinishOrphans ==
    ASSUME IInv, OrphansInv, NEW w \in Workers, Finish(w)
    PROVE  OrphansInv'
  <1>1. PICK id \in OpIds : \A x \in OpIds \ {cur[w]} :
           \/ ops'[x] = ops[x]
           \/ /\ x = id /\ ~Known(x)
              /\ ops'[x].status = "pending" /\ ops'[x].resource = ops[cur[w]].resource
              /\ ops'[x].key = NoKey
    BY FinishRows
  <1>2. cur[w] \in OpIds /\ ops'[cur[w]].status \in Terminal
    BY FinishRows
  <1>3. /\ \A v \in Workers \ {w} : pc'[v] = pc[v]
        /\ cur' = cur /\ pc'[w] = "done" /\ daemon # "down" /\ faults' = faults
    BY DEF Finish, Serving, IInv, TypeOK
  <1>4. \A v \in Workers \ {w} : Executing(v)' <=> Executing(v)
    BY <1>3 DEF Executing
  <1>5. \A x \in OpIds : ops'[x].status = "running" => x # cur[w] /\ ops[x].status = "running"
    BY <1>1, <1>2 DEF Terminal
  <1>6. \A x \in OpIds : x \in Orphans' => x \in Orphans
    BY <1>3, <1>4, <1>5 DEF Orphans
  <1> QED BY <1>3, <1>6, NoNewOrphan

\* The one step that makes an orphan counts a refused write.
LEMMA RefusedOrphans ==
    ASSUME IInv, OrphansInv, NEW w \in Workers, FinishRefused(w)
    PROVE  OrphansInv'
  <1>1. /\ \A v \in Workers \ {w} : pc'[v] = pc[v]
        /\ cur' = cur /\ ops' = ops /\ daemon # "down" /\ faults' = faults + 1
        /\ faults \in Nat /\ pc[w] = "finish" /\ cur[w] \in OpIds
    BY BoundsAssumption
       DEF FinishRefused, Serving, dbVars, IInv, TypeOK, WorkersHoldRunning
  <1>2. \A v \in Workers \ {w} : Executing(v)' <=> Executing(v)
    BY <1>1 DEF Executing
  <1>3. Orphans' \subseteq Orphans \cup {cur[w]}
    BY <1>1, <1>2 DEF Orphans
  <1>4. /\ IsFiniteSet(Orphans \cup {cur[w]})
        /\ Cardinality(Orphans \cup {cur[w]}) <= Cardinality(Orphans) + 1
        /\ Cardinality(Orphans \cup {cur[w]}) \in Nat
    <2>1. CASE cur[w] \in Orphans
      <3>1. Orphans \cup {cur[w]} = Orphans
        BY <2>1
      <3>2. \A n \in Nat : n <= n + 1
        OBVIOUS
      <3> QED BY <3>1, <3>2, OrphansType
    <2>2. CASE cur[w] \notin Orphans
      <3>1. /\ IsFiniteSet(Orphans \cup {cur[w]})
            /\ Cardinality(Orphans \cup {cur[w]}) = Cardinality(Orphans) + 1
        BY <2>2, OrphansType, FS_AddElement
      <3> QED BY <3>1, OrphansType
    <2> QED BY <2>1, <2>2
  <1>5. Cardinality(Orphans') <= Cardinality(Orphans \cup {cur[w]})
    BY <1>3, <1>4, FS_Subset
  <1>6. Cardinality(Orphans) <= faults
    BY <1>1 DEF OrphansInv
  <1>7. \A a, b, c, f \in Nat : a <= b /\ b <= c + 1 /\ c <= f => a <= f + 1
    OBVIOUS
  <1>8. Cardinality(Orphans') <= faults'
    BY <1>1, <1>4, <1>5, <1>6, <1>7, OrphansType
  <1> QED BY <1>8 DEF OrphansInv

\* Recovery leaves nothing running.
LEMMA StartOrphans == ASSUME IInv, Start PROVE OrphansInv'
  <1>1. PICK f \in [Replayed -> OpIds], delay \in [Replayed -> 1..MaxBackoff] :
           FreshIds(f) /\ RecoverRunning(f, delay)
    BY DEF Start
  <1>2. \A x \in OpIds : ops'[x].status # "running"
    <2>1. \A x \in OpIds : ops'[x].status \in Incomplete =>
             \/ ops'[x] = ops[x] /\ ops[x].status = "pending"
             \/ \E p \in Replayed : f[p] = x
      BY <1>1, RecoveredRows
    <2>2. \A p \in Replayed : ops'[f[p]].status = "pending"
      BY <1>1, RecoveredRows
    <2> QED BY <2>1, <2>2 DEF Incomplete
  <1>3. Orphans' = {}
    BY <1>2 DEF Orphans
  <1>4. Cardinality(Orphans') = 0
    BY <1>3, FS_EmptySet
  <1>5. faults' \in Nat
    BY BoundsAssumption DEF Start, IInv, TypeOK
  <1> QED BY <1>4, <1>5 DEF OrphansInv

LEMMA OrphansStep == IInv /\ OrphansInv /\ [Next]_vars => OrphansInv'
  <1> SUFFICES ASSUME IInv, OrphansInv, [Next]_vars PROVE OrphansInv'
    OBVIOUS
  <1>1. CASE UNCHANGED <<ops, pc, cur, daemon, faults>>
    BY <1>1 DEF OrphansInv, Orphans, Executing
  <1>2. ASSUME NEW o \in OpIds, Cancel(o) PROVE OrphansInv'
    <2>1. daemon # "down" /\ faults' = faults /\ pc' = pc /\ cur' = cur
      BY <1>2 DEF Cancel, Serving, workerVars
    <2>2. \A x \in OpIds : ops'[x].status = "running" => ops[x].status = "running"
      <3>1. CASE CancelPending(o)
        <4>1. ops[o] \in Operation /\ \A x \in OpIds \ {o} : ops'[x] = ops[x]
          BY <3>1, KnownRow DEF CancelPending, IInv, TypeOK
        <4>2. ops'[o].status = "cancelled"
          BY <3>1, <4>1 DEF CancelPending, IInv, TypeOK, Operation
        <4> QED BY <4>1, <4>2
      <3>2. CASE CancelRunning(o)
        BY <3>2 DEF CancelRunning
      <3> QED BY <1>2, <3>1, <3>2 DEF Cancel
    <2>3. \A v \in Workers : Executing(v) => Executing(v)' /\ cur'[v] = cur[v]
      BY <2>1 DEF Executing
    <2> QED BY <2>1, <2>2, <2>3, SameHolders
  <1>3. ASSUME NEW r \in Resources, NEW k \in Kinds, NEW p \in Policies,
               NEW key \in Keys \cup {NoKey}, Create(r, k, p, key)
        PROVE  OrphansInv'
    <2>1. daemon # "down" /\ faults' = faults /\ pc' = pc /\ cur' = cur
      BY <1>3 DEF Create, Serving, workerVars
    <2>2. \A x \in OpIds : ops'[x].status = "running" => ops[x].status = "running"
      <3>1. PICK id \in OpIds : ops' = [ops EXCEPT ![id] = NewOp(r, k, p, key)]
        BY <1>3 DEF Create
      <3>2. NewOp(r, k, p, key).status = "pending"
        BY DEF NewOp, PendingRow
      <3>3. \A x \in OpIds : ops'[x] = IF x = id THEN NewOp(r, k, p, key) ELSE ops[x]
        BY <3>1 DEF IInv, TypeOK
      <3> QED BY <3>2, <3>3
    <2>3. \A v \in Workers : Executing(v) => Executing(v)' /\ cur'[v] = cur[v]
      BY <2>1 DEF Executing
    <2> QED BY <2>1, <2>2, <2>3, SameHolders
  <1>4. ASSUME NEW o \in OpIds, RetryCreate(o) PROVE OrphansInv'
    <2>1. daemon # "down" /\ faults' = faults /\ pc' = pc /\ cur' = cur
      BY <1>4 DEF RetryCreate, Serving, workerVars
    <2>2. \A x \in OpIds : ops'[x].status = "running" => ops[x].status = "running"
      <3>1. CASE ops' = ops
        BY <3>1
      <3>2. CASE \E id \in OpIds : ops' = [ops EXCEPT ![id] = ManualRetryOp(o)]
        <4>1. PICK id \in OpIds : ops' = [ops EXCEPT ![id] = ManualRetryOp(o)]
          BY <3>2
        <4>2. ManualRetryOp(o).status = "pending"
          BY DEF ManualRetryOp, PendingRow
        <4>3. \A x \in OpIds : ops'[x] = IF x = id THEN ManualRetryOp(o) ELSE ops[x]
          BY <4>1 DEF IInv, TypeOK
        <4> QED BY <4>2, <4>3
      <3> QED BY <1>4, <3>1, <3>2 DEF RetryCreate
    <2>3. \A v \in Workers : Executing(v) => Executing(v)' /\ cur'[v] = cur[v]
      BY <2>1 DEF Executing
    <2> QED BY <2>1, <2>2, <2>3, SameHolders
  <1>5. CASE Request
    BY <1>1, <1>2, <1>3, <1>5 DEF Request, RetryRead, dbVars, workerVars
  <1>6. CASE Answer
    BY <1>1, <1>4, <1>6 DEF Answer, CancelSignal, RetryAudit, dbVars, workerVars
  <1>7. ASSUME NEW w \in Workers, WorkerStep(w) PROVE OrphansInv'
    <2>1. CASE WakeUp(w) \/ NothingToDo(w) \/ Register(w) \/ Run(w) \/ Unregister(w)
      <3>1. daemon # "down" /\ faults' = faults /\ ops' = ops
        BY <2>1 DEF WakeUp, NothingToDo, Register, Run, Unregister, dbVars, Serving
      <3>2. \A v \in Workers : Executing(v) => Executing(v)' /\ cur'[v] = cur[v]
        BY <2>1 DEF WakeUp, NothingToDo, Register, Run, Unregister, Executing, IInv, TypeOK
      <3> QED BY <3>1, <3>2, SameHolders
    <2> QED BY <1>7, <2>1, ClaimOrphans, FinishOrphans, RefusedOrphans DEF WorkerStep
  <1>8. CASE Tick
    <2>1. \A o \in OpIds : ops'[o].status = ops[o].status
      BY <1>8, TickKeeps DEF IInv
    <2>2. faults' = faults /\ pc' = pc /\ cur' = cur /\ daemon' = daemon
      BY <1>8 DEF Tick, workerVars
    <2>3. \A v \in Workers : Executing(v) => Executing(v)' /\ cur'[v] = cur[v]
      BY <2>2 DEF Executing
    <2>4. CASE daemon = "down"
      BY <2>2, <2>4 DEF OrphansInv
    <2> QED BY <2>1, <2>2, <2>3, <2>4, SameHolders
  <1>9. CASE Shutdown
    <2>1. daemon # "down" /\ UNCHANGED <<ops, pc, cur, faults>>
      BY <1>9 DEF Shutdown, dbVars, workerVars
    <2>2. \A v \in Workers : Executing(v) => Executing(v)' /\ cur'[v] = cur[v]
      BY <2>1 DEF Executing
    <2> QED BY <2>1, <2>2, SameHolders
  <1>10. CASE Exit
    BY <1>10 DEF Exit, OrphansInv
  <1>11. CASE Start \/ UNCHANGED vars
    BY <1>1, <1>11, StartOrphans DEF vars
  <1> QED BY <1>5, <1>6, <1>7, <1>8, <1>9, <1>10, <1>11 DEF Next

\* While the daemon runs, a running operation without a worker is the trace of
\* a refused terminal write, one each: the workers lose none.
THEOREM WorkersLoseNone == Spec => []OrphansAreRefusedWrites
  <1>1. Init => OrphansInv
    <2> SUFFICES ASSUME Init PROVE OrphansInv
      OBVIOUS
    <2>1. \A o \in OpIds : ops[o] = AbsentOp
      BY DEF Init
    <2>2. AbsentOp.status = "absent"
      BY DEF AbsentOp
    <2>3. Orphans = {}
      BY <2>1, <2>2 DEF Orphans
    <2>4. Cardinality(Orphans) = 0 /\ faults = 0
      BY <2>3, FS_EmptySet DEF Init
    <2> QED BY <2>4 DEF OrphansInv
  <1>2. OrphansInv => OrphansAreRefusedWrites
    BY DEF OrphansInv, OrphansAreRefusedWrites
  <1> QED BY <1>1, <1>2, OrphansStep, EngineInvariant, PTL DEF Spec
-----------------------------------------------------------------------------
(* The refinement of OneAtATime: every step of the tables, the workers and the
   recovery is, for each resource, a step of its lane or leaves it alone. *)

\* Steps that change neither a status nor a resource leave every lane alone.
LEMMA SameRowsSameLanes ==
    ASSUME \A o \in OpIds : ops'[o].status = ops[o].status /\ ops'[o].resource = ops[o].resource
    PROVE  [r \in Resources |-> LaneOf(r)]' = [r \in Resources |-> LaneOf(r)]
  <1>1. ASSUME NEW r \in Resources PROVE LaneOf(r)' = LaneOf(r)
    BY DEF LaneOf, hasIncompleteOperation, On
  <1> QED BY <1>1

\* A lane is told by the rows of its resource.
LEMMA LaneType ==
    ASSUME NEW r \in Resources
    PROVE  LaneOf(r) \in {"free", "queued", "busy"} /\ LaneOf(r)' \in {"free", "queued", "busy"}
  BY DEF LaneOf

\* Inserting a pending row on a resource without an incomplete operation.
LEMMA InsertIsSubmit ==
    ASSUME IInv, NEW id \in OpIds, ~Known(id), NEW row \in Operation, row.status = "pending",
           ~hasIncompleteOperation(row.resource), ops' = [ops EXCEPT ![id] = row]
    PROVE  Contract!Submit(row.resource) /\ row.resource \in Resources
  <1>1. row.resource \in Resources
    BY DEF Operation
  <1>2. \A o \in OpIds : ops'[o] = IF o = id THEN row ELSE ops[o]
    BY DEF IInv, TypeOK
  <1>3. LaneOf(row.resource) = "free"
    BY DEF LaneOf, hasIncompleteOperation, On, Incomplete
  <1>4. LaneOf(row.resource)' = "queued"
    BY <1>2 DEF LaneOf, hasIncompleteOperation, On, Incomplete
  <1>5. ASSUME NEW r \in Resources, r # row.resource PROVE LaneOf(r)' = LaneOf(r)
    BY <1>2, <1>5 DEF LaneOf, hasIncompleteOperation, On, Incomplete, Known
  <1> QED BY <1>1, <1>3, <1>4, <1>5 DEF Contract!Submit

\* Cancelling, claiming or ending an operation moves the lane of its resource
\* and no other: the rows of a resource besides it are not incomplete.
LEMMA OneRowMoves ==
    ASSUME IInv, NEW o \in OpIds, ops[o].status \in Incomplete,
           NEW r \in Resources, ops[o].resource = r, ops'[o].resource = r,
           \A x \in OpIds \ {o} : ops'[x] = ops[x]
    PROVE  /\ LaneOf(r) = IF ops[o].status = "running" THEN "busy" ELSE "queued"
           /\ LaneOf(r)' = IF ops'[o].status = "running" THEN "busy"
                           ELSE IF ops'[o].status = "pending" THEN "queued" ELSE "free"
           /\ \A q \in Resources \ {r} : LaneOf(q)' = LaneOf(q)
  <1>1. \A x \in OpIds \ {o} : ops[x].status \in Incomplete => ops[x].resource # r
    BY DEF IInv, OneIncompletePerResource
  <1>2. LaneOf(r) = IF ops[o].status = "running" THEN "busy" ELSE "queued"
    BY <1>1 DEF LaneOf, hasIncompleteOperation, On, Incomplete
  <1>3. LaneOf(r)' = IF ops'[o].status = "running" THEN "busy"
                     ELSE IF ops'[o].status = "pending" THEN "queued" ELSE "free"
    BY <1>1 DEF LaneOf, hasIncompleteOperation, On, Incomplete
  <1>4. ASSUME NEW q \in Resources, q # r PROVE LaneOf(q)' = LaneOf(q)
    BY <1>4 DEF LaneOf, hasIncompleteOperation, On
  <1> QED BY <1>2, <1>3, <1>4

LEMMA CancelIsWithdraw ==
    ASSUME IInv, NEW o \in OpIds, CancelPending(o)
    PROVE  \E r \in Resources : Contract!Withdraw(r)
  <1>1. ops[o] \in Operation /\ ops[o].status = "pending"
    BY KnownRow DEF IInv, CancelPending
  <1>2. PICK r \in Resources : r = ops[o].resource
    BY <1>1 DEF Operation
  <1>3. /\ ops'[o].status = "cancelled" /\ ops'[o].resource = r
        /\ \A x \in OpIds \ {o} : ops'[x] = ops[x]
    BY <1>1, <1>2 DEF IInv, TypeOK, CancelPending, Operation
  <1>4. /\ LaneOf(r) = "queued" /\ LaneOf(r)' = "free"
        /\ \A q \in Resources \ {r} : LaneOf(q)' = LaneOf(q)
    BY <1>1, <1>2, <1>3, OneRowMoves DEF Incomplete
  <1> QED BY <1>4 DEF Contract!Withdraw

LEMMA ClaimIsBegin ==
    ASSUME IInv, NEW w \in Workers, NEW o \in OpIds, ClaimNextPending(w, o)
    PROVE  \E r \in Resources : Contract!Begin(r)
  <1>1. ops[o] \in Operation /\ ops[o].status = "pending"
    BY KnownRow DEF IInv, ClaimNextPending, Runnable
  <1>2. PICK r \in Resources : r = ops[o].resource
    BY <1>1 DEF Operation
  <1>3. /\ ops'[o].status = "running" /\ ops'[o].resource = r
        /\ \A x \in OpIds \ {o} : ops'[x] = ops[x]
    BY <1>1, <1>2 DEF IInv, TypeOK, ClaimNextPending, Operation
  <1>4. /\ LaneOf(r) = "queued" /\ LaneOf(r)' = "busy"
        /\ \A q \in Resources \ {r} : LaneOf(q)' = LaneOf(q)
    BY <1>1, <1>2, <1>3, OneRowMoves DEF Incomplete
  <1> QED BY <1>4 DEF Contract!Begin

\* The terminal write frees the lane or leaves the next attempt in it.
LEMMA FinishIsEnd ==
    ASSUME IInv, NEW w \in Workers, Finish(w)
    PROVE  \E r \in Resources : Contract!End(r)
  <1>1. PICK o \in OpIds :
          /\ ops[o] \in Operation /\ ops[o].status = "running"
          /\ ops'[o].status \in Terminal /\ ops'[o].resource = ops[o].resource
          /\ \E id \in OpIds : \A x \in OpIds \ {o} :
                \/ ops'[x] = ops[x]
                \/ /\ x = id /\ ~Known(x)
                   /\ ops'[x].status = "pending" /\ ops'[x].resource = ops[o].resource
    BY FinishRows
  <1>2. PICK r \in Resources : r = ops[o].resource
    BY <1>1 DEF Operation
  <1>3. PICK id \in OpIds : \A x \in OpIds \ {o} :
           \/ ops'[x] = ops[x]
           \/ x = id /\ ~Known(x) /\ ops'[x].status = "pending" /\ ops'[x].resource = r
    BY <1>1, <1>2
  <1>4. LaneOf(r) = "busy"
    BY <1>1, <1>2 DEF LaneOf
  <1>5. \A x \in OpIds \ {o} : ops[x].status \in Incomplete => ops[x].resource # r
    BY <1>1, <1>2 DEF IInv, OneIncompletePerResource, Incomplete
  <1>6. \A x \in OpIds : ~(ops'[x].resource = r /\ ops'[x].status = "running")
    BY <1>1, <1>3, <1>5 DEF Terminal, Incomplete
  <1>7. LaneOf(r)' \in {"free", "queued"}
    BY <1>6 DEF LaneOf
  <1>8. ASSUME NEW q \in Resources, q # r PROVE LaneOf(q)' = LaneOf(q)
    <2>1. ASSUME NEW x \in OpIds, NEW s \in {"pending", "running"}
          PROVE  (ops'[x].resource = q /\ ops'[x].status = s)
                    <=> (ops[x].resource = q /\ ops[x].status = s)
      <3>1. CASE x = o
        BY <1>1, <1>2, <1>8, <3>1
      <3>2. CASE x # o
        BY <1>3, <1>8, <3>2 DEF Known
      <3> QED BY <3>1, <3>2
    <2> QED BY <2>1 DEF LaneOf, hasIncompleteOperation, On, Incomplete
  <1> QED BY <1>4, <1>7, <1>8 DEF Contract!End

\* Recovery empties the lanes of what was running, or queues the next attempt
\* there, and touches no other lane.
LEMMA StartIsRestart == ASSUME IInv, Start PROVE Contract!Restart
  <1>1. PICK f \in [Replayed -> OpIds], delay \in [Replayed -> 1..MaxBackoff] :
           FreshIds(f) /\ RecoverRunning(f, delay)
    BY DEF Start
  <1>2. \A p \in Replayed :
           /\ p \in OpIds /\ ops[p].status = "running" /\ f[p] \in OpIds /\ ~Known(f[p])
           /\ ops'[f[p]].status = "pending" /\ ops'[f[p]].resource = ops[p].resource
    BY <1>1, RecoveredRows
  <1>3. \A x \in Stale : ops'[x].status = "failed"
    BY <1>1, RecoveredRows
  <1>4. \A x \in OpIds :
           x \notin Stale /\ ~(\E p \in Replayed : f[p] = x) => ops'[x] = ops[x]
    BY <1>1, RecoveredRows
  <1>5. \A x \in OpIds : ops'[x].status # "running"
    BY <1>2, <1>3, <1>4 DEF Stale
  <1>6. \A r \in Resources : LaneOf(r)' # "busy"
    BY <1>5 DEF LaneOf, hasIncompleteOperation
  <1>7. ASSUME NEW r \in Resources, LaneOf(r) # "busy" PROVE LaneOf(r)' = LaneOf(r)
    <2>1. \A x \in OpIds : ~(ops[x].resource = r /\ ops[x].status = "running")
      BY <1>7 DEF LaneOf
    <2>2. ASSUME NEW x \in OpIds
          PROVE  (ops'[x].resource = r /\ ops'[x].status = "pending")
                    <=> (ops[x].resource = r /\ ops[x].status = "pending")
      <3>1. CASE x \in Stale
        BY <1>3, <3>1 DEF Stale
      <3>2. CASE \E p \in Replayed : f[p] = x
        BY <1>2, <2>1, <3>2 DEF Known
      <3>3. CASE x \notin Stale /\ ~(\E p \in Replayed : f[p] = x)
        BY <1>4, <3>3
      <3> QED BY <3>1, <3>2, <3>3
    <2> QED BY <1>5, <2>1, <2>2 DEF LaneOf, hasIncompleteOperation, On, Incomplete
  <1> QED BY <1>6, <1>7, LaneType DEF Contract!Restart, Contract!LaneStates

-----------------------------------------------------------------------------
LEMMA InitImplements == Init => Contract!Init
  <1> SUFFICES ASSUME Init PROVE Contract!Init
    OBVIOUS
  <1>1. \A o \in OpIds : ops[o].status = "absent"
    BY DEF Init, AbsentOp
  <1>2. \A r \in Resources : LaneOf(r) = "free"
    BY <1>1 DEF LaneOf, hasIncompleteOperation, On, Incomplete
  <1> QED BY <1>2 DEF Contract!Init

LEMMA StepImplements ==
    IInv /\ [Next]_vars => [Contract!Next]_([r \in Resources |-> LaneOf(r)])
  <1> SUFFICES ASSUME IInv, [Next]_vars
               PROVE  Contract!Next \/ UNCHANGED [r \in Resources |-> LaneOf(r)]
    OBVIOUS
  <1> DEFINE Same == UNCHANGED [r \in Resources |-> LaneOf(r)]
  <1>1. ASSUME ops' = ops PROVE Same
    BY <1>1, SameRowsSameLanes
  <1>2. ASSUME NEW r \in Resources, NEW k \in Kinds, NEW p \in Policies,
               NEW key \in Keys \cup {NoKey}, Create(r, k, p, key)
        PROVE  Contract!Next
    <2>1. PICK id \in OpIds : NextId(id) /\ ops' = [ops EXCEPT ![id] = NewOp(r, k, p, key)]
      BY <1>2 DEF Create
    <2>2. PICK row \in Operation : row = NewOp(r, k, p, key)
      BY NewOpRow
    <2>3. row.status = "pending" /\ row.resource = r
      BY <2>2, NewOpRow
    <2>4. ~Known(id) /\ ~hasIncompleteOperation(row.resource)
      BY <1>2, <2>1, <2>3 DEF NextId, Free, Create
    <2> QED BY <2>1, <2>2, <2>3, <2>4, InsertIsSubmit DEF Contract!Next
  <1>3. ASSUME NEW o \in OpIds, RetryCreate(o) PROVE Contract!Next \/ Same
    <2>1. ops[o] \in Operation
      <3>1. [op |-> o, what |-> "retry"] \in calls
        BY <1>3 DEF RetryCreate
      <3>2. CanRetry(ops[o].status)
        BY <3>1 DEF IInv, RetriesOfEnded
      <3> QED BY <3>2, KnownRow DEF IInv, CanRetry
    <2>2. CASE ops' = ops
      BY <1>1, <2>2
    <2>3. CASE /\ ~hasIncompleteOperation(ops[o].resource)
               /\ \E id \in OpIds : NextId(id) /\ ops' = [ops EXCEPT ![id] = ManualRetryOp(o)]
      <3>1. PICK id \in OpIds : NextId(id) /\ ops' = [ops EXCEPT ![id] = ManualRetryOp(o)]
        BY <2>3
      <3>2. 1 \in 1..MaxBackoff
        BY BoundsAssumption
      <3>3. /\ ManualRetryOp(o) \in Operation /\ ManualRetryOp(o).status = "pending"
            /\ ManualRetryOp(o).resource = ops[o].resource
        BY <2>1, <3>2, RetryRow
      <3>4. ~Known(id)
        BY <3>1 DEF NextId, Free
      <3> QED BY <2>3, <3>1, <3>3, <3>4, InsertIsSubmit DEF Contract!Next
    <2> QED BY <1>3, <2>2, <2>3 DEF RetryCreate
  <1>4. ASSUME NEW o \in OpIds, Cancel(o) PROVE Contract!Next \/ Same
    BY <1>1, <1>4, CancelIsWithdraw DEF Cancel, CancelRunning, Contract!Next
  <1>5. ASSUME NEW w \in Workers, WorkerStep(w) PROVE Contract!Next \/ Same
    <2>1. CASE Claim(w)
      BY <2>1, ClaimIsBegin DEF Claim, Contract!Next
    <2>2. CASE Finish(w)
      BY <2>2, FinishIsEnd DEF Contract!Next
    <2>3. CASE WakeUp(w) \/ NothingToDo(w) \/ Register(w) \/ Run(w) \/ FinishRefused(w) \/ Unregister(w)
      BY <1>1, <2>3 DEF WakeUp, NothingToDo, Register, Run, FinishRefused, Unregister, dbVars
    <2> QED BY <1>5, <2>1, <2>2, <2>3 DEF WorkerStep
  <1>6. CASE Tick
    <2>1. ASSUME NEW o \in OpIds
          PROVE  ops'[o].status = ops[o].status /\ ops'[o].resource = ops[o].resource
      <3>1. ops'[o] = IF ops[o].backoff > 0 THEN [ops[o] EXCEPT !.backoff = @ - 1] ELSE ops[o]
        BY <1>6 DEF Tick
      <3>2. CASE ops[o] \in Operation
        BY <3>1, <3>2 DEF Operation
      <3>3. CASE ops[o] = AbsentOp
        <4>1. AbsentOp.backoff = 0
          BY DEF AbsentOp
        <4> QED BY <3>1, <3>3, <4>1
      <3> QED BY <3>2, <3>3 DEF IInv, TypeOK
    <2> QED BY <2>1, SameRowsSameLanes
  <1>7. CASE Start
    BY <1>7, StartIsRestart DEF Contract!Next
  <1>8. CASE Shutdown \/ Exit \/ UNCHANGED vars \/ (\E o \in OpIds :
               RetryRead(o) \/ CancelSignal(o) \/ RetryAudit(o))
    BY <1>1, <1>8 DEF Shutdown, Exit, vars, RetryRead, CancelSignal, RetryAudit, dbVars
  <1> QED BY <1>2, <1>3, <1>4, <1>5, <1>6, <1>7, <1>8 DEF Next, Request, Answer

\* The engine, with its tables, workers, retries, cancellation and crashes,
\* does on every resource only what the contract allows: one operation queued
\* or executing, started only from the queue, followed by nothing or by one
\* queued next attempt.
THEOREM EngineImplementsContract == Spec => ImplementsContract
  <1>1. Spec => []IInv
    BY EngineInvariant
  <1> QED BY <1>1, InitImplements, StepImplements, PTL DEF Spec, ImplementsContract, Contract!Spec
=============================================================================
