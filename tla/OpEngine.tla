------------------------------ MODULE OpEngine ------------------------------
(***************************************************************************)
(* The task engine of opsd: the operations and resource_locks tables and   *)
(* the transactions on them (adapters/sqlite/store.go), the worker pool    *)
(* (application/worker.go), the API handlers that create, cancel and retry *)
(* operations (application/service.go), the cancel registry they share     *)
(* with the workers, and the recovery at start-up (application/recovery.go)*)
(*                                                                         *)
(* The store has one connection and opens every transaction IMMEDIATE, so  *)
(* a transaction is one action.  Everything between two transactions of a  *)
(* handler or of a worker is a step of its own, and the process may die    *)
(* between any two of them.                                                *)
(*                                                                         *)
(* Logs, actors, exit codes and messages are left out.  A request is told  *)
(* apart by resource, kind and retry policy (which is what requestHash     *)
(* digests, the payload aside).  Ids are numbered in the order of the      *)
(* inserting transactions, which stands for ORDER BY created_at, id.       *)
(***************************************************************************)
EXTENDS Integers, Sequences, FiniteSets

CONSTANTS
    Resources,        \* lock names
    Kinds,            \* the operation kinds submitted, a subset of AllKinds
    Policies,         \* the retry policies requests carry
    Keys,             \* idempotency keys
    NoKey,            \* the request has no idempotency key
    Workers,          \* worker goroutines
    NoOp,             \* "no operation": NULL columns, a worker without work
    MaxOps,           \* bound: rows in the operations table
    MaxSubmissions,   \* bound: operations created by requests (not by the engine)
    MaxCalls,         \* bound: API handlers between two of their steps
    MaxBackoff,       \* bound: the longest backoff, in ticks
    MaxFaults         \* bound: terminal writes the database refuses

AllKinds == {"executor.command", "runtime", "backup", "deploy"}

\* domain/retry.go: the whitelist, and the codes no policy may retry.
DefaultRetryableCodes ==
    {"EXEC_TIMEOUT", "EXEC_EXIT_NONZERO", "RUNTIME_NOT_READY", "DAEMON_RESTARTED",
     "BACKUP_PREFLIGHT_FAILED", "BACKUP_VERIFY_FAILED"}
NeverRetryableCodes ==
    {"EXEC_CANCELLED", "PERMISSION_DENIED", "LOCK_BUSY", "SECRET_UNRESOLVED", "INTERNAL",
     "CONFIG_INVALID", "INVALID_REQUEST", "MANIFEST_INVALID"}
Codes == DefaultRetryableCodes \cup NeverRetryableCodes \cup {"DEPLOY_ROLLED_BACK", ""}

MaxRetryAttempts == 10
NoPolicy == [maxAttempts |-> 0, codes |-> {}]
PolicyType == [maxAttempts : 0..MaxRetryAttempts, codes : SUBSET DefaultRetryableCodes]

OpIds == 1..MaxOps

ASSUME BoundsAssumption ==
    /\ MaxOps \in Nat /\ MaxSubmissions \in Nat /\ MaxCalls \in Nat
    /\ MaxBackoff \in Nat \ {0} /\ MaxFaults \in Nat
ASSUME NoOpAssumption == NoOp \notin OpIds /\ NoKey \notin Keys
ASSUME PolicyAssumption == Policies \subseteq PolicyType /\ NoPolicy \in Policies
ASSUME KindAssumption == Kinds \subseteq AllKinds

VARIABLES
    ops,         \* the operations table
    locks,       \* resource_locks: owner of the unreleased lock of a resource
    audit,       \* audit_events, by operation
    daemon,      \* "up", "stopping" (SIGTERM seen), "down"
    pc,          \* where a worker goroutine is
    cur,         \* the operation a worker holds
    outcome,     \* what its execution returned
    registry,    \* cancelRegistry: operations with a registered cancel function
    signalled,   \* operations whose execution context a request cancelled
    wake,        \* Pool.wake, a channel of capacity one
    calls,       \* API handlers that are between two of their steps
    faults       \* terminal writes refused so far

dbVars     == <<ops, locks, audit>>
workerVars == <<pc, cur, outcome>>
vars == <<ops, locks, audit, daemon, pc, cur, outcome, registry, signalled, wake, calls, faults>>
-----------------------------------------------------------------------------
\* domain/operation.go
Statuses   == {"pending", "running", "succeeded", "failed", "cancelled"}
Terminal   == {"succeeded", "failed", "cancelled"}
Incomplete == {"pending", "running"}
CanRetry(s) == s \in {"failed", "cancelled"}
CanTransition(from, to) ==
    \/ from = "pending" /\ to \in {"running", "cancelled"}
    \/ from = "running" /\ to \in {"succeeded", "failed", "cancelled"}

Events == {"operation.created", "operation.retried", "lock.acquired", "daemon.recovered",
           "operation.succeeded", "operation.failed", "operation.cancelled"}
terminalEvent(s) == CASE s = "succeeded" -> "operation.succeeded"
                      [] s = "cancelled" -> "operation.cancelled"
                      [] OTHER           -> "operation.failed"

\* A row.  "absent" marks an id not handed out yet; backoff is what is left
\* until not_before; auto tells the rows the engine inserted by itself.
Operation ==
    [status : Statuses, resource : Resources, kind : Kinds, policy : PolicyType,
     key : Keys \cup {NoKey}, attempt : Nat, retryOf : OpIds \cup {NoOp},
     auto : BOOLEAN, backoff : 0..MaxBackoff, code : Codes]

AbsentOp ==
    [status |-> "absent", resource |-> NoOp, kind |-> "", policy |-> NoPolicy, key |-> NoKey,
     attempt |-> 0, retryOf |-> NoOp, auto |-> FALSE, backoff |-> 0, code |-> ""]

\* insertOperation: every row starts pending.
PendingRow(r, k, p, key, attempt, retryOf, auto, backoff) ==
    [status |-> "pending", resource |-> r, kind |-> k, policy |-> p, key |-> key,
     attempt |-> attempt, retryOf |-> retryOf, auto |-> auto, backoff |-> backoff, code |-> ""]

Known(o)  == ops[o].status # "absent"
Free      == {o \in OpIds : ~Known(o)}
NextId(o) == o \in Free /\ \A i \in Free : o <= i
On(r)     == {o \in OpIds : ops[o].resource = r /\ ops[o].status \in Incomplete}
\* Faulty variant: only running rows count.
hasIncompleteOperation_RunningOnly(r) == \E o \in On(r) : ops[o].status = "running"

hasIncompleteOperation(r) == On(r) # {}

WorkerStates == {"idle", "scan", "claimed", "exec", "finish", "done"}
Outcomes     == [status : Terminal, code : Codes]
NoOutcome    == [status |-> "succeeded", code |-> ""]
CallType     == [op : OpIds, what : {"cancel", "retry", "audit"}]
-----------------------------------------------------------------------------
\* domain/retry.go and application/worker.go: the retry decision.
Enabled(p) == p.maxAttempts > 1

Retryable(p, code) ==
    /\ Enabled(p)
    /\ code \notin NeverRetryableCodes
    /\ code \in DefaultRetryableCodes
    /\ p.codes = {} \/ code \in p.codes

planRetryFor(op, code) ==
    /\ Enabled(op.policy)
    /\ Retryable(op.policy, code)
    /\ op.attempt + 1 <= op.policy.maxAttempts

\* Only a failure has a next attempt.
planRetry(op, out) == out.status = "failed" /\ planRetryFor(op, out.code)

\* What executing an operation of a kind can end in, one representative code
\* per class, given whether its context is cancelled (by a request, or with
\* the daemon's context).  The command executor tests the caller's context
\* after the process ended; a rejected spec and a dry run come before that.
\* systemctl start is killed with the context and reported RUNTIME_NOT_READY,
\* a failed deploy is rolled back, and both may complete regardless.
CommandOutcomes(cancelled) ==
    {[status |-> "succeeded", code |-> ""], [status |-> "failed", code |-> "INVALID_REQUEST"]}
    \cup IF cancelled
         THEN {[status |-> "cancelled", code |-> "EXEC_CANCELLED"]}
         ELSE {[status |-> "failed", code |-> "EXEC_EXIT_NONZERO"]}

RuntimeOutcomes(cancelled) ==
    {[status |-> "succeeded", code |-> ""], [status |-> "failed", code |-> "RUNTIME_NOT_READY"],
     [status |-> "failed", code |-> "INTERNAL"]}
    \cup IF cancelled THEN {[status |-> "cancelled", code |-> "EXEC_CANCELLED"]} ELSE {}

BackupOutcomes(cancelled) ==
    {[status |-> "succeeded", code |-> ""], [status |-> "failed", code |-> "BACKUP_PREFLIGHT_FAILED"],
     [status |-> "failed", code |-> "CONFIG_INVALID"]}
    \cup IF cancelled THEN {[status |-> "cancelled", code |-> "EXEC_CANCELLED"]} ELSE {}

DeployOutcomes(cancelled) ==
    {[status |-> "succeeded", code |-> ""], [status |-> "failed", code |-> "DEPLOY_ROLLED_BACK"],
     [status |-> "failed", code |-> "RUNTIME_NOT_READY"], [status |-> "failed", code |-> "INTERNAL"]}
    \cup IF cancelled THEN {[status |-> "cancelled", code |-> "EXEC_CANCELLED"]} ELSE {}

ExecOutcomes(kind, cancelled) ==
    CASE kind = "executor.command" -> CommandOutcomes(cancelled)
      [] kind = "runtime"          -> RuntimeOutcomes(cancelled)
      [] kind = "backup"           -> BackupOutcomes(cancelled)
      [] OTHER                     -> DeployOutcomes(cancelled)
-----------------------------------------------------------------------------
Init ==
    /\ ops = [o \in OpIds |-> AbsentOp]
    /\ locks = [r \in Resources |-> NoOp]
    /\ audit = [o \in OpIds |-> <<>>]
    /\ daemon = "up"
    /\ pc = [w \in Workers |-> "idle"]
    /\ cur = [w \in Workers |-> NoOp]
    /\ outcome = [w \in Workers |-> NoOutcome]
    /\ registry = {} /\ signalled = {} /\ wake = FALSE /\ calls = {} /\ faults = 0

\* Requests the engine still takes: the bound on the rows they create.
SubmissionsLeft ==
    Cardinality({o \in OpIds : Known(o) /\ ~ops[o].auto})
        + Cardinality({c \in calls : c.what = "retry"}) < MaxSubmissions
CallsLeft == Cardinality(calls) < MaxCalls
Serving   == daemon # "down"

-----------------------------------------------------------------------------
(* API handlers *)

\* Service.Create and CreateOperation: an idempotency key already in use
\* answers with the row it names or IDEMPOTENCY_CONFLICT, an incomplete
\* operation on the resource with LOCK_BUSY, and neither changes anything.
NewOp(r, k, p, key) == PendingRow(r, k, p, key, 1, NoOp, FALSE, 0)

KeyInUse(key) == \E o \in OpIds : Known(o) /\ ops[o].key = key

Create(r, k, p, key) ==
    /\ Serving /\ SubmissionsLeft
    /\ key = NoKey \/ ~KeyInUse(key)
    /\ ~hasIncompleteOperation(r)
    /\ \E id \in OpIds :
          /\ NextId(id)
          /\ ops' = [ops EXCEPT ![id] = NewOp(r, k, p, key)]
          /\ audit' = [audit EXCEPT ![id] = <<"operation.created">>]
    /\ wake' = TRUE
    /\ UNCHANGED <<locks, daemon, workerVars, registry, signalled, calls, faults>>

\* Faulty variants: the WHERE clause on the status dropped; no audit event.
CancelPending_AnyIncomplete(o) ==
    /\ ops[o].status \in Incomplete
    /\ ops' = [ops EXCEPT ![o].status = "cancelled"]
    /\ audit' = [audit EXCEPT ![o] = Append(@, "operation.cancelled")]
    /\ UNCHANGED calls
CancelPending_Unaudited(o) ==
    /\ ops[o].status = "pending"
    /\ ops' = [ops EXCEPT ![o].status = "cancelled"]
    /\ UNCHANGED <<audit, calls>>

\* Service.Cancel, first transaction: a pending operation is cancelled.
CancelPending(o) ==
    /\ ops[o].status = "pending"
    /\ ops' = [ops EXCEPT ![o].status = "cancelled"]
    /\ audit' = [audit EXCEPT ![o] = Append(@, "operation.cancelled")]
    /\ UNCHANGED calls

\* The same transaction on a running operation changes nothing; the handler
\* goes on to the registry with the status it read.
CancelRunning(o) ==
    /\ ops[o].status = "running"
    /\ CallsLeft
    /\ calls' = calls \cup {[op |-> o, what |-> "cancel"]}
    /\ UNCHANGED <<ops, audit>>

Cancel(o) ==
    /\ Serving
    /\ CancelPending(o) \/ CancelRunning(o)
    /\ UNCHANGED <<locks, daemon, workerVars, registry, signalled, wake, faults>>

\* cancelRegistry.cancel: without a registered function nothing happens and
\* nobody is told.
CancelSignal(o) ==
    /\ Serving
    /\ [op |-> o, what |-> "cancel"] \in calls
    /\ calls' = calls \ {[op |-> o, what |-> "cancel"]}
    /\ signalled' = IF o \in registry THEN signalled \cup {o} ELSE signalled
    /\ UNCHANGED <<dbVars, daemon, workerVars, registry, wake, faults>>

\* Service.Retry reads the original and tests CanRetry outside any
\* transaction, ...
RetryRead(o) ==
    /\ Serving /\ CallsLeft /\ SubmissionsLeft
    /\ CanRetry(ops[o].status)
    /\ calls' = calls \cup {[op |-> o, what |-> "retry"]}
    /\ UNCHANGED <<dbVars, daemon, workerVars, registry, signalled, wake, faults>>

\* ... then creates the next attempt, not bounded by maxAttempts, without a
\* backoff and without a key, unless the resource is busy, ...
ManualRetryOp(o) ==
    PendingRow(ops[o].resource, ops[o].kind, ops[o].policy, NoKey, ops[o].attempt + 1, o, FALSE, 0)

RetryCreate(o) ==
    LET call == [op |-> o, what |-> "retry"] IN
    /\ Serving
    /\ call \in calls
    /\ \/ /\ hasIncompleteOperation(ops[o].resource)
          /\ calls' = calls \ {call}
          /\ UNCHANGED <<ops, audit>>
       \/ /\ ~hasIncompleteOperation(ops[o].resource)
          /\ \E id \in OpIds :
                /\ NextId(id)
                /\ ops' = [ops EXCEPT ![id] = ManualRetryOp(o)]
                /\ audit' = [audit EXCEPT ![id] = <<"operation.created">>]
                /\ calls' = (calls \ {call}) \cup {[op |-> id, what |-> "audit"]}
    /\ UNCHANGED <<locks, daemon, workerVars, registry, signalled, wake, faults>>

\* ... and in a third step appends the audit event and wakes a worker.
RetryAudit(o) ==
    /\ Serving
    /\ [op |-> o, what |-> "audit"] \in calls
    /\ calls' = calls \ {[op |-> o, what |-> "audit"]}
    /\ audit' = [audit EXCEPT ![o] = Append(@, "operation.retried")]
    /\ wake' = TRUE
    /\ UNCHANGED <<ops, locks, daemon, workerVars, registry, signalled, faults>>
-----------------------------------------------------------------------------
(* Workers *)

\* Faulty variant: no poll ticker, only the wake channel.
WakeUp_NoTicker(w) ==
    /\ daemon = "up" /\ pc[w] = "idle" /\ wake
    /\ pc' = [pc EXCEPT ![w] = "scan"]
    /\ wake' = FALSE
    /\ UNCHANGED <<dbVars, daemon, cur, outcome, registry, signalled, calls, faults>>

\* Pool.loop: a token in the wake channel or the poll ticker ends the wait.
WakeUp(w) ==
    /\ daemon = "up" /\ pc[w] = "idle"
    /\ pc' = [pc EXCEPT ![w] = "scan"]
    /\ wake' \in {FALSE, wake}
    /\ UNCHANGED <<dbVars, daemon, cur, outcome, registry, signalled, calls, faults>>

Runnable(o) ==
    /\ ops[o].status = "pending"
    /\ ops[o].backoff = 0
    /\ locks[ops[o].resource] = NoOp

\* ClaimNextPending: lock and status change in one transaction.
ClaimNextPending(w, o) ==
    /\ Runnable(o)
    /\ \A i \in OpIds : Runnable(i) => o <= i
    /\ locks' = [locks EXCEPT ![ops[o].resource] = o]
    /\ ops' = [ops EXCEPT ![o].status = "running"]
    /\ audit' = [audit EXCEPT ![o] = Append(@, "lock.acquired")]
    /\ cur' = [cur EXCEPT ![w] = o]
    /\ pc' = [pc EXCEPT ![w] = "claimed"]

Claim(w) ==
    /\ daemon = "up" /\ pc[w] = "scan"
    /\ \E o \in OpIds : ClaimNextPending(w, o)
    /\ UNCHANGED <<daemon, outcome, registry, signalled, wake, calls, faults>>

\* Nothing to claim, or the daemon is stopping: back to the select.
NothingToDo(w) ==
    /\ pc[w] = "scan"
    /\ daemon = "stopping" \/ (daemon = "up" /\ \A o \in OpIds : ~Runnable(o))
    /\ pc' = [pc EXCEPT ![w] = "idle"]
    /\ UNCHANGED <<dbVars, daemon, cur, outcome, registry, signalled, wake, calls, faults>>

\* execute: the cancel function is registered after the claim committed.
Register(w) ==
    /\ Serving /\ pc[w] = "claimed"
    /\ registry' = registry \cup {cur[w]}
    /\ pc' = [pc EXCEPT ![w] = "exec"]
    /\ UNCHANGED <<dbVars, daemon, cur, outcome, signalled, wake, calls, faults>>

\* The execution returns; daemon = "stopping" cancels every context.
Run(w) ==
    /\ Serving /\ pc[w] = "exec"
    /\ \E out \in ExecOutcomes(ops[cur[w]].kind, cur[w] \in signalled \/ daemon = "stopping") :
          outcome' = [outcome EXCEPT ![w] = out]
    /\ pc' = [pc EXCEPT ![w] = "finish"]
    /\ UNCHANGED <<dbVars, daemon, cur, registry, signalled, wake, calls, faults>>

\* insertRetryOperation: the next attempt of o, inserted by the engine.
AutoRetryOp(o, delay) ==
    PendingRow(ops[o].resource, ops[o].kind, ops[o].policy, NoKey, ops[o].attempt + 1, o, TRUE, delay)

\* Faulty variant: the lock row is not updated.
releaseLock_Kept(r, o) == locks

releaseLock(r, o) == [locks EXCEPT ![r] = IF @ = o THEN NoOp ELSE @]

Ended(o, out) == [ops[o] EXCEPT !.status = out.status, !.code = out.code]

\* Finish: terminal status, lock release, audit and the next attempt in one
\* transaction; a row that is not running is left alone.
FinishTx(o, out) ==
    IF ops[o].status # "running" THEN UNCHANGED <<dbVars, wake>> ELSE
    \/ /\ ~planRetry(ops[o], out)
       /\ ops' = [ops EXCEPT ![o] = Ended(o, out)]
       /\ locks' = releaseLock(ops[o].resource, o)
       /\ audit' = [audit EXCEPT ![o] = Append(@, terminalEvent(out.status))]
       /\ UNCHANGED wake
    \/ /\ planRetry(ops[o], out)
       /\ \E id \in OpIds, delay \in 1..MaxBackoff :
             /\ NextId(id)
             /\ ops' = [ops EXCEPT ![o] = Ended(o, out), ![id] = AutoRetryOp(o, delay)]
             /\ audit' = [audit EXCEPT ![o] = Append(@, terminalEvent(out.status)),
                                       ![id] = <<"operation.retried">>]
       /\ locks' = releaseLock(ops[o].resource, o)
       /\ wake' = TRUE

\* Faulty variant: the terminal status is written with the execution's own
\* context, so a cancelled execution cannot write it.
Finish_OwnContext(w) ==
    /\ Serving /\ pc[w] = "finish"
    /\ IF cur[w] \in signalled THEN UNCHANGED <<dbVars, wake>> ELSE FinishTx(cur[w], outcome[w])
    /\ pc' = [pc EXCEPT ![w] = "done"]
    /\ UNCHANGED <<daemon, cur, outcome, registry, signalled, calls, faults>>

Finish(w) ==
    /\ Serving /\ pc[w] = "finish"
    /\ FinishTx(cur[w], outcome[w])
    /\ pc' = [pc EXCEPT ![w] = "done"]
    /\ UNCHANGED <<daemon, cur, outcome, registry, signalled, calls, faults>>

\* The transaction fails and is rolled back: the error is only logged.
FinishRefused(w) ==
    /\ Serving /\ pc[w] = "finish" /\ faults < MaxFaults
    /\ faults' = faults + 1
    /\ pc' = [pc EXCEPT ![w] = "done"]
    /\ UNCHANGED <<dbVars, daemon, cur, outcome, registry, signalled, wake, calls>>

\* The deferred cleanup of execute; the loop then looks for more work.
Unregister(w) ==
    /\ Serving /\ pc[w] = "done"
    /\ registry' = registry \ {cur[w]}
    /\ signalled' = signalled \ {cur[w]}
    /\ cur' = [cur EXCEPT ![w] = NoOp]
    /\ outcome' = [outcome EXCEPT ![w] = NoOutcome]
    /\ pc' = [pc EXCEPT ![w] = "scan"]
    /\ UNCHANGED <<dbVars, daemon, wake, calls, faults>>
-----------------------------------------------------------------------------
(* Time, shutdown, crash and start-up *)

\* A unit of time passes, whether the daemon is up or not.
Tick ==
    /\ \E o \in OpIds : ops[o].backoff > 0
    /\ ops' = [o \in OpIds |-> IF ops[o].backoff > 0 THEN [ops[o] EXCEPT !.backoff = @ - 1]
                                                     ELSE ops[o]]
    /\ UNCHANGED <<locks, audit, daemon, workerVars, registry, signalled, wake, calls, faults>>

\* SIGTERM: the context of the pool and of every execution is cancelled.
Shutdown ==
    /\ daemon = "up"
    /\ daemon' = "stopping"
    /\ UNCHANGED <<dbVars, workerVars, registry, signalled, wake, calls, faults>>

\* The process ends, by itself (nobody waits for the workers) or killed.
Exit ==
    /\ Serving
    /\ daemon' = "down"
    /\ pc' = [w \in Workers |-> "idle"]
    /\ cur' = [w \in Workers |-> NoOp]
    /\ outcome' = [w \in Workers |-> NoOutcome]
    /\ registry' = {} /\ signalled' = {} /\ wake' = FALSE /\ calls' = {}
    /\ UNCHANGED <<dbVars, faults>>

\* Faulty variant: pending rows are failed too.
Stale_AllIncomplete == {o \in OpIds : ops[o].status \in Incomplete}

RestartOutcome == [status |-> "failed", code |-> "DAEMON_RESTARTED"]
Stale          == {o \in OpIds : ops[o].status = "running"}
Replayed_NoLimit == {o \in Stale : Enabled(ops[o].policy)}
Replayed       == {o \in Stale : planRetryFor(ops[o], "DAEMON_RESTARTED")}

\* The ids the next attempts get: the next free ones, in order.
FreshIds(f) ==
    /\ \A o \in Replayed : f[o] \in Free
    /\ \A o, p \in Replayed : o < p => f[o] < f[p]
    /\ \A o \in Replayed : \A i \in Free : i < f[o] => \E p \in Replayed : f[p] = i

\* RecoverRunning: one transaction over every running row.
RecoverRunning(f, delay) ==
    /\ ops' = [o \in OpIds |->
                  IF o \in Stale THEN Ended(o, RestartOutcome)
                  ELSE IF \E p \in Replayed : f[p] = o
                       THEN LET p == CHOOSE q \in Replayed : f[q] = o
                            IN AutoRetryOp(p, delay[p])
                       ELSE ops[o]]
    /\ locks' = [r \in Resources |-> IF \E o \in Stale : ops[o].resource = r /\ locks[r] = o
                                   THEN NoOp ELSE locks[r]]
    /\ audit' = [o \in OpIds |->
                  IF o \in Stale THEN Append(audit[o], "daemon.recovered")
                  ELSE IF \E p \in Replayed : f[p] = o THEN <<"operation.retried">>
                       ELSE audit[o]]

\* The start-up sequence of opsd: Recover, then the pool and the server.
Start ==
    /\ daemon = "down"
    /\ \E f \in [Replayed -> OpIds], delay \in [Replayed -> 1..MaxBackoff] :
          FreshIds(f) /\ RecoverRunning(f, delay)
    /\ daemon' = "up"
    /\ UNCHANGED <<workerVars, registry, signalled, wake, calls, faults>>
-----------------------------------------------------------------------------
Request ==
    \/ \E r \in Resources, k \in Kinds, p \in Policies, key \in Keys \cup {NoKey} :
          Create(r, k, p, key)
    \/ \E o \in OpIds : Cancel(o) \/ RetryRead(o)
Answer == \E o \in OpIds : CancelSignal(o) \/ RetryCreate(o) \/ RetryAudit(o)
WorkerStep(w) ==
    \/ WakeUp(w) \/ Claim(w) \/ NothingToDo(w) \/ Register(w)
    \/ Run(w) \/ Finish(w) \/ FinishRefused(w) \/ Unregister(w)

Next ==
    \/ Request \/ Answer
    \/ \E w \in Workers : WorkerStep(w)
    \/ Tick \/ Shutdown \/ Exit \/ Start

Spec == Init /\ [][Next]_vars

\* What the scheduling of the program guarantees: goroutines make progress,
\* handlers that started go on, time passes, the supervisor restarts opsd.
\* FinishRefused, Request, Shutdown and Exit are never due.
Fairness ==
    /\ \A w \in Workers :
          /\ WF_vars(WakeUp(w)) /\ WF_vars(Claim(w)) /\ WF_vars(NothingToDo(w))
          /\ WF_vars(Register(w)) /\ WF_vars(Run(w)) /\ WF_vars(Finish(w))
          /\ WF_vars(Unregister(w))
    /\ WF_vars(Answer) /\ WF_vars(Tick) /\ WF_vars(Start)

FairSpec == Spec /\ Fairness
-----------------------------------------------------------------------------
(* Properties *)

\* Every variable has its type.
TypeOK ==
    /\ ops \in [OpIds -> {AbsentOp} \cup Operation]
    /\ locks \in [Resources -> OpIds \cup {NoOp}]
    /\ audit \in [OpIds -> Seq(Events)]
    /\ daemon \in {"up", "stopping", "down"}
    /\ pc \in [Workers -> WorkerStates]
    /\ cur \in [Workers -> OpIds \cup {NoOp}]
    /\ outcome \in [Workers -> Outcomes]
    /\ registry \subseteq OpIds /\ signalled \subseteq OpIds
    /\ wake \in BOOLEAN
    /\ calls \subseteq CallType
    /\ faults \in 0..MaxFaults

\* hasIncompleteOperation's contract ("at most one such operation per
\* resource"): never two pending or running operations on a resource, even
\* though insertRetryOperation inserts without asking and a manual retry
\* races the automatic one.
OneIncompletePerResource ==
    \A o, p \in OpIds :
        /\ ops[o].status \in Incomplete /\ ops[p].status \in Incomplete
        /\ ops[o].resource = ops[p].resource
        => o = p

\* A resource is locked exactly while an operation on it is running, and by
\* that operation: no lock survives its operation (it would block the
\* resource for ever) and none is lost before it, crashes included.
LockMatchesRunning ==
    \A r \in Resources, o \in OpIds :
        locks[r] = o <=> ops[o].status = "running" /\ ops[o].resource = r

Executing(w) == pc[w] \in {"claimed", "exec", "finish"}

\* Two workers never execute operations of one resource at the same time,
\* and what a worker executes is marked running in the table.
ExclusiveExecution ==
    /\ \A w \in Workers : Executing(w) => cur[w] \in OpIds /\ ops[cur[w]].status = "running"
    /\ \A v, w \in Workers :
          /\ Executing(v) /\ Executing(w)
          /\ ops[cur[v]].resource = ops[cur[w]].resource
          => v = w

AutoNext(o) == {p \in OpIds : Known(p) /\ ops[p].auto /\ ops[p].retryOf = o}

\* The comment at Finish: the next attempt is stored with the failure that
\* calls for it, so no crash can lose it or schedule it twice; and no
\* operation has one that its policy does not grant (maxAttempts included).
RetryExactlyWhenDue ==
    \A o \in OpIds :
        LET due == ops[o].status = "failed" /\ planRetryFor(ops[o], ops[o].code)
        IN Cardinality(AutoNext(o)) = (IF due THEN 1 ELSE 0)

\* While the daemon runs, a running operation without a worker executing it
\* is the trace of a refused terminal write, one each: the workers lose none.
Orphans ==
    {o \in OpIds : ops[o].status = "running" /\ \A w \in Workers : ~(Executing(w) /\ cur[w] = o)}
OrphansAreRefusedWrites == daemon = "up" => Cardinality(Orphans) <= faults

\* An idempotency key names one operation: the unique index of migration
\* 0001 is never what stops an insert.
KeyNamesOneOperation ==
    \A o, p \in OpIds :
        Known(o) /\ Known(p) /\ ops[o].key = ops[p].key /\ ops[o].key # NoKey => o = p

\* The audit trail tells the status of an operation: it says "acquired" iff
\* the operation ever ran, has exactly one closing event iff the operation
\* is terminal, and the closing event is the one of its status.
Closing == {"operation.succeeded", "operation.failed", "operation.cancelled", "daemon.recovered"}
Count(o, E) == Cardinality({i \in DOMAIN audit[o] : audit[o][i] \in E})
AuditTellsStatus ==
    \A o \in OpIds :
        /\ Count(o, Closing) = (IF ops[o].status \in Terminal THEN 1 ELSE 0)
        /\ ops[o].status = "running" => Count(o, {"lock.acquired"}) = 1
        /\ ops[o].status = "pending" => Count(o, {"lock.acquired"}) = 0
        /\ ops[o].status = "failed" /\ ops[o].code = "DAEMON_RESTARTED"
              => Count(o, {"daemon.recovered"}) = 1
        /\ ops[o].status \in {"succeeded", "cancelled"}
              => Count(o, {terminalEvent(ops[o].status)}) = 1

\* The state machine of domain/operation.go: no SQL statement consults
\* CanTransition, and still every change of a status is one it allows; in
\* particular a terminal status never changes.
StatusFollowsStateMachine ==
    [][\A o \in OpIds :
          Known(o) /\ ops'[o].status # ops[o].status
              => CanTransition(ops[o].status, ops'[o].status)]_vars

\* Once the daemon stays up, every pending operation reaches a terminal
\* status: no resource, worker or backoff holds it for ever.
EveryOperationEnds ==
    <>[](daemon = "up") =>
        \A o \in OpIds : ops[o].status \in Incomplete ~> ops[o].status \in Terminal

\* The engine implements the contract of OneAtATime.
LaneOf(r) == IF \E o \in OpIds : ops[o].resource = r /\ ops[o].status = "running" THEN "busy"
             ELSE IF hasIncompleteOperation(r) THEN "queued" ELSE "free"
Contract == INSTANCE OneAtATime WITH lane <- [r \in Resources |-> LaneOf(r)]
ImplementsContract == Contract!Spec
-----------------------------------------------------------------------------
(* What the documentation says and the code does not keep *)

\* "服务端通过 context 取消进程" (docs/plans/2026-09-21-iteration-0.md:125): the
\* handler that read "running" cancels the execution if it is still running.
CancelReachesExecution ==
    [][\A o \in OpIds :
          /\ [op |-> o, what |-> "cancel"] \in calls
          /\ [op |-> o, what |-> "cancel"] \notin calls'
          /\ ops[o].status = "running" /\ daemon' = "up"
          => o \in signalled']_vars

\* "取消优先：链上任一跳被取消后，不再排新的尝试"
\* (docs/plans/2026-09-21-iteration-1d.md:345): an operation whose execution
\* ran with its context cancelled by a request gets no next attempt.
CancelStopsTheChain ==
    [][\A w \in Workers :
          /\ pc[w] = "exec" /\ pc'[w] = "finish" /\ cur[w] \in signalled
          => ~planRetry(ops[cur[w]], outcome'[w])]_vars

\* "「第几次尝试」这件事永远只有一个说法" (application/service.go:363): the
\* attempts of one operation carry different numbers.
AttemptNumbersAreUnique ==
    \A o, p \in OpIds :
        Known(o) /\ Known(p) /\ ops[o].retryOf # NoOp
            /\ ops[o].retryOf = ops[p].retryOf /\ ops[o].attempt = ops[p].attempt
        => o = p

\* "EXEC_CANCELLED: 用户主动取消" (domain/retry.go:91): a running operation ends
\* as cancelled only when a request cancelled it.
CancelledByRequest ==
    [][\A o \in OpIds :
          ops[o].status = "running" /\ ops'[o].status = "cancelled" => o \in signalled]_vars
=============================================================================
