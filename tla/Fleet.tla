-------------------------------- MODULE Fleet --------------------------------
(***************************************************************************)
(* One version brought to several hosts, wave by wave, by the command line  *)
(* client (internal/fleet, cmd/opsctl/batch.go).                            *)
(*                                                                          *)
(* The client keeps no state: the name of the batch is the idempotency key  *)
(* on every host, each host runs the deployment it accepted on its own, and *)
(* the client only asks how it went.  It may be killed at any moment and    *)
(* started again under the same name.  Requests and answers get lost; a     *)
(* host that does not answer in time is reported as failed although its     *)
(* deployment may be running.                                               *)
(*                                                                          *)
(* What a host does with a submission (PrepareDeploy, PrepareRollback, the  *)
(* key in CreateOperation) is here one action; OpEngine, Deploy and Slots   *)
(* have it in full.  The command passes a context nobody cancels.           *)
(***************************************************************************)
EXTENDS Integers, FiniteSets

CONSTANTS
  Hosts,         \* numbers, in the order they were named
  Registered,    \* hosts that know the application (and the version to roll back to)
  Stocked,       \* hosts that have the artifact from the start
  Action,        \* "deploy" or "rollback"
  BatchSize, Concurrency,
  MaxRuns, MaxLost, MaxForeign   \* bounds: starts, lost messages, acts of others

ASSUME FleetAssumption ==
  /\ Hosts \subseteq Nat /\ IsFiniteSet(Hosts) /\ Hosts # {}
  /\ Registered \subseteq Hosts /\ Stocked \subseteq Hosts
  /\ Action \in {"deploy", "rollback"}
  /\ {BatchSize, Concurrency, MaxRuns, MaxLost, MaxForeign} \subseteq Nat

VARIABLES
  flags,     \* what the operator asked for in this run
  phase,     \* of the client
  wave,      \* hosts of the round in progress
  result,    \* what the client knows of each host
  runs, lost, foreign,
  active,    \* hosts: is the wanted version the active one
  artifact,  \* hosts: do they have the artifact
  op,        \* hosts: the operation with the key of this batch
  made,      \* history: operations this batch has made, by host
  meddled    \* history: hosts another operator has worked on

vars == <<flags, phase, wave, result, runs, lost, foreign, active, artifact, op, made, meddled>>

\* A local file to stock the hosts from, --allow-partial, --keep-going.
Flags == [file : BOOLEAN, partial : BOOLEAN, keepGoing : BOOLEAN]

host == <<active, artifact, op>>
history == <<made, meddled>>

Final == {"succeeded", "failed", "skipped", "notRun"}
OpStates == {"none", "pending", "running", "succeeded", "failed", "cancelled"}
Unknown == [status |-> "", why |-> ""]
Outcome(status, why) == [status |-> status, why |-> why]

Init ==
  /\ flags = [file |-> FALSE, partial |-> FALSE, keepGoing |-> FALSE]
  /\ phase = "idle" /\ wave = {}
  /\ result = [h \in Hosts |-> Unknown]
  /\ runs = 0 /\ lost = 0 /\ foreign = 0
  /\ active = [h \in Hosts |-> FALSE]
  /\ artifact = [h \in Hosts |-> h \in Stocked]
  /\ op = [h \in Hosts |-> "none"]
  /\ made = [h \in Hosts |-> 0] /\ meddled = {}

-----------------------------------------------------------------------------
\* validate: no size means all hosts, no limit (or a larger one) means the size.
WaveSize == IF BatchSize = 0 THEN Cardinality(Hosts) ELSE BatchSize
Limit == IF Concurrency = 0 \/ Concurrency > WaveSize THEN WaveSize ELSE Concurrency

With(status) == {h \in Hosts : result[h].status = status}
InFlight == With("preparing") \union With("submitting") \union With("waiting")

First(n, hosts) == {h \in hosts : Cardinality({g \in hosts : g < h}) < n}

\* forEachConcurrent: in order, and no more at a time than the limit.
Launch(h, step) ==
  /\ h \in wave /\ result[h] = Unknown
  /\ \A g \in wave : result[g] = Unknown => h <= g
  /\ Cardinality(InFlight) < Limit
  /\ result' = [result EXCEPT ![h].status = step]

Loses == lost < MaxLost /\ lost' = lost + 1

Run ==
  /\ phase = "idle" /\ runs < MaxRuns
  /\ runs' = runs + 1 /\ flags' \in Flags
  /\ phase' = "prepare" /\ wave' = Hosts
  /\ result' = [h \in Hosts |-> Unknown]
  /\ UNCHANGED <<lost, foreign, host, made, meddled>>

\* The client is killed: its report is gone, the hosts go on.
Killed ==
  /\ phase \notin {"idle"}
  /\ phase' = "idle" /\ wave' = {}
  /\ result' = [h \in Hosts |-> Unknown]
  /\ UNCHANGED <<flags, runs, lost, foreign, host, history>>

-----------------------------------------------------------------------------
\* Phase one, before any deployment.
PrepareOne(h) ==
  /\ phase = "prepare" /\ Launch(h, "preparing")
  /\ UNCHANGED <<flags, phase, wave, runs, lost, foreign, host, history>>

\* ensureArtifact, ensureRollbackTarget: what a reachable host must have, or be given.
Prepared(h) ==
  /\ phase = "prepare" /\ result[h].status = "preparing"
  /\ \/ /\ h \in Registered
        /\ Action = "deploy" => artifact[h] \/ flags.file
        /\ artifact' = [artifact EXCEPT ![h] = @ \/ (Action = "deploy")]
        /\ result' = [result EXCEPT ![h] = Outcome("ready", "")]
        /\ UNCHANGED lost
     \/ /\ h \notin Registered \/ (Action = "deploy" /\ ~artifact[h] /\ ~flags.file)
        /\ result' = [result EXCEPT ![h] = Outcome("skipped", "unfit")]
        /\ UNCHANGED <<artifact, lost>>
     \/ /\ Loses
        /\ result' = [result EXCEPT ![h] = Outcome("skipped", "lost")]
        /\ UNCHANGED artifact
  /\ UNCHANGED <<flags, phase, wave, runs, foreign, active, op, history>>

RoundOver == wave # {} /\ \A h \in wave : result[h].status \in Final \union {"ready"}

\* The hosts that are ready and have had no wave yet.
Pending == With("ready")

NextWave(pending) ==
  /\ phase' = IF pending = {} THEN "done" ELSE "wave"
  /\ wave' = First(WaveSize, pending)
  /\ result' = [h \in Hosts |-> IF h \in wave' THEN Unknown ELSE result[h]]

\* Nothing is touched when a host is not fit, unless the operator said otherwise; the
\* others get an outcome too.
PrepareEnds ==
  /\ phase = "prepare" /\ RoundOver
  /\ IF With("skipped") # {} /\ ~flags.partial
     THEN /\ phase' = "refused" /\ wave' = {}
          /\ result' = [h \in Hosts |-> IF result[h].status = "ready"
                                        THEN Outcome("notRun", "refused") ELSE result[h]]
     ELSE NextWave(Pending)
  /\ UNCHANGED <<flags, runs, lost, foreign, host, history>>

-----------------------------------------------------------------------------
\* Phase two.
RunOne(h) ==
  /\ phase = "wave" /\ Launch(h, "submitting")
  /\ UNCHANGED <<flags, phase, wave, runs, lost, foreign, host, made, meddled>>

Incomplete(h) == op[h] \in {"pending", "running"}

\* The version is active already: a deployment has nothing to do, a rollback is refused.
AlreadyThere(h, answer) ==
  /\ active[h]
  /\ answer = IF Action = "deploy" THEN Outcome("succeeded", "noop") ELSE Outcome("failed", "refused")
  /\ UNCHANGED <<op, made>>

Replayed_NewKeyEachRun(h, answer) ==
  /\ ~active[h] /\ op[h] # "none"
  /\ answer = Outcome("waiting", "")
  /\ op' = [op EXCEPT ![h] = "pending"]
  /\ made' = [made EXCEPT ![h] = @ + 1]

\* The key is known: the operation it names is the answer, however it ended.
Replayed(h, answer) ==
  /\ ~active[h] /\ op[h] # "none"
  /\ answer = Outcome("waiting", "")
  /\ UNCHANGED <<op, made>>

Accepted(h, answer) ==
  /\ ~active[h] /\ op[h] = "none"
  /\ answer = Outcome("waiting", "")
  /\ op' = [op EXCEPT ![h] = "pending"]
  /\ made' = [made EXCEPT ![h] = @ + 1]

Delivered(h, answer) == AlreadyThere(h, answer) \/ Replayed(h, answer) \/ Accepted(h, answer)

Answers == {Outcome("waiting", ""), Outcome("succeeded", "noop"), Outcome("failed", "refused")}

Submitted(h) ==
  /\ phase = "wave" /\ result[h].status = "submitting"
  /\ \E answer \in Answers :
       /\ Delivered(h, answer)
       /\ \/ UNCHANGED lost /\ result' = [result EXCEPT ![h] = answer]
          \/ Loses /\ result' = [result EXCEPT ![h] = Outcome("failed", "lost")]
  /\ UNCHANGED <<flags, phase, wave, runs, foreign, active, artifact, meddled>>

SubmissionLost(h) ==
  /\ phase = "wave" /\ result[h].status = "submitting"
  /\ Loses
  /\ result' = [result EXCEPT ![h] = Outcome("failed", "lost")]
  /\ UNCHANGED <<flags, phase, wave, runs, foreign, host, history>>

\* waitForOperation: a question without an answer is asked again.
Observed_AnyEndIsGood(h) ==
  /\ phase = "wave" /\ result[h].status = "waiting" /\ ~Incomplete(h)
  /\ result' = [result EXCEPT ![h] = Outcome("succeeded", "operation")]
  /\ UNCHANGED <<flags, phase, wave, runs, lost, foreign, host, history>>

Observed(h) ==
  /\ phase = "wave" /\ result[h].status = "waiting" /\ ~Incomplete(h)
  /\ result' = [result EXCEPT ![h] =
       Outcome(IF op[h] = "succeeded" THEN "succeeded" ELSE "failed", "operation")]
  /\ UNCHANGED <<flags, phase, wave, runs, lost, foreign, host, history>>

TimedOut_Never(h) == FALSE /\ UNCHANGED vars

\* pollTimeout: the client gives up, the host does not.
TimedOut(h) ==
  /\ phase = "wave" /\ result[h].status = "waiting"
  /\ result' = [result EXCEPT ![h] = Outcome("failed", "unheard")]
  /\ UNCHANGED <<flags, phase, wave, runs, lost, foreign, host, history>>

WaveEnds_GoesOn ==
  /\ phase = "wave" /\ RoundOver
  /\ NextWave(Pending)
  /\ UNCHANGED <<flags, runs, lost, foreign, host, history>>

\* A failure in the wave stops the batch; what is left is not run.
WaveEnds ==
  /\ phase = "wave" /\ RoundOver
  /\ IF (\E h \in wave : result[h].status = "failed") /\ ~flags.keepGoing
     THEN /\ phase' = "done" /\ wave' = {}
          /\ result' = [h \in Hosts |-> IF h \in Pending THEN Outcome("notRun", "stopped")
                                                         ELSE result[h]]
     ELSE NextWave(Pending)
  /\ UNCHANGED <<flags, runs, lost, foreign, host, history>>

-----------------------------------------------------------------------------
\* The hosts.
OperationRuns(h) ==
  /\ \/ op[h] = "pending" /\ op' = [op EXCEPT ![h] = "running"] /\ UNCHANGED active
     \/ /\ op[h] = "running"
        /\ \/ op' = [op EXCEPT ![h] = "succeeded"] /\ active' = [active EXCEPT ![h] = TRUE]
           \/ op' = [op EXCEPT ![h] = "failed"] /\ UNCHANGED active
  /\ UNCHANGED <<flags, phase, wave, result, runs, lost, foreign, artifact, history>>

\* Another operator deploys something else, retries a failed operation of this batch, or
\* cancels one.
Meddle(h) ==
  /\ foreign < MaxForeign /\ foreign' = foreign + 1
  /\ meddled' = meddled \union {h}
  /\ \/ ~Incomplete(h) /\ active[h] /\ active' = [active EXCEPT ![h] = FALSE] /\ UNCHANGED op
     \/ op[h] = "failed" /\ active' = [active EXCEPT ![h] = TRUE] /\ UNCHANGED op
     \/ Incomplete(h) /\ op' = [op EXCEPT ![h] = "cancelled"] /\ UNCHANGED active
  /\ UNCHANGED <<flags, phase, wave, result, runs, lost, artifact, made>>

Client ==
  \/ \E h \in Hosts : \/ PrepareOne(h) \/ Prepared(h) \/ RunOne(h) \/ Submitted(h)
                      \/ SubmissionLost(h) \/ Observed(h) \/ TimedOut(h)
  \/ PrepareEnds
  \/ WaveEnds

Next ==
  \/ Run
  \/ Killed
  \/ Client
  \/ \E h \in Hosts : OperationRuns(h) \/ Meddle(h)

\* The client works on as long as it is there; a host may hang.
Spec == Init /\ [][Next]_vars /\ WF_vars(Client)

-----------------------------------------------------------------------------
\* Every variable keeps its type, whatever the hosts answer (the fields of Report,
\* HostResult and Request).
TypeOK ==
  /\ flags \in Flags
  /\ phase \in {"idle", "prepare", "wave", "done", "refused"}
  /\ wave \subseteq Hosts /\ meddled \subseteq Hosts
  /\ result \in [Hosts -> [status : Final \union {"", "preparing", "ready", "submitting", "waiting"},
                           why : {"", "unfit", "lost", "refused", "noop", "operation", "unheard",
                                  "stopped"}]]
  /\ runs \in 0 .. MaxRuns /\ lost \in 0 .. MaxLost /\ foreign \in 0 .. MaxForeign
  /\ active \in [Hosts -> BOOLEAN] /\ artifact \in [Hosts -> BOOLEAN] /\ op \in [Hosts -> OpStates]
  /\ made \in [Hosts -> Nat]

\* No host hears of the batch while an earlier wave has a failure, for whatever reason the
\* client believes in it (failedInWave in Run).
FailureStopsTheNextWave ==
  flags.keepGoing \/ \A h \in Hosts : result[h].status = "failed" /\ h \notin wave =>
    phase # "wave"

\* A batch makes at most one operation on a host, however often it is started again and
\* whatever was lost (the batch is the idempotency key).
OneOperationPerHost == \A h \in Hosts : made[h] <= 1

\* A host that is reported succeeded runs the version, unless another operator changed it.
ReportedSuccessIsTrue ==
  \A h \in Hosts \ meddled : result[h].status = "succeeded" => active[h]

\* A batch that was started ends, also when a host never finishes its operation.
BatchEnds == (phase = "prepare") ~> (phase \in {"done", "refused", "idle"})

-----------------------------------------------------------------------------
(* What the documentation says and the code does not keep *)

\* batch.go: a batch of the same name skips the hosts that are done.
DoneHostsAreSkipped ==
  \A h \in Hosts \ meddled : op[h] = "succeeded" => result[h] # Outcome("failed", "refused")

=============================================================================
