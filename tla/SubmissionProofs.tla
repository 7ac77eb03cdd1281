--------------------------- MODULE SubmissionProofs --------------------------
(***************************************************************************)
(* Proofs about what is submitted for deployment.                          *)
(*                                                                         *)
(* To a fleet: the rollout of a batch, for any hosts, wave sizes and       *)
(* limits, any number of starts under the same name, lost messages and     *)
(* acts of other operators.                                                *)
(*                                                                         *)
(* To one daemon: what becomes of a manifest, for any documents, clients,  *)
(* versions and artifacts.                                                 *)
(*                                                                         *)
(* And the artifacts they name: which contents stay and which go, for any  *)
(* contents and requests, overlapping as they may.                         *)
(***************************************************************************)
EXTENDS Fleet, Manifests, Artifacts, FiniteSetTheorems, TLAPS

\* The rollout.

Statuses == Final \union {"", "preparing", "ready", "submitting", "waiting"}
Reasons == {"", "unfit", "lost", "refused", "noop", "operation", "unheard", "stopped"}
ResultType == [status : Statuses, why : Reasons]

\* Only hosts of the round in progress are being worked on; before the first
\* wave every host is in the round, and no deployment has been asked for.
RoundInv ==
  /\ \A h \in Hosts : result[h].status \in {"preparing", "submitting", "waiting"} => h \in wave
  /\ phase = "prepare" =>
       /\ wave = Hosts
       /\ \A h \in Hosts : result[h].status \notin {"submitting", "waiting", "succeeded", "failed"}

\* An operation of the batch exists on a host exactly when one was made there.
MadeInv == \A h \in Hosts : made[h] = IF op[h] = "none" THEN 0 ELSE 1

\* What the batch deployed is there until another operator changes it.
DeployedInv ==
  \A h \in Hosts \ meddled :
    op[h] = "succeeded" \/ result[h].status = "succeeded" => active[h]

IInv ==
  /\ TypeOK
  /\ RoundInv /\ FailureStopsTheNextWave
  /\ MadeInv
  /\ DeployedInv

-----------------------------------------------------------------------------
LEMMA ResultTypeOK == TypeOK => result \in [Hosts -> ResultType]
  BY DEF TypeOK, ResultType, Statuses, Reasons

\* The outcomes that the client writes down are results.
LEMMA OutcomeType ==
  ASSUME NEW s \in Statuses, NEW w \in Reasons
  PROVE  /\ Outcome(s, w) \in ResultType
         /\ Outcome(s, w).status = s
  BY DEF Outcome, ResultType

\* A round that begins takes hosts that are ready and starts them afresh.
LEMMA NextWaveResult ==
  ASSUME TypeOK, NEW pending, pending \subseteq Hosts, NextWave(pending)
  PROVE  /\ wave' \subseteq pending /\ phase' \in {"done", "wave"}
         /\ result' \in [Hosts -> ResultType]
         /\ \A h \in Hosts : h \in wave' => result'[h].status = ""
         /\ \A h \in Hosts : h \notin wave' => result'[h] = result[h]
  <1>1. Unknown \in ResultType /\ Unknown.status = ""
    BY DEF Unknown, ResultType, Statuses, Reasons
  <1> QED BY <1>1, ResultTypeOK DEF NextWave, First

LEMMA InitInv == Init => IInv
  <1> SUFFICES ASSUME Init PROVE IInv
    OBVIOUS
  <1>1. /\ Unknown \in ResultType /\ Unknown.status = ""
    BY DEF Unknown, ResultType, Statuses, Reasons
  <1>2. TypeOK
    <2>1. result \in [Hosts -> ResultType]
      BY <1>1 DEF Init
    <2>2. MaxRuns \in Nat /\ MaxLost \in Nat /\ MaxForeign \in Nat
      BY FleetAssumption
    <2>3. runs \in 0 .. MaxRuns /\ lost \in 0 .. MaxLost /\ foreign \in 0 .. MaxForeign
      BY <2>2 DEF Init
    <2>4. /\ op \in [Hosts -> OpStates] /\ made \in [Hosts -> Nat]
          /\ active \in [Hosts -> BOOLEAN] /\ artifact \in [Hosts -> BOOLEAN]
      BY DEF Init, OpStates
    <2>5. /\ flags \in Flags /\ wave \subseteq Hosts /\ meddled \subseteq Hosts
          /\ phase \in {"idle", "prepare", "wave", "done", "refused"}
      BY DEF Init, Flags
    <2> QED BY <2>1, <2>3, <2>4, <2>5 DEF TypeOK, ResultType, Statuses, Reasons
  <1>3. RoundInv /\ FailureStopsTheNextWave /\ MadeInv /\ DeployedInv
    BY <1>1 DEF Init, RoundInv, FailureStopsTheNextWave, MadeInv, DeployedInv
  <1> QED BY <1>2, <1>3 DEF IInv

LEMMA LosesType == ASSUME TypeOK, Loses PROVE lost' \in 0 .. MaxLost
  <1>1. MaxLost \in Nat /\ lost \in 0 .. MaxLost
    BY FleetAssumption DEF TypeOK
  <1> QED BY <1>1 DEF Loses

LEMMA StutterStep == ASSUME IInv, UNCHANGED vars PROVE IInv'
  BY DEF IInv, vars, TypeOK, RoundInv, FailureStopsTheNextWave, MadeInv, DeployedInv

\* The client starts over, or is killed: it knows nothing of any host.
LEMMA RunStep == ASSUME IInv, Run \/ Killed PROVE IInv'
  <1>1. /\ \A h \in Hosts : result'[h].status = ""
        /\ result' \in [Hosts -> ResultType]
    <2>1. result' = [h \in Hosts |-> Unknown]
      BY DEF Run, Killed
    <2>2. Unknown \in ResultType /\ Unknown.status = ""
      BY DEF Unknown, ResultType, Statuses, Reasons
    <2> QED BY <2>1, <2>2
  <1>2. /\ (phase' = "prepare" /\ wave' = Hosts) \/ (phase' = "idle" /\ wave' = {})
        /\ UNCHANGED <<lost, foreign, active, artifact, op, made, meddled>>
    BY DEF Run, Killed, host, history
  <1>3. TypeOK'
    <2>1. runs' \in 0 .. MaxRuns
      <3>1. MaxRuns \in Nat /\ runs \in 0 .. MaxRuns
        BY FleetAssumption DEF IInv, TypeOK
      <3>2. runs' = runs \/ (runs < MaxRuns /\ runs' = runs + 1)
        BY DEF Run, Killed
      <3> QED BY <3>1, <3>2
    <2>2. flags' \in Flags
      BY DEF IInv, TypeOK, Run, Killed
    <2> QED BY <2>1, <2>2, <1>1, <1>2 DEF IInv, TypeOK, ResultType, Statuses, Reasons
  <1>4. RoundInv' /\ FailureStopsTheNextWave'
    BY <1>1, <1>2 DEF RoundInv, FailureStopsTheNextWave
  <1>5. MadeInv' /\ DeployedInv'
    BY <1>1, <1>2 DEF IInv, MadeInv, DeployedInv
  <1> QED BY <1>3, <1>4, <1>5 DEF IInv

\* The client writes down what it learned of one host of the round, and that
\* is not a success: nothing is claimed of the hosts.
LEMMA NotedStep ==
  ASSUME IInv, NEW h \in wave, h \in Hosts,
         result' \in [Hosts -> ResultType],
         \A g \in Hosts : g # h => result'[g] = result[g],
         result'[h].status # "succeeded",
         phase = "prepare" => result'[h].status \notin {"submitting", "waiting", "failed"},
         lost' \in 0 .. MaxLost, artifact' \in [Hosts -> BOOLEAN],
         UNCHANGED <<flags, phase, wave, runs, foreign, active, op, history>>
  PROVE  IInv'
  <1>1. TypeOK'
    BY DEF IInv, TypeOK, ResultType, Statuses, Reasons, history
  <1>2. RoundInv' /\ FailureStopsTheNextWave'
    BY DEF IInv, RoundInv, FailureStopsTheNextWave
  <1>3. MadeInv' /\ DeployedInv'
    BY DEF IInv, MadeInv, DeployedInv, history
  <1> QED BY <1>1, <1>2, <1>3 DEF IInv

LEMMA LaunchStep ==
  ASSUME IInv, NEW h \in Hosts, PrepareOne(h) \/ RunOne(h)
  PROVE  IInv'
  <1>1. h \in wave /\ result \in [Hosts -> ResultType]
    BY ResultTypeOK DEF IInv, PrepareOne, RunOne, Launch
  <1>2. PICK s \in {"preparing", "submitting"} :
          /\ result' = [result EXCEPT ![h].status = s]
          /\ phase = "prepare" => s = "preparing"
    BY DEF PrepareOne, RunOne, Launch
  <1>3. /\ result' \in [Hosts -> ResultType] /\ result'[h].status = s
        /\ \A g \in Hosts : g # h => result'[g] = result[g]
    BY <1>1, <1>2 DEF ResultType, Statuses
  <1>4. /\ lost' \in 0 .. MaxLost /\ artifact' \in [Hosts -> BOOLEAN]
        /\ UNCHANGED <<flags, phase, wave, runs, foreign, active, op, history>>
    BY DEF IInv, TypeOK, PrepareOne, RunOne, host, history
  <1> QED BY <1>1, <1>2, <1>3, <1>4, NotedStep

\* The same when an outcome takes the place of what was known.
LEMMA OutcomeStep ==
  ASSUME IInv, NEW h \in wave, h \in Hosts,
         NEW s \in Statuses \ {"succeeded"}, NEW w \in Reasons,
         result' = [result EXCEPT ![h] = Outcome(s, w)],
         phase = "prepare" => s \notin {"submitting", "waiting", "failed"},
         lost' \in 0 .. MaxLost, artifact' \in [Hosts -> BOOLEAN],
         UNCHANGED <<flags, phase, wave, runs, foreign, active, op, history>>
  PROVE  IInv'
  <1>1. Outcome(s, w) \in ResultType /\ Outcome(s, w).status = s
    BY OutcomeType
  <1>2. /\ result' \in [Hosts -> ResultType] /\ result'[h].status = s
        /\ \A g \in Hosts : g # h => result'[g] = result[g]
    BY <1>1, ResultTypeOK DEF IInv
  <1> QED BY <1>2, NotedStep

LEMMA PreparedStep == ASSUME IInv, NEW h \in Hosts, Prepared(h) PROVE IInv'
  <1>1. h \in wave /\ phase = "prepare"
    BY DEF IInv, RoundInv, Prepared
  <1>2. /\ artifact' \in [Hosts -> BOOLEAN]
        /\ lost' \in 0 .. MaxLost
        /\ UNCHANGED <<flags, phase, wave, runs, foreign, active, op, history>>
    <2>1. lost' = lost \/ Loses
      BY DEF Prepared
    <2>2. artifact' = artifact \/ artifact' = [artifact EXCEPT ![h] = @ \/ (Action = "deploy")]
      BY DEF Prepared
    <2>3. artifact' \in [Hosts -> BOOLEAN]
      BY <2>2, Zenon DEF IInv, TypeOK
    <2> QED BY <2>1, <2>3, LosesType DEF IInv, TypeOK, Prepared
  <1>3. PICK s \in {"ready", "skipped"}, w \in Reasons :
          result' = [result EXCEPT ![h] = Outcome(s, w)]
    BY DEF Prepared, Reasons
  <1> QED BY <1>1, <1>2, <1>3, OutcomeStep DEF Statuses, Final

LEMMA PrepareEndsStep == ASSUME IInv, PrepareEnds PROVE IInv'
  <1>1. \A h \in Hosts : result[h].status \in {"ready", "skipped", "notRun"}
    BY DEF IInv, RoundInv, PrepareEnds, RoundOver, Final
  <1>2. UNCHANGED <<flags, runs, lost, foreign, active, artifact, op, made, meddled>>
    BY DEF PrepareEnds, host, history
  <1>3. /\ wave' \subseteq Hosts /\ phase' \in {"refused", "done", "wave"}
        /\ result' \in [Hosts -> ResultType]
        /\ \A h \in Hosts : result'[h].status \in {"", "ready", "skipped", "notRun"}
    <2>1. CASE NextWave(Pending)
      <3>1. Pending \subseteq Hosts
        BY DEF Pending, With
      <3> QED BY <2>1, <3>1, <1>1, NextWaveResult DEF IInv
    <2>2. CASE /\ phase' = "refused" /\ wave' = {}
               /\ result' = [h \in Hosts |-> IF result[h].status = "ready"
                                             THEN Outcome("notRun", "refused") ELSE result[h]]
      <3>1. Outcome("notRun", "refused") \in ResultType /\ Outcome("notRun", "refused").status = "notRun"
        BY OutcomeType DEF Statuses, Reasons, Final
      <3> QED BY <2>2, <3>1, <1>1, ResultTypeOK DEF IInv
    <2> QED BY <2>1, <2>2 DEF PrepareEnds
  <1>4. TypeOK'
    BY <1>2, <1>3 DEF IInv, TypeOK, ResultType, Statuses, Reasons
  <1>5. RoundInv' /\ FailureStopsTheNextWave'
    BY <1>3 DEF RoundInv, FailureStopsTheNextWave
  <1>6. MadeInv' /\ DeployedInv'
    BY <1>2, <1>3 DEF IInv, MadeInv, DeployedInv
  <1> QED BY <1>4, <1>5, <1>6 DEF IInv

LEMMA WaveEndsStep == ASSUME IInv, WaveEnds PROVE IInv'
  <1>1. /\ \A h \in Hosts : result[h].status \notin {"preparing", "submitting", "waiting"}
        /\ phase = "wave"
    BY DEF IInv, RoundInv, WaveEnds, RoundOver, Final
  <1>2. UNCHANGED <<flags, runs, lost, foreign, active, artifact, op, made, meddled>>
    BY DEF WaveEnds, host, history
  <1>3. /\ wave' \subseteq Hosts /\ phase' \in {"done", "wave"}
        /\ result' \in [Hosts -> ResultType]
        /\ \A h \in Hosts : result'[h].status \in {"", "notRun", result[h].status}
        /\ ~flags.keepGoing => phase' = "done" \/ \A h \in Hosts : result[h].status # "failed"
    <2>1. CASE NextWave(Pending) /\ (flags.keepGoing \/ \A h \in wave : result[h].status # "failed")
      <3>1. Pending \subseteq Hosts
        BY DEF Pending, With
      <3>2. flags.keepGoing \/ \A h \in Hosts : result[h].status # "failed"
        BY <2>1, <1>1 DEF IInv, FailureStopsTheNextWave
      <3> QED BY <2>1, <3>1, <3>2, NextWaveResult DEF IInv
    <2>2. CASE /\ phase' = "done" /\ wave' = {}
               /\ result' = [h \in Hosts |-> IF h \in Pending THEN Outcome("notRun", "stopped")
                                                              ELSE result[h]]
      <3>1. Outcome("notRun", "stopped") \in ResultType /\ Outcome("notRun", "stopped").status = "notRun"
        BY OutcomeType DEF Statuses, Reasons, Final
      <3> QED BY <2>2, <3>1, ResultTypeOK DEF IInv
    <2> QED BY <2>1, <2>2 DEF WaveEnds
  <1>4. TypeOK'
    BY <1>2, <1>3 DEF IInv, TypeOK, ResultType, Statuses, Reasons
  <1>5. RoundInv' /\ FailureStopsTheNextWave'
    BY <1>1, <1>2, <1>3 DEF RoundInv, FailureStopsTheNextWave
  <1>6. MadeInv' /\ DeployedInv'
    BY <1>2, <1>3 DEF IInv, MadeInv, DeployedInv
  <1> QED BY <1>4, <1>5, <1>6 DEF IInv

-----------------------------------------------------------------------------
\* What a host does with a submission: the batch has no second operation on it,
\* and a success is answered only where the version is active.
LEMMA DeliveredKeeps ==
  ASSUME IInv, NEW h \in Hosts, NEW answer, Delivered(h, answer)
  PROVE  /\ op' \in [Hosts -> OpStates] /\ made' \in [Hosts -> Nat]
         /\ \A g \in Hosts : made'[g] = IF op'[g] = "none" THEN 0 ELSE 1
         /\ \A g \in Hosts : op'[g] = "succeeded" => op[g] = "succeeded"
         /\ answer.status = "succeeded" => active[h]
         /\ \E s \in {"waiting", "succeeded", "failed"}, w \in Reasons : answer = Outcome(s, w)
  <1>1. /\ op \in [Hosts -> OpStates] /\ made \in [Hosts -> Nat]
        /\ \A g \in Hosts : made[g] = IF op[g] = "none" THEN 0 ELSE 1
    BY DEF IInv, TypeOK, MadeInv
  <1>2. \A s \in Statuses, w \in Reasons : Outcome(s, w).status = s
    BY OutcomeType
  <1>3. CASE AlreadyThere(h, answer)
    <2>1. active[h] /\ op' = op /\ made' = made
      BY <1>3 DEF AlreadyThere
    <2>2. answer = Outcome("succeeded", "noop") \/ answer = Outcome("failed", "refused")
      BY <1>3 DEF AlreadyThere
    <2>3. "noop" \in Reasons /\ "refused" \in Reasons
      BY DEF Reasons
    <2>4. \E s \in {"waiting", "succeeded", "failed"}, w \in Reasons : answer = Outcome(s, w)
      BY <2>2, <2>3
    <2> QED BY <1>1, <2>1, <2>4
  <1>4. CASE Replayed(h, answer)
    <2>1. answer = Outcome("waiting", "") /\ op' = op /\ made' = made
      BY <1>4 DEF Replayed
    <2>2. "waiting" \in Statuses /\ "" \in Reasons
      BY DEF Statuses, Reasons
    <2> QED BY <1>1, <1>2, <2>1, <2>2
  <1>5. CASE Accepted(h, answer)
    <2>1. /\ op' = [op EXCEPT ![h] = "pending"] /\ made' = [made EXCEPT ![h] = @ + 1]
          /\ op[h] = "none" /\ answer = Outcome("waiting", "")
      BY <1>5 DEF Accepted
    <2>2. made[h] = 0
      BY <1>1, <2>1
    <2>3. made' = [made EXCEPT ![h] = 1]
      <3>1. made[h] + 1 = 1
        BY <2>2
      <3>2. made' = [made EXCEPT ![h] = made[h] + 1]
        BY <2>1
      <3> QED BY <3>1, <3>2
    <2>4. op' \in [Hosts -> OpStates] /\ made' \in [Hosts -> Nat]
      <3>1. "pending" \in OpStates /\ 1 \in Nat
        BY DEF OpStates
      <3>2. op' \in [Hosts -> OpStates]
        BY <1>1, <2>1, <3>1
      <3>3. made' \in [Hosts -> Nat]
        BY <1>1, <2>3, <3>1
      <3> QED BY <3>2, <3>3
    <2>5. ASSUME NEW g \in Hosts PROVE made'[g] = IF op'[g] = "none" THEN 0 ELSE 1
      <3>1. CASE g = h
        <4>1. made'[h] = 1 /\ op'[h] = "pending"
          BY <1>1, <2>1, <2>3
        <4> QED BY <3>1, <4>1
      <3>2. CASE g # h
        <4>1. made'[g] = made[g] /\ op'[g] = op[g]
          BY <1>1, <2>1, <2>3, <3>2
        <4> QED BY <1>1, <4>1
      <3> QED BY <3>1, <3>2
    <2>6. \A g \in Hosts : op'[g] = "succeeded" => op[g] = "succeeded"
      BY <1>1, <2>1
    <2>7. "waiting" \in Statuses /\ "" \in Reasons
      BY DEF Statuses, Reasons
    <2> QED BY <2>1, <2>4, <2>5, <2>6, <2>7, <1>2
  <1> QED BY <1>3, <1>4, <1>5 DEF Delivered

LEMMA SubmittedStep == ASSUME IInv, NEW h \in Hosts, Submitted(h) PROVE IInv'
  <1>1. /\ h \in wave /\ phase = "wave"
        /\ UNCHANGED <<flags, phase, wave, runs, foreign, active, artifact, meddled>>
    BY DEF IInv, RoundInv, Submitted
  <1>2. PICK answer \in Answers :
          /\ Delivered(h, answer)
          /\ \/ lost' = lost /\ result' = [result EXCEPT ![h] = answer]
             \/ Loses /\ result' = [result EXCEPT ![h] = Outcome("failed", "lost")]
    BY DEF Submitted
  <1>3. lost' \in 0 .. MaxLost
    BY <1>2, LosesType DEF IInv, TypeOK
  <1>4. /\ result' \in [Hosts -> ResultType]
        /\ \A g \in Hosts : g # h => result'[g] = result[g]
        /\ result'[h].status \in {"waiting", "succeeded", "failed"}
        /\ result'[h].status = "succeeded" => active[h]
    <2>1. /\ Outcome("failed", "lost") \in ResultType /\ Outcome("failed", "lost").status = "failed"
      BY OutcomeType DEF Statuses, Reasons, Final
    <2>2. /\ answer \in ResultType /\ answer.status \in {"waiting", "succeeded", "failed"}
          /\ answer.status = "succeeded" => active[h]
      <3>1. PICK s \in {"waiting", "succeeded", "failed"}, w \in Reasons : answer = Outcome(s, w)
        BY <1>2, DeliveredKeeps
      <3>2. s \in Statuses
        BY <3>1 DEF Statuses, Final
      <3> QED BY <3>1, <3>2, <1>2, OutcomeType, DeliveredKeeps
    <2> QED BY <1>2, <2>1, <2>2, ResultTypeOK DEF IInv
  <1>5. /\ op' \in [Hosts -> OpStates] /\ made' \in [Hosts -> Nat]
        /\ \A g \in Hosts : made'[g] = IF op'[g] = "none" THEN 0 ELSE 1
        /\ \A g \in Hosts : op'[g] = "succeeded" => op[g] = "succeeded"
    BY <1>2, DeliveredKeeps
  <1>6. TypeOK'
    BY <1>1, <1>3, <1>4, <1>5 DEF IInv, TypeOK, ResultType, Statuses, Reasons
  <1>7. RoundInv' /\ FailureStopsTheNextWave'
    BY <1>1, <1>4 DEF IInv, RoundInv, FailureStopsTheNextWave
  <1>8. MadeInv' /\ DeployedInv'
    BY <1>1, <1>4, <1>5 DEF IInv, MadeInv, DeployedInv
  <1> QED BY <1>6, <1>7, <1>8 DEF IInv

LEMMA LostStep == ASSUME IInv, NEW h \in Hosts, SubmissionLost(h) \/ TimedOut(h) PROVE IInv'
  <1>1. h \in wave /\ phase = "wave"
    BY DEF IInv, RoundInv, SubmissionLost, TimedOut
  <1>2. lost' \in 0 .. MaxLost
    <2>1. lost' = lost \/ Loses
      BY DEF SubmissionLost, TimedOut
    <2> QED BY <2>1, LosesType DEF IInv, TypeOK
  <1>3. PICK w \in Reasons : result' = [result EXCEPT ![h] = Outcome("failed", w)]
    BY DEF SubmissionLost, TimedOut, Reasons
  <1>4. /\ UNCHANGED <<flags, phase, wave, runs, foreign, active, op, history>>
        /\ artifact' \in [Hosts -> BOOLEAN]
    BY DEF IInv, TypeOK, SubmissionLost, TimedOut, host, history
  <1> QED BY <1>1, <1>2, <1>3, <1>4, OutcomeStep DEF Statuses, Final

LEMMA ObservedStep == ASSUME IInv, NEW h \in Hosts, Observed(h) PROVE IInv'
  <1>1. /\ h \in wave /\ phase = "wave"
        /\ UNCHANGED <<flags, phase, wave, runs, lost, foreign, active, artifact, op, made, meddled>>
    BY DEF IInv, RoundInv, Observed, host, history
  <1>2. PICK s \in {"succeeded", "failed"} :
          /\ s = "succeeded" => op[h] = "succeeded"
          /\ result' = [result EXCEPT ![h] = Outcome(s, "operation")]
    BY DEF Observed
  <1>3. Outcome(s, "operation") \in ResultType /\ Outcome(s, "operation").status = s
    BY <1>2, OutcomeType DEF Statuses, Reasons, Final
  <1>4. /\ result' \in [Hosts -> ResultType] /\ result'[h].status = s
        /\ \A g \in Hosts : g # h => result'[g] = result[g]
    BY <1>2, <1>3, ResultTypeOK DEF IInv
  <1>5. TypeOK'
    BY <1>1, <1>4 DEF IInv, TypeOK, ResultType, Statuses, Reasons
  <1>6. RoundInv' /\ FailureStopsTheNextWave'
    BY <1>1, <1>2, <1>4 DEF IInv, RoundInv, FailureStopsTheNextWave
  <1>7. MadeInv' /\ DeployedInv'
    BY <1>1, <1>2, <1>4 DEF IInv, MadeInv, DeployedInv
  <1> QED BY <1>5, <1>6, <1>7 DEF IInv

\* What happens on the hosts without the client.
LEMMA HostStep == ASSUME IInv, NEW h \in Hosts, OperationRuns(h) \/ Meddle(h) PROVE IInv'
  <1>1. UNCHANGED <<flags, phase, wave, result, runs, lost, artifact, made>>
    BY DEF OperationRuns, Meddle, history
  <1>2. foreign' \in 0 .. MaxForeign
    <2>1. MaxForeign \in Nat /\ foreign \in 0 .. MaxForeign
      BY FleetAssumption DEF IInv, TypeOK
    <2>2. foreign' = foreign \/ (foreign < MaxForeign /\ foreign' = foreign + 1)
      BY DEF OperationRuns, Meddle
    <2> QED BY <2>1, <2>2
  <1>3. /\ op' \in [Hosts -> OpStates] /\ active' \in [Hosts -> BOOLEAN]
        /\ meddled' \subseteq Hosts /\ meddled \subseteq meddled'
        /\ \A g \in Hosts : op'[g] = "none" <=> op[g] = "none"
        /\ \A g \in Hosts \ meddled' : active[g] => active'[g]
        /\ \A g \in Hosts \ meddled' : op'[g] = "succeeded" => op[g] = "succeeded" \/ active'[g]
    <2>1. op \in [Hosts -> OpStates] /\ active \in [Hosts -> BOOLEAN] /\ meddled \subseteq Hosts
      BY DEF IInv, TypeOK
    <2>2. CASE OperationRuns(h)
      <3>1. meddled' = meddled
        BY <2>2 DEF OperationRuns, history
      <3>2. CASE op[h] = "pending" /\ op' = [op EXCEPT ![h] = "running"] /\ UNCHANGED active
        BY <2>1, <3>1, <3>2 DEF OpStates
      <3>3. CASE op[h] = "running" /\ op' = [op EXCEPT ![h] = "succeeded"]
                 /\ active' = [active EXCEPT ![h] = TRUE]
        <4>1. active'[h] /\ \A g \in Hosts : g # h => active'[g] = active[g] /\ op'[g] = op[g]
          BY <2>1, <3>3
        <4>2. op' \in [Hosts -> OpStates] /\ active' \in [Hosts -> BOOLEAN] /\ op'[h] = "succeeded"
          BY <2>1, <3>3 DEF OpStates
        <4> QED BY <2>1, <3>1, <3>3, <4>1, <4>2
      <3>4. CASE op[h] = "running" /\ op' = [op EXCEPT ![h] = "failed"] /\ UNCHANGED active
        BY <2>1, <3>1, <3>4 DEF OpStates
      <3> QED BY <2>2, <3>2, <3>3, <3>4 DEF OperationRuns
    <2>3. CASE Meddle(h)
      <3>1. meddled' = meddled \union {h}
        BY <2>3 DEF Meddle
      <3>2. PICK v \in BOOLEAN : active' = active \/ active' = [active EXCEPT ![h] = v]
        BY <2>3 DEF Meddle
      <3>3. op' = op \/ (op' = [op EXCEPT ![h] = "cancelled"] /\ op[h] # "none")
        BY <2>3 DEF Meddle, Incomplete
      <3>4. /\ active' \in [Hosts -> BOOLEAN]
            /\ \A g \in Hosts : g # h => active'[g] = active[g]
        BY <2>1, <3>2
      <3>5. /\ op' \in [Hosts -> OpStates]
            /\ \A g \in Hosts : g # h => op'[g] = op[g]
            /\ op'[h] = "none" <=> op[h] = "none"
        BY <2>1, <3>3 DEF OpStates
      <3> QED BY <2>1, <3>1, <3>4, <3>5
    <2> QED BY <2>2, <2>3
  <1>4. TypeOK'
    BY <1>1, <1>2, <1>3 DEF IInv, TypeOK
  <1>5. RoundInv' /\ FailureStopsTheNextWave'
    BY <1>1 DEF IInv, RoundInv, FailureStopsTheNextWave
  <1>6. MadeInv' /\ DeployedInv'
    BY <1>1, <1>3 DEF IInv, MadeInv, DeployedInv
  <1> QED BY <1>4, <1>5, <1>6 DEF IInv

-----------------------------------------------------------------------------
LEMMA NextInv == IInv /\ [Next]_vars => IInv'
  <1> SUFFICES ASSUME IInv, [Next]_vars PROVE IInv'
    OBVIOUS
  <1>1. CASE Run \/ Killed
    BY <1>1, RunStep
  <1>2. ASSUME NEW h \in Hosts,
               \/ PrepareOne(h) \/ Prepared(h) \/ RunOne(h) \/ Submitted(h)
               \/ SubmissionLost(h) \/ Observed(h) \/ TimedOut(h)
        PROVE  IInv'
    BY <1>2, LaunchStep, PreparedStep, SubmittedStep, LostStep, ObservedStep
  <1>3. CASE PrepareEnds \/ WaveEnds
    BY <1>3, PrepareEndsStep, WaveEndsStep
  <1>4. ASSUME NEW h \in Hosts, OperationRuns(h) \/ Meddle(h) PROVE IInv'
    BY <1>4, HostStep
  <1>5. CASE UNCHANGED vars
    BY <1>5, StutterStep
  <1> QED BY <1>1, <1>2, <1>3, <1>4, <1>5 DEF Next, Client

\* The conjunction that carries the theorems below: what the client knows, the
\* round it is in and what there is on the hosts always fit each other.
THEOREM FleetInvariant == Spec => []IInv
  <1> QED BY InitInv, NextInv, PTL DEF Spec

\* No host hears of the batch while an earlier wave has a failure (failedInWave
\* in Run), however large the waves are.
THEOREM FailureStops == Spec => []FailureStopsTheNextWave
  <1>1. IInv => FailureStopsTheNextWave
    BY DEF IInv
  <1> QED BY <1>1, FleetInvariant, PTL

\* A batch makes at most one operation on a host, however often it is started
\* again and whatever was lost (the batch is the idempotency key).
THEOREM OneOperation == Spec => []OneOperationPerHost
  <1>1. IInv => OneOperationPerHost
    BY DEF IInv, MadeInv, OneOperationPerHost
  <1> QED BY <1>1, FleetInvariant, PTL

\* A host that is reported succeeded runs the version, unless another operator
\* changed it (the answer of Deploy, and the end of the operation).
THEOREM ReportedIsTrue == Spec => []ReportedSuccessIsTrue
  <1>1. IInv => ReportedSuccessIsTrue
    BY DEF IInv, DeployedInv, ReportedSuccessIsTrue
  <1> QED BY <1>1, FleetInvariant, PTL

-----------------------------------------------------------------------------
\* Manifests.

\* A manifest that has its defaults: rewriting it once more changes nothing.
Settled(m) == m \in ManifestType /\ applyDefaults(m) = m

\* The strategy of a manifest that left it open, when its submission found the artifact.
FollowsMedia(s) ==
  s.seen # "absent" /\ ~s.manifest.explicit
    => s.manifest.strategy = MediaTypeUnpackStrategy(s.seen)

\* What is stored, whatever it is stored for.
StoredOK(s) ==
  /\ s \in SubmissionType
  /\ Settled(s.manifest) /\ Validated(s.manifest)
  /\ FollowsMedia(s)

\* What is stored for a version belongs to its row.
SpecOf(v) ==
  /\ StoredOK(specs[v])
  /\ specs[v].manifest.app = "this"
  /\ artifactOf[v] = specs[v].manifest.artifact

SpecsInv ==
  /\ specs[None] # None => StoredOK(specs[None])
  /\ \A v \in Versions : specs[v] # None => SpecOf(v)

\* An artifact a release refers to is there.
MediaInv == \A v \in Versions : artifactOf[v] # None => media[artifactOf[v]] # "absent"

DirsInv ==
  \A v \in Versions : dirs[v] # None =>
    /\ artifactOf[v] # None /\ dirs[v].artifact = artifactOf[v]
    /\ StoredOK(dirs[v].by)

RunningInv ==
  running.step # "none" =>
    /\ running.version \in Versions
    /\ SpecOf(running.version)
    /\ running.step # "begin" => StoredOK(running.manifest)

\* The manifest a request carries.
Carried(c) == [manifest |-> client[c].manifest, seen |-> client[c].seen]

CarriesOK(c) ==
  /\ client[c].step \in {"prepare", "create", "store"} =>
       /\ client[c].manifest \in ManifestType
       /\ Settled(client[c].manifest)
       /\ client[c].version = client[c].manifest.version
       /\ FollowsMedia(Carried(c))
  /\ client[c].step \in {"create", "store"} =>
       Validated(client[c].manifest) /\ client[c].manifest.app = "this"
  /\ client[c].step = "store" =>
       artifactOf[client[c].version] = client[c].manifest.artifact
  /\ client[c].step = "create operation" =>
       client[c].version \in Versions /\ SpecOf(client[c].version)

ClientInv == \A c \in Clients : CarriesOK(c)

ManifestsInv ==
  /\ ManifestsTypeOK /\ ParsedIsAccepted
  /\ SpecsInv /\ MediaInv /\ DirsInv /\ RunningInv /\ ClientInv

-----------------------------------------------------------------------------
\* What the defaults change, and what they leave alone.
LEMMA DefaultsFields ==
  ASSUME NEW m \in ManifestType
  PROVE  LET d == applyDefaults(m)
         IN /\ d \in ManifestType
            /\ d.strategy = Strategy(m) /\ d.keepLast = KeepLast(m)
            /\ d.unitName = (m.unitName \/ ~BlueGreen(m))
            /\ d.restart = (IF m.restart = Blank THEN "on-failure" ELSE m.restart)
            /\ d.successes = (IF m.successes = 0 THEN 1 ELSE m.successes)
            /\ d.app = m.app /\ d.sound = m.sound /\ d.artifact = m.artifact
            /\ d.version = m.version /\ d.explicit = m.explicit /\ d.strip = m.strip
            /\ d.fileName = m.fileName /\ d.argv = m.argv /\ d.ports = m.ports
            /\ d.slots = m.slots /\ d.env = m.env /\ d.slotEnv = m.slotEnv
            /\ d.secretEnv = m.secretEnv /\ d.readiness = m.readiness
            /\ d.slotReadiness = m.slotReadiness /\ d.listen = m.listen
            /\ d.observe = m.observe
  <1> DEFINE d == applyDefaults(m)
  <1>1. /\ d.strategy = Strategy(m) /\ d.keepLast = KeepLast(m)
        /\ d.restart = (IF m.restart = Blank THEN "on-failure" ELSE m.restart)
        /\ d.successes = (IF m.successes = 0 THEN 1 ELSE m.successes)
    BY DEF applyDefaults, ManifestType
  <1>2. d.unitName = (m.unitName \/ ~BlueGreen(m))
    BY DEF applyDefaults, ManifestType
  <1>3. /\ d.app = m.app /\ d.sound = m.sound /\ d.artifact = m.artifact
        /\ d.version = m.version /\ d.explicit = m.explicit /\ d.strip = m.strip
        /\ d.fileName = m.fileName /\ d.argv = m.argv /\ d.ports = m.ports
        /\ d.slots = m.slots /\ d.env = m.env /\ d.slotEnv = m.slotEnv
        /\ d.secretEnv = m.secretEnv /\ d.readiness = m.readiness
        /\ d.slotReadiness = m.slotReadiness /\ d.listen = m.listen
        /\ d.observe = m.observe
    BY DEF applyDefaults, ManifestType
  <1>4. Strategy(m) \in Strategies
    BY DEF Strategy, ManifestType, Strategies
  <1>5. KeepLast(m) \in Int
    BY DEF KeepLast, DefaultKeepLast, ManifestType
  <1>6. (m.unitName \/ ~BlueGreen(m)) \in BOOLEAN
    OBVIOUS
  <1>7. (IF m.restart = Blank THEN "on-failure" ELSE m.restart) \in Restarts
    BY DEF ManifestType, RestartPolicies, Restarts
  <1>8. (IF m.successes = 0 THEN 1 ELSE m.successes) \in Nat
    BY DEF ManifestType
  <1>9. d \in ManifestType
    BY <1>4, <1>5, <1>6, <1>7, <1>8 DEF applyDefaults, ManifestType
  <1> QED BY <1>1, <1>2, <1>3, <1>9

LEMMA DefaultsSettle ==
  ASSUME NEW m \in ManifestType
  PROVE  Settled(applyDefaults(m))
  <1> DEFINE d == applyDefaults(m)
             e == applyDefaults(d)
  <1>1. d \in ManifestType
    BY DefaultsFields
  <1>2. e \in ManifestType
    BY <1>1, DefaultsFields
  <1>3. Strategy(d) = d.strategy /\ KeepLast(d) = d.keepLast
    BY DefaultsFields DEF Strategy, KeepLast, DefaultKeepLast
  <1>4. BlueGreen(d) = BlueGreen(m)
    BY DefaultsFields DEF BlueGreen
  <1>5. e = d
    BY <1>1, <1>2, <1>3, <1>4, DefaultsFields DEF ManifestType
  <1> QED BY <1>1, <1>5 DEF Settled

\* A manifest that has its defaults and passes passes again.
LEMMA ConvertFields ==
  ASSUME NEW doc \in ManifestType
  PROVE  /\ convert(doc) \in ManifestType
         /\ convert(doc).artifact = doc.artifact /\ convert(doc).version = doc.version
         /\ ~convert(doc).explicit => convert(doc).strategy = Blank
  <1> DEFINE t == IF StrategyExplicit(doc) THEN doc.strategy ELSE Blank
             r == convert(doc)
  <1>1. t \in Strategies
    BY DEF ManifestType, Strategies
  <1>2. StrategyExplicit(doc) \in BOOLEAN
    BY DEF StrategyExplicit
  <1>3. convertNginx(doc) \in Int
    BY DEF convertNginx, DefaultObservationSeconds, ManifestType
  <1>4. r = [doc EXCEPT !.strategy = t, !.explicit = StrategyExplicit(doc),
                        !.observe = convertNginx(doc)]
    BY DEF convert, ManifestType
  <1>5. r \in ManifestType
    BY <1>1, <1>2, <1>3, <1>4 DEF ManifestType
  <1>6. r.artifact = doc.artifact /\ r.version = doc.version /\ r.strategy = t
    BY <1>4 DEF ManifestType
  <1>7. r.explicit = StrategyExplicit(doc)
    BY <1>4 DEF ManifestType
  <1> QED BY <1>5, <1>6, <1>7

\* A media type implies one of the ways to unpack.
LEMMA ImpliedStrategy ==
  ASSUME NEW type
  PROVE  /\ MediaTypeUnpackStrategy(type) \in Strategies
         /\ MediaTypeUnpackStrategy(type) # Blank
  BY DEF MediaTypeUnpackStrategy, Strategies, Blank

\* The media type changes at most an unwritten strategy, and never back to an open one.
LEMMA CheckUnpackFields ==
  ASSUME NEW m \in ManifestType, Settled(m), NEW type \in MediaTypes \union {"absent"}
  PROVE  LET r == CheckUnpackMediaType(m, type).manifest
         IN /\ r \in ManifestType /\ Settled(r)
            /\ FollowsMedia([manifest |-> r, seen |-> type])
            /\ (r = m \/ (~m.explicit /\ r = [m EXCEPT !.strategy = MediaTypeUnpackStrategy(type)]))
  <1> DEFINE i == MediaTypeUnpackStrategy(type)
             r == CheckUnpackMediaType(m, type).manifest
             n == [m EXCEPT !.strategy = i]
  <1> SUFFICES /\ r \in ManifestType /\ Settled(r)
               /\ FollowsMedia([manifest |-> r, seen |-> type])
               /\ (r = m \/ (~m.explicit /\ r = n))
    OBVIOUS
  <1>1. i \in Strategies /\ i # Blank
    BY ImpliedStrategy
  <1>2. n \in ManifestType /\ n.strategy = i
    BY <1>1 DEF ManifestType
  <1>3. Settled(n)
    <2>1. Strategy(n) = i
      BY <1>1, <1>2 DEF Strategy
    <2>2. /\ n.keepLast = m.keepLast /\ n.unitName = m.unitName /\ n.restart = m.restart
          /\ n.successes = m.successes /\ n.slots = m.slots
      BY DEF ManifestType
    <2>3. KeepLast(n) = KeepLast(m) /\ BlueGreen(n) = BlueGreen(m)
      BY <2>2 DEF KeepLast, BlueGreen
    <2>4. applyDefaults(n) \in ManifestType
      BY <1>2, DefaultsFields
    <2>5. applyDefaults(n) = n
      BY <1>2, <2>1, <2>2, <2>3, <2>4, DefaultsFields DEF ManifestType, Settled
    <2> QED BY <1>2, <2>5 DEF Settled
  <1>4. CASE type = "absent" \/ m.explicit
    <2>1. r = m
      BY <1>4 DEF CheckUnpackMediaType
    <2>2. FollowsMedia([manifest |-> m, seen |-> type])
      BY <1>4 DEF FollowsMedia
    <2> HIDE DEF r
    <2> QED BY <2>1, <2>2
  <1>5. CASE type # "absent" /\ ~m.explicit
    <2>1. r = n
      BY <1>5 DEF CheckUnpackMediaType
    <2> QED BY <1>2, <1>3, <1>5, <2>1 DEF FollowsMedia
  <1> QED BY <1>4, <1>5

\* What a document becomes that Parse accepted, once its artifact was looked up.
LEMMA CheckedManifest ==
  ASSUME NEW doc \in ManifestType, NEW type \in MediaTypes \union {"absent"}
  PROVE  LET r == CheckUnpackMediaType(Parse(doc), type).manifest
         IN /\ r \in ManifestType /\ Settled(r)
            /\ r.version = doc.version
            /\ FollowsMedia([manifest |-> r, seen |-> type])
            /\ Validated(convert(doc)) /\ (r.fileName => r.strategy = "none")
                 /\ r.restart \in RestartPolicies => Validated(r)
  <1> DEFINE d == convert(doc)
             p == Parse(doc)
             r == CheckUnpackMediaType(p, type).manifest
  <1>1. d \in ManifestType /\ d.version = doc.version /\ (~d.explicit => d.strategy = Blank)
    BY ConvertFields
  <1>2. p \in ManifestType /\ Settled(p)
    BY <1>1, DefaultsFields, DefaultsSettle DEF Parse
  <1>3. /\ r \in ManifestType /\ Settled(r)
        /\ FollowsMedia([manifest |-> r, seen |-> type])
        /\ (r = p \/ (~p.explicit /\ r = [p EXCEPT !.strategy = MediaTypeUnpackStrategy(type)]))
    BY <1>2, CheckUnpackFields
  <1>4. r.version = doc.version
    BY <1>1, <1>2, <1>3, DefaultsFields DEF Parse, ManifestType
  <1>p. p = applyDefaults(d)
    BY DEF Parse
  <1>5. ASSUME Validated(d), r.fileName => r.strategy = "none", r.restart \in RestartPolicies
        PROVE  Validated(r)
    <2> HIDE DEF d, p, r
    <2>1. /\ r.app = d.app /\ r.sound = d.sound /\ r.strip = d.strip
          /\ r.fileName = d.fileName /\ r.argv = d.argv /\ r.ports = d.ports
          /\ r.slots = d.slots /\ r.env = d.env /\ r.slotEnv = d.slotEnv
          /\ r.secretEnv = d.secretEnv /\ r.readiness = d.readiness
          /\ r.slotReadiness = d.slotReadiness /\ r.listen = d.listen
          /\ r.keepLast = KeepLast(d) /\ r.unitName = (d.unitName \/ ~BlueGreen(d))
          /\ (r.strategy = Strategy(d) \/ ~d.explicit)
      BY <1>1, <1>2, <1>3, <1>p, DefaultsFields DEF ManifestType
    <2>2. BlueGreen(r) = BlueGreen(d) /\ KeepLast(r) = KeepLast(d)
      BY <2>1 DEF BlueGreen, KeepLast, DefaultKeepLast
    <2>3. ArtifactRules(r)
      BY <1>1, <1>3, <1>5, <2>1 DEF ArtifactRules, Validated, Strategy
    <2>4. SlotRules(r)
      BY <1>5, <2>1, <2>2 DEF SlotRules, ExecRules, Validated
    <2>5. ExecRules(r)
      BY <1>5, <2>1, <2>4 DEF ExecRules, Validated
    <2>6. HealthRules(r) /\ ReleaseRules(r) /\ NginxRules(r) /\ r.sound
      BY <1>5, <2>1, <2>2 DEF HealthRules, ReleaseRules, NginxRules, Validated
    <2>7. SystemdRules(r)
      BY <1>5 DEF SystemdRules
    <2>8. BlueGreenRules(r)
      BY <1>5, <2>1, <2>2 DEF BlueGreenRules, Validated
    <2> QED BY <2>3, <2>5, <2>6, <2>7, <2>8 DEF Validated
  <1> QED BY <1>3, <1>4, <1>5

-----------------------------------------------------------------------------
LEMMA IdleRequest == Idle \in RequestType /\ Idle.step = "idle"
  BY DEF Idle, RequestType

LEMMA ManifestsInit_Inv == ManifestsInit => ManifestsInv
  <1> SUFFICES ASSUME ManifestsInit PROVE ManifestsInv
    OBVIOUS
  <1> USE DEF ManifestsInit
  <1>1. ManifestsTypeOK
    BY IdleRequest DEF ManifestsTypeOK, NoOp
  <1>2. ParsedIsAccepted /\ ClientInv
    BY IdleRequest DEF ParsedIsAccepted, ClientInv, CarriesOK
  <1>3. SpecsInv /\ MediaInv /\ DirsInv /\ RunningInv
    BY DEF SpecsInv, MediaInv, DirsInv, RunningInv, NoOp
  <1> QED BY <1>1, <1>2, <1>3 DEF ManifestsInv

\* Rows keep their artifacts, and what is stored for a version keeps belonging to it.
RowsStay ==
  /\ \A v \in Versions : artifactOf[v] # None => artifactOf'[v] = artifactOf[v]
  /\ \A v \in Versions : SpecOf(v) => SpecOf(v)'

LEMMA RowsUnchanged == UNCHANGED <<artifactOf, specs>> => RowsStay
  BY DEF RowsStay, SpecOf

\* A request that nothing was done for stays in order.
LEMMA CarriesStay ==
  ASSUME ManifestsInv, RowsStay, NEW c \in Clients, client'[c] = client[c]
  PROVE  CarriesOK(c)'
  <1>1. CarriesOK(c)
    BY DEF ManifestsInv, ClientInv
  <1>2. Carried(c)' = Carried(c)
    BY DEF Carried
  <1>3. client[c].step = "store" =>
          artifactOf'[client[c].version] = client[c].manifest.artifact
    <2> HAVE client[c].step = "store"
    <2>1. /\ client[c].version \in Versions /\ client[c].manifest.artifact \in Artifacts
          /\ artifactOf[client[c].version] = client[c].manifest.artifact
      BY <1>1 DEF CarriesOK, ManifestType
    <2> QED BY <2>1, ManifestsAssumption DEF RowsStay
  <1>4. client[c].step = "create operation" =>
          client[c].version \in Versions /\ SpecOf(client[c].version)'
    BY <1>1 DEF CarriesOK, RowsStay
  <1>5. CASE client[c].step = "create operation"
    <2>1. PICK v \in Versions : v = client[c].version /\ SpecOf(v)'
      BY <1>4, <1>5
    <2> QED BY <1>5, <2>1 DEF CarriesOK
  <1>6. CASE client[c].step # "create operation"
    BY <1>1, <1>2, <1>3, <1>6 DEF CarriesOK
  <1> QED BY <1>5, <1>6

\* The same for all requests, and for what Parse promised them.
LEMMA RequestsStay ==
  ASSUME ManifestsInv, RowsStay, UNCHANGED client
  PROVE  ClientInv' /\ ParsedIsAccepted'
  <1>1. \A c \in Clients : CarriesOK(c)'
    BY CarriesStay
  <1>2. ParsedIsAccepted'
    BY DEF ManifestsInv, ParsedIsAccepted
  <1> QED BY <1>1, <1>2 DEF ClientInv

\* The operation keeps its version and what it read.
LEMMA RunningStays ==
  ASSUME ManifestsInv, RowsStay, UNCHANGED running
  PROVE  RunningInv'
  <1> SUFFICES ASSUME running.step # "none" PROVE
        /\ running.version \in Versions
        /\ SpecOf(running.version)'
        /\ running.step # "begin" => StoredOK(running.manifest)
    <2>1. CASE running.step = "none"
      BY <2>1 DEF RunningInv
    <2>2. CASE running.step # "none"
      BY <2>2 DEF RunningInv, SpecOf
    <2> QED BY <2>1, <2>2
  <1> QED BY DEF ManifestsInv, RunningInv, RowsStay

LEMMA UploadStep == \A a \in Artifacts, type \in MediaTypes :
                      ManifestsInv /\ Upload(a, type) => ManifestsInv'
  <1> SUFFICES ASSUME NEW a \in Artifacts, NEW type \in MediaTypes,
                      ManifestsInv, Upload(a, type)
               PROVE  ManifestsInv'
    OBVIOUS
  <1> USE DEF Upload, releases
  <1>1. ManifestsTypeOK'
    BY DEF ManifestsInv, ManifestsTypeOK
  <1>2. RowsStay
    BY RowsUnchanged
  <1>3. ClientInv' /\ ParsedIsAccepted' /\ RunningInv'
    BY <1>2, RequestsStay, RunningStays
  <1>4. SpecsInv' /\ DirsInv'
    BY DEF ManifestsInv, SpecsInv, DirsInv, SpecOf
  <1>5. MediaInv'
    <2>1. type # "absent"
      BY ManifestsAssumption
    <2> QED BY <2>1 DEF ManifestsInv, MediaInv, ManifestsTypeOK
  <1> QED BY <1>1, <1>3, <1>4, <1>5 DEF ManifestsInv

LEMMA DeleteArtifactStep == \A a \in Artifacts :
                              ManifestsInv /\ DeleteArtifact(a) => ManifestsInv'
  <1> SUFFICES ASSUME NEW a \in Artifacts, ManifestsInv, DeleteArtifact(a)
               PROVE  ManifestsInv'
    OBVIOUS
  <1> USE DEF DeleteArtifact, releases
  <1>1. ManifestsTypeOK'
    BY DEF ManifestsInv, ManifestsTypeOK
  <1>2. RowsStay
    BY RowsUnchanged
  <1>3. ClientInv' /\ ParsedIsAccepted' /\ RunningInv'
    BY <1>2, RequestsStay, RunningStays
  <1>4. SpecsInv' /\ DirsInv'
    BY DEF ManifestsInv, SpecsInv, DirsInv, SpecOf
  <1>5. MediaInv'
    BY DEF ManifestsInv, MediaInv, ManifestsTypeOK
  <1> QED BY <1>1, <1>3, <1>4, <1>5 DEF ManifestsInv

\* Only requests change: a step of one of them, that leaves it in order.
LEMMA RequestStep ==
  ASSUME ManifestsInv, NEW c \in Clients, NEW r,
         UNCHANGED <<media, releases, specs, dirs, running>>,
         client' = [client EXCEPT ![c] = r],
         CarriesOK(c)', ManifestsTypeOK',
         client'[c].step = "prepare" =>
           LET m == client'[c].manifest
           IN (m.fileName => m.strategy = "none") /\ m.restart \in RestartPolicies
                => Validated(m)
  PROVE  ManifestsInv'
  <1> USE DEF releases
  <1>1. RowsStay
    BY RowsUnchanged
  <1>2. \A d \in Clients \ {c} : client'[d] = client[d]
    BY DEF ManifestsInv, ManifestsTypeOK
  <1>3. ClientInv'
    <2>1. \A d \in Clients \ {c} : CarriesOK(d)'
      BY <1>1, <1>2, CarriesStay
    <2> QED BY <2>1 DEF ClientInv
  <1>4. ParsedIsAccepted'
    BY <1>2 DEF ManifestsInv, ParsedIsAccepted
  <1>5. RunningInv'
    BY <1>1, RunningStays
  <1>6. SpecsInv' /\ DirsInv' /\ MediaInv'
    BY DEF ManifestsInv, SpecsInv, DirsInv, MediaInv, SpecOf
  <1> QED BY <1>3, <1>4, <1>5, <1>6 DEF ManifestsInv

LEMMA SubmitStep == \A c \in Clients, kind \in {"put", "deploy"}, doc \in Documents :
                      ManifestsInv /\ Submit(c, kind, doc) => ManifestsInv'
  <1> SUFFICES ASSUME NEW c \in Clients, NEW kind \in {"put", "deploy"}, NEW doc \in Documents,
                      ManifestsInv, Submit(c, kind, doc)
               PROVE  ManifestsInv'
    OBVIOUS
  <1>1. PICK t \in MediaTypes \union {"absent"} : t = media[doc.artifact]
    BY DocumentsAssumption DEF ManifestsInv, ManifestsTypeOK, ManifestType
  <1>2. PICK m : m = CheckUnpackMediaType(Parse(doc), t).manifest
    OBVIOUS
  <1>3. doc \in ManifestType /\ doc.version \in Versions
    BY DocumentsAssumption DEF ManifestType
  <1>4. /\ m \in ManifestType /\ Settled(m)
        /\ m.version = doc.version
        /\ FollowsMedia([manifest |-> m, seen |-> t])
        /\ Validated(convert(doc)) /\ (m.fileName => m.strategy = "none")
             /\ m.restart \in RestartPolicies => Validated(m)
    BY <1>2, <1>3, CheckedManifest
  <1> DEFINE r == [Idle EXCEPT !.step = "prepare", !.kind = kind, !.version = doc.version,
                               !.manifest = m, !.seen = t]
  <1>5. /\ client' = [client EXCEPT ![c] = r] /\ Validated(convert(doc))
        /\ UNCHANGED <<media, releases, specs, dirs, running>>
    BY <1>1, <1>2 DEF Submit
  <1>6. /\ r.step = "prepare" /\ r.kind = kind /\ r.version = doc.version
        /\ r.manifest = m /\ r.seen = t
    BY DEF Idle
  <1>r. r \in RequestType
    BY <1>3, <1>4 DEF Idle, RequestType
  <1> HIDE DEF r
  <1>7. ManifestsTypeOK'
    BY <1>5, <1>r DEF ManifestsInv, ManifestsTypeOK, releases
  <1>8. client'[c] = r
    BY <1>5 DEF ManifestsInv, ManifestsTypeOK
  <1>9. CarriesOK(c)'
    BY <1>4, <1>6, <1>8 DEF CarriesOK, Carried
  <1> QED BY <1>4, <1>5, <1>6, <1>7, <1>8, <1>9, RequestStep

\* Answering a request is a step of the request alone.
LEMMA AnswerStep ==
  ASSUME ManifestsInv, NEW c \in Clients, Answer(c),
         UNCHANGED <<media, releases, specs, dirs, running>>
  PROVE  ManifestsInv'
  <1>1. client' = [client EXCEPT ![c] = Idle] /\ client'[c] = Idle
    BY DEF Answer, ManifestsInv, ManifestsTypeOK
  <1>2. ManifestsTypeOK'
    BY <1>1, IdleRequest DEF ManifestsInv, ManifestsTypeOK, releases
  <1>3. CarriesOK(c)' /\ client'[c].step # "prepare"
    BY <1>1, IdleRequest DEF CarriesOK
  <1> QED BY <1>1, <1>2, <1>3, RequestStep

\* A step of one request that is past its validation: the rows only grow, and it ends in
\* order.
LEMMA RequestMoves ==
  ASSUME ManifestsInv, RowsStay, UNCHANGED running, NEW c \in Clients,
         \A d \in Clients \ {c} : client'[d] = client[d],
         CarriesOK(c)', client'[c].step # "prepare"
  PROVE  ClientInv' /\ ParsedIsAccepted' /\ RunningInv'
  <1>1. ClientInv'
    <2>1. \A d \in Clients \ {c} : CarriesOK(d)'
      BY CarriesStay
    <2> QED BY <2>1 DEF ClientInv
  <1>2. ParsedIsAccepted'
    BY DEF ManifestsInv, ParsedIsAccepted
  <1> QED BY <1>1, <1>2, RunningStays

\* Being answered is one such step.
LEMMA Answered ==
  ASSUME ManifestsInv, NEW c \in Clients, Answer(c)
  PROVE  /\ client' \in [Clients -> RequestType]
         /\ \A d \in Clients \ {c} : client'[d] = client[d]
         /\ CarriesOK(c)' /\ client'[c].step # "prepare"
  <1>1. client' = [client EXCEPT ![c] = Idle] /\ client'[c] = Idle
    BY DEF Answer, ManifestsInv, ManifestsTypeOK
  <1> QED BY <1>1, IdleRequest DEF CarriesOK, ManifestsInv, ManifestsTypeOK

\* A request that goes on carries what it carried.
LEMMA Gone ==
  ASSUME ManifestsInv, NEW c \in Clients, NEW step \in {"store", "create operation"},
         Go(c, step)
  PROVE  /\ client' \in [Clients -> RequestType]
         /\ \A d \in Clients \ {c} : client'[d] = client[d]
         /\ client'[c].step = step /\ Carried(c)' = Carried(c)
         /\ client'[c].version = client[c].version /\ client'[c].manifest = client[c].manifest
  <1>1. client[c] \in RequestType /\ client \in [Clients -> RequestType]
    BY DEF ManifestsInv, ManifestsTypeOK
  <1>2. client' = [client EXCEPT ![c].step = step]
    BY DEF Go
  <1>3. client'[c] = [client[c] EXCEPT !.step = step]
    BY <1>1, <1>2
  <1>4. /\ client'[c].step = step /\ client'[c].version = client[c].version
        /\ client'[c].manifest = client[c].manifest /\ client'[c].seen = client[c].seen
        /\ client'[c] \in RequestType
    BY <1>1, <1>3 DEF RequestType
  <1>5. Carried(c)' = Carried(c)
    BY <1>4 DEF Carried
  <1>6. client' \in [Clients -> RequestType] /\ \A d \in Clients \ {c} : client'[d] = client[d]
    BY <1>1, <1>2, <1>3, <1>4
  <1> QED BY <1>4, <1>5, <1>6

LEMMA PutSpecStep == \A c \in Clients : ManifestsInv /\ PutSpec(c) => ManifestsInv'
  <1> SUFFICES ASSUME NEW c \in Clients, ManifestsInv, PutSpec(c)
               PROVE  ManifestsInv'
    OBVIOUS
  <1> USE DEF At, releases
  <1>1. PICK m : m = client[c].manifest
    OBVIOUS
  <1>2. CASE ~Validated(m)
    <2>1. Answer(c) /\ UNCHANGED <<media, releases, specs, dirs, running>>
      BY <1>1, <1>2 DEF PutSpec
    <2> QED BY <2>1, AnswerStep
  <1>3. CASE Validated(m)
    <2>1. CarriesOK(c) /\ client[c].step = "prepare"
      BY DEF PutSpec, ManifestsInv, ClientInv
    <2>2. m \in ManifestType /\ Settled(m) /\ FollowsMedia(Carried(c))
      BY <1>1, <2>1 DEF CarriesOK
    <2>3. PICK s : s = Stored(c, m)
      OBVIOUS
    <2>4. client[c].seen \in MediaTypes \union {"absent"}
      BY DEF ManifestsInv, ManifestsTypeOK, RequestType
    <2>5. s = [manifest |-> m, seen |-> client[c].seen] /\ s = Carried(c)
      BY <1>1, <2>3 DEF Stored, Carried
    <2>6. s \in SubmissionType /\ s.manifest = m
      BY <2>2, <2>4, <2>5 DEF SubmissionType
    <2>7. StoredOK(s)
      BY <1>3, <2>2, <2>5, <2>6 DEF StoredOK
    <2>8. Stored(c, applyDefaults(m)) = s
      BY <2>2, <2>3 DEF Settled
    <2>9. /\ specs' = [specs EXCEPT ![None] = s] /\ Answer(c)
          /\ UNCHANGED <<media, releases, dirs, running, requests>>
      BY <1>1, <1>3, <2>8 DEF PutSpec
    <2>10. ManifestsTypeOK'
      BY <2>6, <2>9, Answered DEF ManifestsInv, ManifestsTypeOK
    <2>11. specs'[None] = s /\ \A v \in Versions : specs'[v] = specs[v]
      BY <2>9, ManifestsAssumption DEF ManifestsInv, ManifestsTypeOK
    <2>12. RowsStay
      BY <2>9, <2>11 DEF RowsStay, SpecOf
    <2>13. SpecsInv' /\ MediaInv' /\ DirsInv'
      BY <2>7, <2>9, <2>11 DEF ManifestsInv, SpecsInv, MediaInv, DirsInv, SpecOf
    <2> QED BY <2>9, <2>10, <2>12, <2>13, Answered, RequestMoves DEF ManifestsInv
  <1> QED BY <1>2, <1>3

LEMMA PrepareDeployStep == \A c \in Clients : ManifestsInv /\ PrepareDeploy(c) => ManifestsInv'
  <1> SUFFICES ASSUME NEW c \in Clients, ManifestsInv, PrepareDeploy(c)
               PROVE  ManifestsInv'
    OBVIOUS
  <1> USE DEF At, releases
  <1>1. PICK m : m = client[c].manifest
    OBVIOUS
  <1> DEFINE Proceeds == /\ Validated(m) /\ m.app = "this" /\ media[m.artifact] # "absent"
                         /\ artifactOf[m.version] \in {None, m.artifact}
  <1>2. CASE ~Proceeds
    <2>1. Answer(c) /\ UNCHANGED <<media, releases, specs, dirs, running>>
      BY <1>1, <1>2 DEF PrepareDeploy
    <2> QED BY <2>1, AnswerStep
  <1>3. CASE Proceeds
    <2>1. CarriesOK(c) /\ client[c].step = "prepare"
      BY DEF PrepareDeploy, ManifestsInv, ClientInv
    <2>2. /\ m \in ManifestType /\ Settled(m) /\ FollowsMedia(Carried(c))
          /\ client[c].version = m.version
      BY <1>1, <2>1 DEF CarriesOK
    <2>3. applyDefaults(m) = m
      BY <2>2 DEF Settled
    <2>4. PICK next \in {"create", "store"} :
            next = IF artifactOf[m.version] = None THEN "create" ELSE "store"
      OBVIOUS
    <2> DEFINE noop == activeVersion = m.version
    <2>5. noop \in BOOLEAN
      OBVIOUS
    <2>6. client[c] \in RequestType /\ client \in [Clients -> RequestType]
      BY DEF ManifestsInv, ManifestsTypeOK
    <2>7. PICK r : r = [client[c] EXCEPT !.step = next, !.manifest = m, !.noop = noop]
      OBVIOUS
    <2>8. /\ client' = [client EXCEPT ![c] = r]
          /\ UNCHANGED <<media, releases, specs, dirs, running, requests>>
      <3>1. /\ client' = [client EXCEPT ![c].step = IF artifactOf[m.version] = None
                                                   THEN "create" ELSE "store",
                                       ![c].manifest = applyDefaults(m), ![c].noop = noop]
            /\ UNCHANGED <<media, releases, specs, dirs, running, requests>>
        BY <1>1, <1>3 DEF PrepareDeploy
      <3> HIDE DEF noop
      <3>2. client' = [client EXCEPT ![c].step = next, ![c].manifest = m, ![c].noop = noop]
        BY <2>3, <2>4, <3>1
      <3> QED BY <2>6, <2>7, <3>1, <3>2
    <2>9. r \in RequestType
      BY <2>2, <2>4, <2>5, <2>6, <2>7 DEF RequestType
    <2>10. /\ r.step = next /\ r.manifest = m /\ r.version = m.version
           /\ r.seen = client[c].seen
      BY <2>2, <2>6, <2>7 DEF RequestType
    <2>11. ManifestsTypeOK' /\ client'[c] = r
      BY <2>6, <2>8, <2>9 DEF ManifestsInv, ManifestsTypeOK
    <2>12. Carried(c)' = Carried(c)
      BY <1>1, <2>10, <2>11 DEF Carried
    <2>13. artifactOf[m.version] = m.artifact \/ next = "create"
      BY <1>3, <2>4
    <2>14. CarriesOK(c)'
      BY <1>3, <2>2, <2>4, <2>8, <2>10, <2>11, <2>12, <2>13 DEF CarriesOK
    <2> QED BY <2>4, <2>8, <2>10, <2>11, <2>14, RequestStep
  <1> QED BY <1>2, <1>3

LEMMA CreateReleaseStep == \A c \in Clients : ManifestsInv /\ CreateRelease(c) => ManifestsInv'
  <1> SUFFICES ASSUME NEW c \in Clients, ManifestsInv, CreateRelease(c)
               PROVE  ManifestsInv'
    OBVIOUS
  <1> USE DEF At, releases
  <1>1. PICK m : m = client[c].manifest
    OBVIOUS
  <1> DEFINE Free == media[m.artifact] # "absent" /\ artifactOf[m.version] = None
  <1>2. CASE ~Free
    <2>1. Answer(c) /\ UNCHANGED <<media, releases, specs, dirs, running>>
      BY <1>1, <1>2 DEF CreateRelease
    <2> QED BY <2>1, AnswerStep
  <1>3. CASE Free
    <2>1. CarriesOK(c) /\ client[c].step = "create"
      BY DEF CreateRelease, ManifestsInv, ClientInv
    <2>2. /\ m \in ManifestType /\ Settled(m) /\ FollowsMedia(Carried(c))
          /\ client[c].version = m.version /\ Validated(m) /\ m.app = "this"
      BY <1>1, <2>1 DEF CarriesOK
    <2>3. m.version \in Versions /\ m.artifact \in Artifacts
      BY <2>2 DEF ManifestType
    <2>4. /\ Go(c, "store") /\ artifactOf' = [artifactOf EXCEPT ![m.version] = m.artifact]
          /\ UNCHANGED <<media, specs, dirs, activeVersion, past, running, requests>>
      BY <1>1, <1>3 DEF CreateRelease
    <2>5. /\ artifactOf'[m.version] = m.artifact
          /\ \A v \in Versions \ {m.version} : artifactOf'[v] = artifactOf[v]
      BY <2>3, <2>4 DEF ManifestsInv, ManifestsTypeOK
    <2>6. ManifestsTypeOK'
      BY <2>3, <2>4, Gone DEF ManifestsInv, ManifestsTypeOK
    <2>7. \A v \in Versions : artifactOf[v] # None => artifactOf'[v] = artifactOf[v]
      BY <1>3, <2>5
    <2>8. \A v \in Versions : SpecOf(v) => artifactOf[v] # None
      BY ManifestsAssumption DEF SpecOf, StoredOK, Settled, ManifestType
    <2>9. RowsStay
      BY <2>4, <2>7, <2>8 DEF RowsStay, SpecOf
    <2>10. SpecsInv' /\ DirsInv'
      BY <2>4, <2>7, <2>9 DEF ManifestsInv, SpecsInv, DirsInv, RowsStay
    <2>11. MediaInv'
      BY <1>3, <2>4, <2>5 DEF ManifestsInv, MediaInv
    <2>12. CarriesOK(c)' /\ client'[c].step # "prepare"
      BY <1>1, <2>2, <2>4, <2>5, Gone DEF CarriesOK
    <2> QED BY <2>4, <2>6, <2>9, <2>10, <2>11, <2>12, Gone, RequestMoves DEF ManifestsInv
  <1> QED BY <1>2, <1>3

LEMMA PutApplicationSpecForReleaseStep ==
  \A c \in Clients : ManifestsInv /\ PutApplicationSpecForRelease(c) => ManifestsInv'
  <1> SUFFICES ASSUME NEW c \in Clients, ManifestsInv, PutApplicationSpecForRelease(c)
               PROVE  ManifestsInv'
    OBVIOUS
  <1> USE DEF At, releases
  <1>1. PICK m : m = client[c].manifest
    OBVIOUS
  <1>2. CarriesOK(c) /\ client[c].step = "store"
    BY DEF PutApplicationSpecForRelease, ManifestsInv, ClientInv
  <1>3. /\ m \in ManifestType /\ Settled(m) /\ FollowsMedia(Carried(c))
        /\ client[c].version = m.version /\ Validated(m) /\ m.app = "this"
        /\ artifactOf[m.version] = m.artifact
    BY <1>1, <1>2 DEF CarriesOK
  <1>4. m.version \in Versions
    BY <1>3 DEF ManifestType
  <1>5. PICK s : s = Stored(c, m)
    OBVIOUS
  <1>6. client[c].seen \in MediaTypes \union {"absent"}
    BY DEF ManifestsInv, ManifestsTypeOK, RequestType
  <1>7. s = [manifest |-> m, seen |-> client[c].seen] /\ s = Carried(c)
    BY <1>1, <1>5 DEF Stored, Carried
  <1>8. s \in SubmissionType /\ s.manifest = m
    BY <1>3, <1>6, <1>7 DEF SubmissionType
  <1>9. StoredOK(s)
    BY <1>3, <1>7, <1>8 DEF StoredOK
  <1>10. /\ specs' = [specs EXCEPT ![m.version] = s]
         /\ Answer(c) \/ Go(c, "create operation")
         /\ UNCHANGED <<media, releases, dirs, running, requests>>
    BY <1>1, <1>3, <1>5 DEF PutApplicationSpecForRelease
  <1>11. /\ specs'[m.version] = s
         /\ \A v \in (Versions \union {None}) \ {m.version} : specs'[v] = specs[v]
    BY <1>4, <1>10 DEF ManifestsInv, ManifestsTypeOK
  <1>12. ManifestsTypeOK'
    BY <1>4, <1>8, <1>10, Answered, Gone DEF ManifestsInv, ManifestsTypeOK
  <1>13. SpecOf(m.version)'
    BY <1>3, <1>8, <1>9, <1>10, <1>11 DEF SpecOf
  <1>14. \A v \in Versions \ {m.version} : specs'[v] = specs[v] /\ (SpecOf(v) => SpecOf(v)')
    BY <1>10, <1>11 DEF SpecOf
  <1>15. RowsStay
    BY <1>10, <1>13, <1>14 DEF RowsStay
  <1>16. SpecsInv'
    <2>1. specs'[None] = specs[None]
      BY <1>4, <1>11, ManifestsAssumption
    <2> QED BY <1>13, <1>14, <2>1 DEF ManifestsInv, SpecsInv
  <1>17. MediaInv' /\ DirsInv'
    BY <1>10 DEF ManifestsInv, MediaInv, DirsInv
  <1>18. CASE Answer(c)
    BY <1>10, <1>12, <1>15, <1>16, <1>17, <1>18, Answered, RequestMoves DEF ManifestsInv
  <1>19. CASE Go(c, "create operation")
    <2>1. PICK v \in Versions : v = client'[c].version /\ SpecOf(v)'
      BY <1>3, <1>4, <1>13, <1>19, Gone
    <2>2. CarriesOK(c)' /\ client'[c].step # "prepare"
      BY <1>19, <2>1, Gone DEF CarriesOK
    <2> QED BY <1>10, <1>12, <1>15, <1>16, <1>17, <1>19, <2>2, Gone, RequestMoves
              DEF ManifestsInv
  <1> QED BY <1>10, <1>18, <1>19

LEMMA PrepareRollbackStep == \A c \in Clients, v \in Versions :
                               ManifestsInv /\ PrepareRollback(c, v) => ManifestsInv'
  <1> SUFFICES ASSUME NEW c \in Clients, NEW v \in Versions,
                      ManifestsInv, PrepareRollback(c, v)
               PROVE  ManifestsInv'
    OBVIOUS
  <1>1. PICK r : r = [Idle EXCEPT !.step = "create operation", !.kind = "rollback",
                                  !.version = v]
    OBVIOUS
  <1>2. r \in RequestType /\ r.step = "create operation" /\ r.version = v
    BY <1>1 DEF Idle, RequestType
  <1>3. /\ client' = [client EXCEPT ![c] = r]
        /\ UNCHANGED <<media, releases, specs, dirs, running, requests>>
    BY <1>1 DEF PrepareRollback
  <1>4. ManifestsTypeOK' /\ client'[c] = r
    BY <1>2, <1>3 DEF ManifestsInv, ManifestsTypeOK, releases
  <1>5. SpecOf(v)'
    BY <1>3 DEF PrepareRollback, ManifestsInv, SpecsInv, SpecOf, releases
  <1>6. CarriesOK(c)'
    <2>1. PICK w \in Versions : w = client'[c].version /\ SpecOf(w)'
      BY <1>2, <1>4, <1>5
    <2> QED BY <1>2, <1>4, <2>1 DEF CarriesOK
  <1> QED BY <1>2, <1>3, <1>4, <1>6, RequestStep

LEMMA CreateOperationStep ==
  \A c \in Clients : ManifestsInv /\ CreateOperation(c) => ManifestsInv'
  <1> SUFFICES ASSUME NEW c \in Clients, ManifestsInv, CreateOperation(c)
               PROVE  ManifestsInv'
    OBVIOUS
  <1> USE DEF At, releases
  <1>1. CASE running # NoOp
    <2>1. Answer(c) /\ UNCHANGED <<media, releases, specs, dirs, running>>
      BY <1>1 DEF CreateOperation
    <2> QED BY <2>1, AnswerStep
  <1>2. CASE running = NoOp
    <2>1. PICK v \in Versions : v = client[c].version /\ SpecOf(v)
      BY DEF CreateOperation, ManifestsInv, ClientInv, CarriesOK
    <2>2. /\ Answer(c) /\ running' = [NoOp EXCEPT !.step = "begin", !.version = v]
          /\ UNCHANGED <<media, releases, specs, dirs, requests>>
      BY <1>2, <2>1 DEF CreateOperation
    <2>3. running'.step = "begin" /\ running'.version = v /\ running'.manifest = None
      BY <2>2 DEF NoOp
    <2>4. ManifestsTypeOK'
      BY <2>2, Answered DEF ManifestsInv, ManifestsTypeOK, NoOp
    <2>5. RowsStay
      BY <2>2, RowsUnchanged
    <2>6. ClientInv'
      <3>1. \A d \in Clients \ {c} : CarriesOK(d)'
        BY <2>2, <2>5, Answered, CarriesStay
      <3> QED BY <2>2, <3>1, Answered DEF ClientInv
    <2>7. ParsedIsAccepted'
      BY <2>2, Answered DEF ManifestsInv, ParsedIsAccepted
    <2>8. SpecOf(v)'
      BY <2>1, <2>5 DEF RowsStay
    <2>9. RunningInv'
      <3>1. PICK w \in Versions : w = running'.version /\ SpecOf(w)'
        BY <2>3, <2>8
      <3> QED BY <2>3, <3>1 DEF RunningInv
    <2>10. SpecsInv' /\ MediaInv' /\ DirsInv'
      BY <2>2, <2>5 DEF ManifestsInv, SpecsInv, MediaInv, DirsInv, RowsStay
    <2> QED BY <2>4, <2>6, <2>7, <2>9, <2>10 DEF ManifestsInv
  <1> QED BY <1>1, <1>2

\* The operation alone moves: the rows and the requests are left as they are.
LEMMA OperationMoves ==
  ASSUME ManifestsInv, UNCHANGED <<media, artifactOf, specs, client>>
  PROVE  /\ RowsStay
         /\ ClientInv' /\ ParsedIsAccepted' /\ SpecsInv' /\ MediaInv'
  <1>1. RowsStay
    BY RowsUnchanged
  <1>2. SpecsInv' /\ MediaInv'
    BY <1>1 DEF ManifestsInv, SpecsInv, MediaInv, RowsStay
  <1> QED BY <1>1, <1>2, RequestsStay

LEMMA BeginStep == ManifestsInv /\ Begin => ManifestsInv'
  <1> SUFFICES ASSUME ManifestsInv, Begin PROVE ManifestsInv'
    OBVIOUS
  <1> USE DEF releases
  <1>1. /\ UNCHANGED <<media, artifactOf, activeVersion, past, specs, dirs, client, requests>>
        /\ running.step = "begin"
    BY DEF Begin
  <1>2. PICK v \in Versions : v = running.version /\ SpecOf(v)
    BY <1>1 DEF ManifestsInv, RunningInv
  <1>3. PICK s \in SubmissionType : s = specs[v] /\ StoredOK(s)
    BY <1>2 DEF SpecOf, StoredOK
  <1>4. Validated(s.manifest)
    BY <1>3 DEF StoredOK
  <1>5. running' = [running EXCEPT !.step = "materialize", !.manifest = s]
    BY <1>2, <1>3, <1>4 DEF Begin
  <1>6. /\ running'.step = "materialize" /\ running'.version = v /\ running'.manifest = s
        /\ ManifestsTypeOK'
    BY <1>1, <1>2, <1>3, <1>5 DEF ManifestsInv, ManifestsTypeOK
  <1>7. SpecOf(v)'
    BY <1>1, <1>2, OperationMoves DEF RowsStay
  <1>8. RunningInv'
    <2>1. PICK w \in Versions : w = running'.version /\ SpecOf(w)'
      BY <1>6, <1>7
    <2> QED BY <1>3, <1>6, <2>1 DEF RunningInv
  <1>9. DirsInv'
    BY <1>1 DEF ManifestsInv, DirsInv
  <1> QED BY <1>1, <1>6, <1>8, <1>9, OperationMoves DEF ManifestsInv

LEMMA MaterializeStep == ManifestsInv /\ Materialize => ManifestsInv'
  <1> SUFFICES ASSUME ManifestsInv, Materialize PROVE ManifestsInv'
    OBVIOUS
  <1> USE DEF releases
  <1>1. /\ UNCHANGED <<media, artifactOf, activeVersion, past, specs, client, requests>>
        /\ running.step = "materialize"
        /\ running' = [running EXCEPT !.step = "finish"]
    BY DEF Materialize
  <1>2. PICK v \in Versions : v = running.version /\ SpecOf(v) /\ StoredOK(running.manifest)
    BY <1>1 DEF ManifestsInv, RunningInv
  <1>3. PICK s \in SubmissionType : s = running.manifest /\ StoredOK(s)
    BY <1>2 DEF StoredOK
  <1>4. PICK d : d = Unpacked(v)
    OBVIOUS
  <1>5. d = [artifact |-> artifactOf[v], by |-> s]
    BY <1>3, <1>4 DEF Unpacked
  <1>6. artifactOf[v] \in Artifacts /\ artifactOf[v] # None
    BY <1>2, ManifestsAssumption DEF SpecOf, StoredOK, Settled, ManifestType
  <1>7. d \in [artifact : Artifacts, by : SubmissionType] /\ d.artifact = artifactOf[v] /\ d.by = s
    BY <1>3, <1>5, <1>6
  <1>8. dirs' \in {dirs, [dirs EXCEPT ![v] = d]}
    BY <1>2, <1>4 DEF Materialize
  <1>9. /\ running'.step = "finish" /\ running'.version = v /\ running'.manifest = s
        /\ ManifestsTypeOK'
    BY <1>1, <1>2, <1>3, <1>7, <1>8 DEF ManifestsInv, ManifestsTypeOK
  <1>10. SpecOf(v)'
    BY <1>1, <1>2, OperationMoves DEF RowsStay
  <1>11. RunningInv'
    <2>1. PICK w \in Versions : w = running'.version /\ SpecOf(w)'
      BY <1>9, <1>10
    <2> QED BY <1>3, <1>9, <2>1 DEF RunningInv
  <1>12. DirsInv'
    <2> SUFFICES ASSUME NEW w \in Versions, dirs'[w] # None
                 PROVE  /\ artifactOf[w] # None /\ dirs'[w].artifact = artifactOf[w]
                        /\ StoredOK(dirs'[w].by)
      BY <1>1 DEF DirsInv
    <2>1. CASE dirs'[w] = dirs[w]
      BY <2>1 DEF ManifestsInv, DirsInv
    <2>2. CASE w = v /\ dirs'[w] = d
      BY <1>3, <1>6, <1>7, <2>2
    <2> QED BY <1>8, <2>1, <2>2 DEF ManifestsInv, ManifestsTypeOK
  <1> QED BY <1>1, <1>9, <1>11, <1>12, OperationMoves DEF ManifestsInv

\* Directories can only disappear when an operation ends.
LEMMA OperationEnds ==
  ASSUME ManifestsInv, UNCHANGED <<media, artifactOf, specs>>, running' = NoOp,
         \A v \in Versions : dirs'[v] \in {dirs[v], None}
  PROVE  RunningInv' /\ DirsInv'
  <1>1. RunningInv'
    BY DEF RunningInv, NoOp
  <1>2. DirsInv'
    BY DEF ManifestsInv, DirsInv
  <1> QED BY <1>1, <1>2

LEMMA SucceedStep == ManifestsInv /\ Succeed => ManifestsInv'
  <1> SUFFICES ASSUME ManifestsInv, Succeed PROVE ManifestsInv'
    OBVIOUS
  <1>1. /\ UNCHANGED <<media, artifactOf, specs, client, requests>>
        /\ running' = NoOp /\ activeVersion' = running.version /\ running.step = "finish"
    BY DEF Succeed
  <1>2. PICK gone \in SUBSET ((past \union {activeVersion}) \ {running.version, None}) :
          /\ dirs' = [v \in Versions |-> IF v \in gone THEN None ELSE dirs[v]]
          /\ past' = (past \union {activeVersion}) \ (gone \union {running.version, None})
    BY DEF Succeed
  <1>3. running.version \in Versions
    BY <1>1 DEF ManifestsInv, RunningInv
  <1>4. ManifestsTypeOK'
    BY <1>1, <1>2, <1>3 DEF ManifestsInv, ManifestsTypeOK, NoOp
  <1>5. \A v \in Versions : dirs'[v] \in {dirs[v], None}
    BY <1>2
  <1> QED BY <1>1, <1>4, <1>5, OperationEnds, OperationMoves DEF ManifestsInv

LEMMA FailStep == ManifestsInv /\ Fail => ManifestsInv'
  <1> SUFFICES ASSUME ManifestsInv, Fail PROVE ManifestsInv'
    OBVIOUS
  <1>1. /\ UNCHANGED <<media, artifactOf, activeVersion, past, specs, client, requests>>
        /\ running' = NoOp
        /\ dirs' \in {dirs, [dirs EXCEPT ![running.version] = None]}
    BY DEF Fail, releases
  <1>2. ManifestsTypeOK' /\ \A v \in Versions : dirs'[v] \in {dirs[v], None}
    BY <1>1 DEF ManifestsInv, ManifestsTypeOK, NoOp
  <1> QED BY <1>1, <1>2, OperationEnds, OperationMoves DEF ManifestsInv

LEMMA ManifestsCrashStep == ManifestsInv /\ Crash => ManifestsInv'
  <1> SUFFICES ASSUME ManifestsInv, Crash PROVE ManifestsInv'
    OBVIOUS
  <1>1. /\ UNCHANGED <<media, artifactOf, activeVersion, past, specs, dirs, requests>>
        /\ running' = NoOp /\ client' = [c \in Clients |-> Idle]
    BY DEF Crash, releases
  <1>2. ManifestsTypeOK'
    BY <1>1, IdleRequest DEF ManifestsInv, ManifestsTypeOK, NoOp
  <1>3. ClientInv' /\ ParsedIsAccepted'
    BY <1>1, IdleRequest DEF ClientInv, CarriesOK, ParsedIsAccepted
  <1>4. RowsStay
    BY <1>1, RowsUnchanged
  <1>5. SpecsInv' /\ MediaInv'
    BY <1>1, <1>4 DEF ManifestsInv, SpecsInv, MediaInv, RowsStay
  <1> QED BY <1>1, <1>2, <1>3, <1>5, OperationEnds DEF ManifestsInv

-----------------------------------------------------------------------------
LEMMA ManifestsStep == ManifestsInv /\ [ManifestsNext]_manifestsVars => ManifestsInv'
  <1> SUFFICES ASSUME ManifestsInv, [ManifestsNext]_manifestsVars PROVE ManifestsInv'
    OBVIOUS
  <1>1. CASE UNCHANGED manifestsVars
    <2>1. RowsStay
      BY <1>1, RowsUnchanged DEF manifestsVars
    <2>2. ManifestsTypeOK' /\ SpecsInv' /\ MediaInv' /\ DirsInv'
      BY <1>1, <2>1 DEF manifestsVars, ManifestsInv, ManifestsTypeOK, SpecsInv, MediaInv,
                        DirsInv, RowsStay
    <2> QED BY <1>1, <2>1, <2>2, RequestsStay, RunningStays DEF manifestsVars, ManifestsInv
  <1>2. CASE \E a \in Artifacts : DeleteArtifact(a) \/ \E type \in MediaTypes : Upload(a, type)
    BY <1>2, UploadStep, DeleteArtifactStep
  <1>3. CASE \E c \in Clients :
               \/ \E doc \in Documents, kind \in {"put", "deploy"} : Submit(c, kind, doc)
               \/ PutSpec(c) \/ PrepareDeploy(c) \/ CreateRelease(c)
               \/ PutApplicationSpecForRelease(c) \/ CreateOperation(c)
               \/ \E v \in Versions : PrepareRollback(c, v)
    BY <1>3, SubmitStep, PutSpecStep, PrepareDeployStep, CreateReleaseStep,
       PutApplicationSpecForReleaseStep, CreateOperationStep, PrepareRollbackStep
  <1>4. CASE Begin \/ Materialize \/ Succeed \/ Fail \/ Crash
    BY <1>4, BeginStep, MaterializeStep, SucceedStep, FailStep, ManifestsCrashStep
  <1> QED BY <1>1, <1>2, <1>3, <1>4 DEF ManifestsNext

\* The inductive invariant of the submissions.
THEOREM ManifestsInvariant == ManifestsSpec => []ManifestsInv
  <1> QED BY ManifestsInit_Inv, ManifestsStep, PTL DEF ManifestsSpec

LEMMA InvValidatesAgain == ManifestsInv => ValidatesAgain
  <1> SUFFICES ASSUME ManifestsInv PROVE StoredIsAccepted
    BY DEF ManifestsInv, ValidatesAgain
  <1>1. \A v \in Versions \union {None} : specs[v] # None => StoredOK(specs[v])
    BY DEF ManifestsInv, SpecsInv, SpecOf
  <1>2. \A v \in Versions : specs[v] # None => specs[v].manifest.app = "this"
    BY DEF ManifestsInv, SpecsInv, SpecOf
  <1> QED BY <1>1, <1>2 DEF StoredIsAccepted, StoredOK, Settled

\* No later validation of a manifest refuses or changes what an earlier one let through,
\* whatever the documents and however the requests interleave.
THEOREM ManifestsValidateAgain == ManifestsSpec => []ValidatesAgain
  BY ManifestsInvariant, InvValidatesAgain, PTL

LEMMA InvVersionNamesOneArtifact == ManifestsInv => VersionNamesOneArtifact
  BY DEF ManifestsInv, SpecsInv, SpecOf, DirsInv, VersionNamesOneArtifact

\* The row of a version, its stored manifest and its directory name the same artifact.
THEOREM VersionsNameOneArtifact == ManifestsSpec => []VersionNamesOneArtifact
  BY ManifestsInvariant, InvVersionNamesOneArtifact, PTL

LEMMA InvArchivesAreUnpacked == ManifestsInv => ArchivesAreUnpacked
  <1> SUFFICES ASSUME ManifestsInv, NEW v \in Versions, dirs[v] # None,
                      ~dirs[v].by.manifest.explicit, dirs[v].by.seen = media[artifactOf[v]]
               PROVE  dirs[v].by.manifest.strategy
                        = MediaTypeUnpackStrategy(media[artifactOf[v]])
    BY DEF ArchivesAreUnpacked
  <1>1. artifactOf[v] # None /\ FollowsMedia(dirs[v].by)
    BY DEF ManifestsInv, DirsInv, StoredOK
  <1>2. media[artifactOf[v]] # "absent"
    BY <1>1 DEF ManifestsInv, MediaInv
  <1> QED BY <1>1, <1>2 DEF FollowsMedia

\* An archive whose manifest leaves the strategy open is unpacked as its media type says,
\* if the artifact was there when the manifest came in.
THEOREM ArchivesUnpackedAsTyped == ManifestsSpec => []ArchivesAreUnpacked
  BY ManifestsInvariant, InvArchivesAreUnpacked, PTL

-----------------------------------------------------------------------------
(* The artifacts: contents, rows, references and the requests on them *)

\* The requests; L are the limits uploads were given.
PutOf(L) == [kind : {"put"}, step : {"upload", "record", "undo"}, digest : Digests,
             limit : L, at : Nat]
Requests(L) == {NoRequest} \union PutOf(L) \union ReleaseJob \union DeleteJob \union CollectJob

TablesTyped ==
  /\ row \in [Digests -> {"none", "live", "deleted"}]
  /\ createdAt \in [Digests -> Nat] /\ clock \in Nat
  /\ referenced \subseteq Digests /\ blobs \subseteq Digests

StoreTyped == TablesTyped /\ \E L : req \in [Handlers -> Requests(L)]

\* The contents a request has found, and acts on without another look: live for a
\* release, in place for an upload, unreferenced for a row to be marked, not live for
\* a content to be removed.
Awaited(h) == IF req[h].kind = "release" THEN {req[h].digest} ELSE {}

Placed(h) ==
  IF req[h].kind = "put" /\ req[h].step = "record" THEN {req[h].digest} ELSE {}

Marked(h) ==
  IF req[h].kind = "delete" THEN {req[h].digest}
  ELSE IF req[h].kind = "collect" /\ req[h].step \in {"mark", "content"} THEN {req[h].row}
  ELSE {}

Dropped(h) ==
  IF req[h].kind = "delete" /\ req[h].step = "content" THEN {req[h].digest}
  ELSE IF req[h].kind = "collect" /\ req[h].step = "content" THEN {req[h].row}
  ELSE IF req[h].kind = "collect" /\ req[h].step = "orphans" THEN req[h].todo
  ELSE {}

\* What request h has found of content d still holds.
Holds(h, d) ==
  /\ d \in Awaited(h) => d \in Live
  /\ d \in Placed(h) => d \in blobs
  /\ d \in Marked(h) => d \notin referenced
  /\ d \in Dropped(h) => d \notin Live

\* What releases refer to is live, and what is live is there.
Sound(d) ==
  /\ d \in referenced => d \in Live
  /\ d \in Live => d \in blobs

\* A collection removing orphans had listed every content, has it still ahead, or it
\* came since.
NoneMissed(h) ==
  req[h].kind = "collect" /\ req[h].step = "orphans" =>
    blobs \subseteq req[h].listed \union req[h].todo \union fresh[h]

ArtifactsInv ==
  /\ StoreTyped
  /\ Exposures \subseteq exposed
  /\ \A d : d \notin exposed => Sound(d)
  /\ \A h \in Handlers : \A d : d \notin exposed => Holds(h, d)
  /\ \A h \in Handlers : NoneMissed(h)

-----------------------------------------------------------------------------
LEMMA RequestKinds ==
  ASSUME NEW L, NEW r \in Requests(L)
  PROVE  /\ r.kind = "put" => r \in PutOf(L)
         /\ r.kind = "release" => r \in ReleaseJob
         /\ r.kind = "delete" => r \in DeleteJob
         /\ r.kind = "collect" => r \in CollectJob
         /\ r.kind \in {"idle", "put", "release", "delete", "collect"}
  <1>1. CASE r = NoRequest
    BY <1>1 DEF NoRequest
  <1>2. CASE r \in PutOf(L)
    BY <1>2 DEF PutOf
  <1>3. CASE r \in ReleaseJob
    BY <1>3 DEF ReleaseJob
  <1>4. CASE r \in DeleteJob
    BY <1>4 DEF DeleteJob
  <1>5. CASE r \in CollectJob
    BY <1>5 DEF CollectJob
  <1> QED BY <1>1, <1>2, <1>3, <1>4, <1>5 DEF Requests

\* One request moves on.
LEMMA OneRequest ==
  ASSUME NEW L, req \in [Handlers -> Requests(L)], NEW h \in Handlers,
         NEW r \in Requests(L), req' = [req EXCEPT ![h] = r]
  PROVE  /\ req' \in [Handlers -> Requests(L)]
         /\ req'[h] = r /\ \A g \in Handlers \ {h} : req'[g] = req[g]
  OBVIOUS

LEMMA MoreLimits ==
  ASSUME NEW L, NEW M, L \subseteq M, NEW r \in Requests(L)
  PROVE  r \in Requests(M)
  <1>1. CASE r \in PutOf(L)
    BY <1>1 DEF PutOf, Requests
  <1>2. CASE r \notin PutOf(L)
    BY <1>2 DEF Requests
  <1> QED BY <1>1, <1>2

LEMMA LiveRows ==
  ASSUME TablesTyped, NEW d \in Digests
  PROVE  /\ row' = [row EXCEPT ![d] = "live"] => Live' = Live \union {d}
         /\ row' = [row EXCEPT ![d] = "deleted"] => Live' = Live \ {d}
         /\ row' = [row EXCEPT ![d] = "live"] \/ row' = [row EXCEPT ![d] = "deleted"]
              => row' \in [Digests -> {"none", "live", "deleted"}]
  BY DEF TablesTyped, Live

\* A content in use that a removal may still pass has been noted.
LEMMA Met ==
  ASSUME Exposures \subseteq exposed, NEW g \in Handlers, NEW h \in Handlers, NEW d,
         d \in Awaited(g) \union Placed(g), d \in Marked(h) \union Dropped(h)
  PROVE  d \in exposed
  <1>1. d \in UsedBy(g)
    BY DEF Awaited, Placed, UsedBy
  <1>2. d \in Used
    BY <1>1 DEF Used
  <1>3. d \in MayRemove(h)
    BY DEF Marked, Dropped, MayRemove
  <1>4. d \in AtRisk(h)
    BY <1>2, <1>3 DEF AtRisk
  <1> QED BY <1>4 DEF Exposures

LEMMA MetAlone ==
  ASSUME Exposures \subseteq exposed, NEW h \in Handlers, NEW d
  PROVE  /\ d \in TakenBack(h) => d \in exposed
         /\ d \in Overlooked(h) => d \in exposed
  <1>1. d \in TakenBack(h) \union Overlooked(h) => d \in AtRisk(h)
    BY DEF AtRisk
  <1>2. d \in AtRisk(h) => d \in Exposures
    BY DEF Exposures
  <1> QED BY <1>1, <1>2

\* Each step is that of one request: rows are marked, revived and referred to, and
\* contents removed, only as that request has found them.
LEMMA Moves ==
  ASSUME ArtifactsInv, Observe, NEW h \in Handlers, NEW L, NEW r \in Requests(L),
         req \in [Handlers -> Requests(L)], req' = [req EXCEPT ![h] = r], TablesTyped',
         Live \subseteq Live' \union Marked(h),
         Live' \subseteq Live \union Placed(h),
         referenced' \subseteq referenced \union Awaited(h),
         blobs \subseteq blobs' \union Dropped(h) \union TakenBack(h),
         \A d : d \notin exposed => Holds(h, d)', NoneMissed(h)'
  PROVE  ArtifactsInv'
  <1>1. /\ req' \in [Handlers -> Requests(L)]
        /\ \A g \in Handlers \ {h} : req'[g] = req[g]
    BY OneRequest
  <1>2. StoreTyped'
    BY <1>1 DEF StoreTyped
  <1>3. Exposures' \subseteq exposed' /\ exposed \subseteq exposed'
    BY DEF Observe
  <1>4. ASSUME NEW d, d \notin exposed PROVE Sound(d)'
    <2>1. Sound(d) /\ Holds(h, d) /\ d \notin TakenBack(h)
      BY <1>4, MetAlone DEF ArtifactsInv
    <2>2. d \in Awaited(h) \union Placed(h) => d \notin Marked(h) \union Dropped(h)
      BY <1>4, Met DEF ArtifactsInv
    <2> QED BY <2>1, <2>2 DEF Sound, Holds
  <1>5. ASSUME NEW g \in Handlers \ {h}, NEW d, d \notin exposed PROVE Holds(g, d)'
    <2>1. Holds(g, d) /\ d \notin TakenBack(h)
      BY <1>5, MetAlone DEF ArtifactsInv
    <2>2. /\ d \in Awaited(g) \union Placed(g) => d \notin Marked(h) \union Dropped(h)
          /\ d \in Awaited(h) \union Placed(h) => d \notin Marked(g) \union Dropped(g)
      BY <1>5, Met DEF ArtifactsInv
    <2>3. /\ Awaited(g)' = Awaited(g) /\ Placed(g)' = Placed(g)
          /\ Marked(g)' = Marked(g) /\ Dropped(g)' = Dropped(g)
      BY <1>1 DEF Awaited, Placed, Marked, Dropped
    <2> QED BY <2>1, <2>2, <2>3 DEF Holds
  <1>6. ASSUME NEW g \in Handlers \ {h} PROVE NoneMissed(g)'
    <2>1. req'[g] = req[g] /\ NoneMissed(g)
      BY <1>1 DEF ArtifactsInv
    <2>2. req[g].kind = "collect" /\ req[g].step = "orphans" =>
            fresh'[g] = fresh[g] \union (blobs' \ blobs)
      BY <2>1 DEF Observe
    <2> QED BY <2>1, <2>2 DEF NoneMissed
  <1> QED BY <1>2, <1>3, <1>4, <1>5, <1>6 DEF ArtifactsInv

\* Nothing changes but one request.
LEMMA OnlyRequest ==
  ASSUME ArtifactsInv, Observe, NEW h \in Handlers, NEW L, NEW r \in Requests(L),
         req \in [Handlers -> Requests(L)], req' = [req EXCEPT ![h] = r],
         UNCHANGED db, UNCHANGED <<blobs, clock>>,
         \A d : d \notin exposed => Holds(h, d)', NoneMissed(h)'
  PROVE  ArtifactsInv'
  <1>1. TablesTyped' /\ Live' = Live
    BY DEF ArtifactsInv, StoreTyped, TablesTyped, db, Live
  <1> QED BY <1>1, Moves DEF db

\* A request that has found nothing, or is over, relies on nothing.
LEMMA ReliesOnNothing ==
  ASSUME NEW h, req'[h].kind \in {"idle", "put", "collect"},
         req'[h].kind = "put" => req'[h].step # "record",
         req'[h].kind = "collect" => req'[h].step = "next"
  PROVE  (\A d : Holds(h, d)') /\ NoneMissed(h)'
  BY DEF Holds, Awaited, Placed, Marked, Dropped, NoneMissed

LEMMA Ends ==
  ASSUME ArtifactsInv, NEW h \in Handlers, req' = [req EXCEPT ![h] = NoRequest]
  PROVE  (\A d : Holds(h, d)') /\ NoneMissed(h)'
  <1>1. req'[h].kind = "idle"
    BY DEF ArtifactsInv, StoreTyped, NoRequest
  <1> QED BY <1>1, ReliesOnNothing

LEMMA EndsQuietly ==
  ASSUME ArtifactsInv, Observe, NEW h \in Handlers, req' = [req EXCEPT ![h] = NoRequest],
         UNCHANGED db, clock' = clock, blobs' \subseteq blobs,
         blobs \subseteq blobs' \union Dropped(h) \union TakenBack(h)
  PROVE  ArtifactsInv'
  <1>1. PICK L : req \in [Handlers -> Requests(L)]
    BY DEF ArtifactsInv, StoreTyped
  <1>2. NoRequest \in Requests(L)
    BY DEF Requests
  <1>3. TablesTyped' /\ Live' = Live /\ referenced' = referenced
    BY DEF ArtifactsInv, StoreTyped, TablesTyped, db, Live
  <1> QED BY <1>1, <1>2, <1>3, Ends, Moves

-----------------------------------------------------------------------------
\* Uploads.

LEMMA PutBeginKeeps ==
  ASSUME ArtifactsInv, Observe, NEW h \in Handlers, NEW d \in Digests, PutBegin(h, d)
  PROVE  ArtifactsInv'
  <1>1. PICK limit : limit = Remaining
    OBVIOUS
  <1>2. PICK r : r = [kind |-> "put", step |-> "upload", digest |-> d,
                      limit |-> limit, at |-> 0]
    OBVIOUS
  <1>3. req' = [req EXCEPT ![h] = r] /\ UNCHANGED db /\ UNCHANGED <<blobs, clock>>
    BY <1>1, <1>2 DEF PutBegin, BeginRequest
  <1>4. PICK L : req \in [Handlers -> Requests(L)]
    BY DEF ArtifactsInv, StoreTyped
  <1>5. PICK M : M = L \union {limit}
    OBVIOUS
  <1>6. r \in Requests(M)
    BY <1>2, <1>5 DEF Requests, PutOf
  <1>7. req \in [Handlers -> Requests(M)]
    <2>1. \A g \in Handlers : req[g] \in Requests(M)
      BY <1>4, <1>5, MoreLimits
    <2> QED BY <1>4, <2>1
  <1>8. req'[h].kind = "put" /\ req'[h].step = "upload"
    BY <1>2, <1>3, <1>4
  <1>9. (\A e : Holds(h, e)') /\ NoneMissed(h)'
    BY <1>8, ReliesOnNothing
  <1> QED BY <1>3, <1>6, <1>7, <1>9, OnlyRequest

LEMMA PutRejectedKeeps ==
  ASSUME ArtifactsInv, Observe, NEW h \in Handlers, PutRejected(h)
  PROVE  ArtifactsInv'
  <1>1. req' = [req EXCEPT ![h] = NoRequest] /\ UNCHANGED db /\ UNCHANGED <<clock, blobs>>
    BY DEF PutRejected, End
  <1> QED BY <1>1, EndsQuietly

\* The content removed is that of an upload that is taken back.
LEMMA PutUndoKeeps ==
  ASSUME ArtifactsInv, Observe, NEW h \in Handlers, PutUndo(h)
  PROVE  ArtifactsInv'
  <1>1. req' = [req EXCEPT ![h] = NoRequest] /\ UNCHANGED db /\ clock' = clock
    BY DEF PutUndo, End, EndFailed
  <1>2. blobs' \subseteq blobs /\ blobs \subseteq blobs' \union TakenBack(h)
    BY DEF PutUndo, RemoveContent, TakenBack, Doing
  <1> QED BY <1>1, <1>2, EndsQuietly

LEMMA PutJobs ==
  ASSUME NEW L, req \in [Handlers -> Requests(L)], NEW h \in Handlers, req[h].kind = "put"
  PROVE  /\ req[h].digest \in Digests /\ req[h].at \in Nat
         /\ [req[h] EXCEPT !.step = "undo"] \in Requests(L)
         /\ [req[h] EXCEPT !.step = "undo"].kind = "put"
         /\ [req[h] EXCEPT !.step = "undo"].step = "undo"
  <1>1. req[h] \in PutOf(L)
    BY RequestKinds
  <1> QED BY <1>1 DEF PutOf, Requests

LEMMA PutCommitKeeps ==
  ASSUME ArtifactsInv, Observe, NEW h \in Handlers, PutCommit(h)
  PROVE  ArtifactsInv'
  <1>1. PICK L : req \in [Handlers -> Requests(L)]
    BY DEF ArtifactsInv, StoreTyped
  <1>2. req[h].kind = "put" /\ req[h].digest \in Digests
    BY <1>1, PutJobs DEF PutCommit, Doing
  <1>3. PICK at \in Nat : at = clock + 1
    BY DEF ArtifactsInv, StoreTyped, TablesTyped
  <1>4. PICK r : r = [req[h] EXCEPT !.step = "record", !.at = at]
    OBVIOUS
  <1>5. req[h] \in PutOf(L)
    BY <1>1, <1>2, RequestKinds
  <1>6. /\ r \in Requests(L) /\ r.kind = "put" /\ r.step = "record"
        /\ r.digest = req[h].digest
    BY <1>3, <1>4, <1>5 DEF PutOf, Requests
  <1>7. req' = [req EXCEPT ![h] = r]
    BY <1>1, <1>3, <1>4 DEF PutCommit
  <1>8. req'[h] = r
    BY <1>1, <1>7
  <1>9. UNCHANGED <<row, createdAt, referenced>> /\ Live' = Live
    BY DEF PutCommit, db, Live
  <1>10. blobs' = blobs \union {r.digest} /\ clock' = at
    BY <1>3, <1>6 DEF PutCommit
  <1>11. TablesTyped'
    BY <1>2, <1>6, <1>9, <1>10 DEF ArtifactsInv, StoreTyped, TablesTyped
  <1>12. \A d : Holds(h, d)'
    BY <1>6, <1>8, <1>10 DEF Holds, Awaited, Placed, Marked, Dropped
  <1>13. NoneMissed(h)'
    BY <1>6, <1>8 DEF NoneMissed
  <1> QED BY <1>1, <1>6, <1>7, <1>9, <1>10, <1>11, <1>12, <1>13, Moves

LEMMA PutRecordKeeps ==
  ASSUME ArtifactsInv, Observe, NEW h \in Handlers, PutRecord(h)
  PROVE  ArtifactsInv'
  <1>1. PICK L : req \in [Handlers -> Requests(L)]
    BY DEF ArtifactsInv, StoreTyped
  <1>2. /\ req[h].kind = "put" /\ req[h].digest \in Digests /\ req[h].at \in Nat
        /\ NoRequest \in Requests(L)
    BY <1>1, PutJobs DEF PutRecord, Doing, Requests
  <1>3. req' = [req EXCEPT ![h] = NoRequest] /\ UNCHANGED <<referenced, blobs, clock>>
    BY DEF PutRecord, End, CreateArtifact
  <1>4. Live' = Live \union {req[h].digest} /\ row' \in [Digests -> {"none", "live", "deleted"}]
    BY <1>2, LiveRows DEF ArtifactsInv, StoreTyped, PutRecord, CreateArtifact
  <1>5. createdAt' \in [Digests -> Nat]
    BY <1>2 DEF ArtifactsInv, StoreTyped, TablesTyped, PutRecord, CreateArtifact
  <1>6. TablesTyped'
    BY <1>3, <1>4, <1>5 DEF ArtifactsInv, StoreTyped, TablesTyped
  <1>7. Placed(h) = {req[h].digest}
    BY DEF PutRecord, Doing, Placed
  <1> QED BY <1>1, <1>2, <1>3, <1>4, <1>6, <1>7, Ends, Moves

LEMMA PutRecordFailsKeeps ==
  ASSUME ArtifactsInv, Observe, NEW h \in Handlers, PutRecordFails(h)
  PROVE  ArtifactsInv'
  <1>1. PICK L : req \in [Handlers -> Requests(L)]
    BY DEF ArtifactsInv, StoreTyped
  <1>2. req[h].kind = "put"
    BY DEF PutRecordFails, Doing
  <1>3. PICK r : r = [req[h] EXCEPT !.step = "undo"]
    OBVIOUS
  <1>4. r \in Requests(L) /\ r.kind = "put" /\ r.step = "undo"
    BY <1>1, <1>2, <1>3, PutJobs
  <1>5. req' = [req EXCEPT ![h] = r] /\ UNCHANGED db /\ UNCHANGED <<blobs, clock>>
    BY <1>1, <1>3 DEF PutRecordFails
  <1>6. req'[h] = r
    BY <1>1, <1>5
  <1>7. (\A e : Holds(h, e)') /\ NoneMissed(h)'
    BY <1>4, <1>6, ReliesOnNothing
  <1> QED BY <1>1, <1>4, <1>5, <1>7, OnlyRequest

-----------------------------------------------------------------------------
\* Releases.

LEMMA ReleaseCheckKeeps ==
  ASSUME ArtifactsInv, Observe, NEW h \in Handlers, NEW d \in Digests, ReleaseCheck(h, d)
  PROVE  ArtifactsInv'
  <1>1. PICK L : req \in [Handlers -> Requests(L)]
    BY DEF ArtifactsInv, StoreTyped
  <1>2. PICK r : r = [kind |-> "release", step |-> "insert", digest |-> d]
    OBVIOUS
  <1>3. r \in Requests(L) /\ r.kind = "release" /\ r.digest = d
    BY <1>2 DEF Requests, ReleaseJob
  <1>4. req' = [req EXCEPT ![h] = r] /\ UNCHANGED db /\ UNCHANGED <<blobs, clock>> /\ d \in Live
    BY <1>2 DEF ReleaseCheck, BeginRequest
  <1>5. req'[h] = r /\ Live' = Live
    BY <1>1, <1>4 DEF db, Live
  <1>6. (\A e : Holds(h, e)') /\ NoneMissed(h)'
    BY <1>3, <1>4, <1>5 DEF Holds, Awaited, Placed, Marked, Dropped, NoneMissed
  <1> QED BY <1>1, <1>3, <1>4, <1>6, OnlyRequest

LEMMA ReleaseInsertKeeps ==
  ASSUME ArtifactsInv, Observe, NEW h \in Handlers, ReleaseInsert(h)
  PROVE  ArtifactsInv'
  <1>1. PICK L : req \in [Handlers -> Requests(L)]
    BY DEF ArtifactsInv, StoreTyped
  <1>2. /\ req[h].kind = "release" /\ NoRequest \in Requests(L)
        /\ req[h].digest \in Digests
    BY <1>1, RequestKinds DEF ReleaseInsert, Doing, Requests, ReleaseJob
  <1>3. /\ req' = [req EXCEPT ![h] = NoRequest]
        /\ referenced' = referenced \union {req[h].digest}
        /\ UNCHANGED <<row, createdAt, blobs, clock>> /\ Live' = Live
    BY DEF ReleaseInsert, End, Live
  <1>4. TablesTyped'
    BY <1>2, <1>3 DEF ArtifactsInv, StoreTyped, TablesTyped
  <1>5. Awaited(h) = {req[h].digest}
    BY <1>2 DEF Awaited
  <1> QED BY <1>1, <1>2, <1>3, <1>4, <1>5, Ends, Moves

-----------------------------------------------------------------------------
\* Deletions.

LEMMA DeleteCheckKeeps ==
  ASSUME ArtifactsInv, Observe, NEW h \in Handlers, NEW d \in Digests, DeleteCheck(h, d)
  PROVE  ArtifactsInv'
  <1>1. PICK L : req \in [Handlers -> Requests(L)]
    BY DEF ArtifactsInv, StoreTyped
  <1>2. PICK r : r = [kind |-> "delete", step |-> "mark", digest |-> d]
    OBVIOUS
  <1>3. r \in Requests(L) /\ r.kind = "delete" /\ r.digest = d /\ r.step = "mark"
    BY <1>2 DEF Requests, DeleteJob
  <1>4. /\ req' = [req EXCEPT ![h] = r] /\ UNCHANGED db /\ UNCHANGED <<blobs, clock>>
        /\ d \notin referenced
    BY <1>2 DEF DeleteCheck, BeginRequest
  <1>5. req'[h] = r /\ referenced' = referenced
    BY <1>1, <1>4 DEF db
  <1>6. (\A e : Holds(h, e)') /\ NoneMissed(h)'
    BY <1>3, <1>4, <1>5 DEF Holds, Awaited, Placed, Marked, Dropped, NoneMissed
  <1> QED BY <1>1, <1>3, <1>4, <1>6, OnlyRequest

\* A live row that was found unreferenced is marked: its content goes next.
LEMMA RowGoes ==
  ASSUME ArtifactsInv, Observe, NEW h \in Handlers, NEW L, NEW r \in Requests(L),
         req \in [Handlers -> Requests(L)], req' = [req EXCEPT ![h] = r],
         NEW d \in Live, Marked(h) = {d}, SoftDeleteArtifact(d), UNCHANGED <<blobs, clock>>,
         \/ r.kind = "delete" /\ r.step = "content" /\ r.digest = d
         \/ r.kind = "collect" /\ r.step = "content" /\ r.row = d
  PROVE  ArtifactsInv'
  <1>1. req'[h] = r /\ d \in Digests
    BY DEF Live
  <1>2. /\ UNCHANGED <<createdAt, referenced>>
        /\ Live' = Live \ {d} /\ row' \in [Digests -> {"none", "live", "deleted"}]
    BY <1>1, LiveRows DEF ArtifactsInv, StoreTyped, SoftDeleteArtifact
  <1>3. TablesTyped'
    BY <1>2 DEF ArtifactsInv, StoreTyped, TablesTyped
  <1>4. d \notin exposed => d \notin referenced
    BY DEF ArtifactsInv, Holds
  <1>5. \A e : e \notin exposed => Holds(h, e)'
    BY <1>1, <1>2, <1>4 DEF Holds, Awaited, Placed, Marked, Dropped
  <1>6. NoneMissed(h)'
    BY <1>1 DEF NoneMissed
  <1> QED BY <1>2, <1>3, <1>5, <1>6, Moves

LEMMA DeleteMarkKeeps ==
  ASSUME ArtifactsInv, Observe, NEW h \in Handlers, DeleteMark(h)
  PROVE  ArtifactsInv'
  <1>1. PICK L : req \in [Handlers -> Requests(L)]
    BY DEF ArtifactsInv, StoreTyped
  <1>2. req[h].kind = "delete" /\ req[h] \in DeleteJob
    BY <1>1, RequestKinds DEF DeleteMark, Doing
  <1>3. CASE req[h].digest \notin Live
    <2>1. req' = [req EXCEPT ![h] = NoRequest] /\ UNCHANGED db /\ UNCHANGED <<blobs, clock>>
      BY <1>3 DEF DeleteMark, End
    <2> QED BY <2>1, EndsQuietly
  <1>4. CASE req[h].digest \in Live
    <2>1. PICK d \in Live : d = req[h].digest
      BY <1>4
    <2>2. PICK r : r = [req[h] EXCEPT !.step = "content"]
      OBVIOUS
    <2>3. r \in Requests(L) /\ r.kind = "delete" /\ r.digest = d /\ r.step = "content"
      BY <1>2, <2>1, <2>2 DEF Requests, DeleteJob
    <2>4. /\ req' = [req EXCEPT ![h] = r] /\ SoftDeleteArtifact(d) /\ UNCHANGED <<blobs, clock>>
      BY <1>1, <1>4, <2>1, <2>2 DEF DeleteMark, Continue
    <2>5. Marked(h) = {d}
      BY <1>2, <2>1 DEF Marked
    <2> QED BY <1>1, <2>3, <2>4, <2>5, RowGoes
  <1> QED BY <1>3, <1>4

LEMMA DeleteContentKeeps ==
  ASSUME ArtifactsInv, Observe, NEW h \in Handlers, DeleteContent(h)
  PROVE  ArtifactsInv'
  <1>1. req' = [req EXCEPT ![h] = NoRequest] /\ UNCHANGED db /\ clock' = clock
    BY DEF DeleteContent, End, EndFailed
  <1>2. blobs' \subseteq blobs /\ blobs \subseteq blobs' \union Dropped(h)
    BY DEF DeleteContent, RemoveContent, Dropped, Doing
  <1> QED BY <1>1, <1>2, EndsQuietly

-----------------------------------------------------------------------------
\* Collections.

LEMMA CollectListKeeps ==
  ASSUME ArtifactsInv, Observe, NEW h \in Handlers, NEW keepLast, NEW cutoff \in Nat,
         CollectList(h, keepLast, cutoff)
  PROVE  ArtifactsInv'
  <1>1. PICK L : req \in [Handlers -> Requests(L)]
    BY DEF ArtifactsInv, StoreTyped
  <1>2. PICK listed \in SUBSET Digests : listed = Newest(ListLimit, Live)
    BY DEF Newest, Live
  <1>3. PICK kept \in SUBSET Digests : kept = Newest(keepLast, listed)
    BY <1>2 DEF Newest
  <1>4. PICK r : r = [kind |-> "collect", step |-> "next", listed |-> listed,
                      todo |-> listed, kept |-> kept, row |-> "none", cutoff |-> cutoff]
    OBVIOUS
  <1>5. r \in Requests(L) /\ r.kind = "collect" /\ r.step = "next"
    BY <1>4 DEF Requests, CollectJob
  <1>6. req' = [req EXCEPT ![h] = r] /\ UNCHANGED db /\ UNCHANGED <<blobs, clock>>
    BY <1>2, <1>3, <1>4 DEF CollectList, BeginRequest
  <1>7. req'[h] = r
    BY <1>1, <1>6
  <1>8. (\A e : Holds(h, e)') /\ NoneMissed(h)'
    BY <1>5, <1>7, ReliesOnNothing
  <1> QED BY <1>1, <1>5, <1>6, <1>8, OnlyRequest

LEMMA CollectJobs ==
  ASSUME NEW L, req \in [Handlers -> Requests(L)], NEW h \in Handlers, req[h].kind = "collect"
  PROVE  req[h] \in CollectJob /\ NoRequest \in Requests(L)
  BY RequestKinds DEF Requests

LEMMA CollectNextKeeps ==
  ASSUME ArtifactsInv, Observe, NEW h \in Handlers, CollectNext(h)
  PROVE  ArtifactsInv'
  <1>1. PICK L : req \in [Handlers -> Requests(L)]
    BY DEF ArtifactsInv, StoreTyped
  <1>2. req[h].kind = "collect" /\ req[h] \in CollectJob
    BY <1>1, CollectJobs DEF CollectNext, Doing
  <1>3. PICK d \in Newest(1, req[h].todo), step \in {"next", "mark"} :
          /\ step = "mark" => ~Keeps(h, d)
          /\ req' = [req EXCEPT ![h].todo = @ \ {d}, ![h].row = d, ![h].step = step]
    BY DEF CollectNext
  <1>4. PICK r : r = [req[h] EXCEPT !.todo = @ \ {d}, !.row = d, !.step = step]
    OBVIOUS
  <1>5. d \in Digests
    BY <1>2 DEF Newest, CollectJob
  <1>6. r \in Requests(L) /\ r.kind = "collect" /\ r.step = step /\ r.row = d
    BY <1>2, <1>4, <1>5 DEF Requests, CollectJob
  <1>7. req' = [req EXCEPT ![h] = r] /\ req'[h] = r
    BY <1>1, <1>3, <1>4
  <1>8. UNCHANGED db /\ UNCHANGED <<blobs, clock>> /\ referenced' = referenced
    BY DEF CollectNext, db
  <1>9. step = "mark" => d \notin referenced
    BY <1>3 DEF Keeps
  <1>10. (\A e : Holds(h, e)') /\ NoneMissed(h)'
    BY <1>6, <1>7, <1>8, <1>9 DEF Holds, Awaited, Placed, Marked, Dropped, NoneMissed
  <1> QED BY <1>1, <1>6, <1>7, <1>8, <1>10, OnlyRequest

LEMMA CollectMarkKeeps ==
  ASSUME ArtifactsInv, Observe, NEW h \in Handlers, CollectMark(h)
  PROVE  ArtifactsInv'
  <1>1. PICK L : req \in [Handlers -> Requests(L)]
    BY DEF ArtifactsInv, StoreTyped
  <1>2. req[h].kind = "collect" /\ req[h] \in CollectJob /\ req[h].step = "mark"
    BY <1>1, CollectJobs DEF CollectMark, Doing
  <1>3. CASE req[h].row \notin Live
    <2>1. req' = [req EXCEPT ![h] = NoRequest] /\ UNCHANGED db /\ UNCHANGED <<blobs, clock>>
      BY <1>3 DEF CollectMark, End
    <2> QED BY <2>1, EndsQuietly
  <1>4. CASE req[h].row \in Live
    <2>1. PICK d \in Live : d = req[h].row
      BY <1>4
    <2>2. PICK r : r = [req[h] EXCEPT !.step = "content"]
      OBVIOUS
    <2>3. r \in Requests(L) /\ r.kind = "collect" /\ r.step = "content" /\ r.row = d
      BY <1>2, <2>1, <2>2 DEF Requests, CollectJob
    <2>4. /\ req' = [req EXCEPT ![h] = r] /\ SoftDeleteArtifact(d) /\ UNCHANGED <<blobs, clock>>
      BY <1>1, <1>4, <2>1, <2>2 DEF CollectMark, Continue
    <2>5. Marked(h) = {d}
      BY <1>2, <2>1 DEF Marked
    <2> QED BY <1>1, <2>3, <2>4, <2>5, RowGoes
  <1> QED BY <1>3, <1>4

LEMMA CollectContentKeeps ==
  ASSUME ArtifactsInv, Observe, NEW h \in Handlers, CollectContent(h)
  PROVE  ArtifactsInv'
  <1>1. PICK L : req \in [Handlers -> Requests(L)]
    BY DEF ArtifactsInv, StoreTyped
  <1>2. req[h].kind = "collect" /\ req[h] \in CollectJob /\ req[h].step = "content"
    BY <1>1, CollectJobs DEF CollectContent, Doing
  <1>3. /\ UNCHANGED db /\ clock' = clock /\ blobs' \subseteq blobs /\ Live' = Live
        /\ referenced' = referenced /\ blobs \subseteq blobs' \union Dropped(h)
    BY <1>2 DEF CollectContent, RemoveContent, db, Live, Dropped
  <1>4. CASE req' = [req EXCEPT ![h].step = "next"]
    <2>1. PICK r : r = [req[h] EXCEPT !.step = "next"]
      OBVIOUS
    <2>2. r \in Requests(L) /\ r.kind = "collect" /\ r.step = "next"
      BY <1>2, <2>1 DEF Requests, CollectJob
    <2>3. req' = [req EXCEPT ![h] = r] /\ req'[h] = r
      BY <1>1, <1>4, <2>1
    <2>4. TablesTyped'
      BY <1>3 DEF ArtifactsInv, StoreTyped, TablesTyped, db
    <2>5. (\A e : Holds(h, e)') /\ NoneMissed(h)'
      BY <2>2, <2>3, ReliesOnNothing
    <2> QED BY <1>1, <1>3, <2>2, <2>3, <2>4, <2>5, Moves
  <1>5. CASE req' = [req EXCEPT ![h] = NoRequest]
    BY <1>3, <1>5, EndsQuietly
  <1> QED BY <1>4, <1>5 DEF CollectContent, Continue, EndFailed

\* Every content without a row on the list is taken for an orphan; a live row among
\* them has been noted as overlooked.
LEMMA CollectScanKeeps ==
  ASSUME ArtifactsInv, Observe, NEW h \in Handlers, CollectScan(h)
  PROVE  ArtifactsInv'
  <1>1. PICK L : req \in [Handlers -> Requests(L)]
    BY DEF ArtifactsInv, StoreTyped
  <1>2. req[h].kind = "collect" /\ req[h] \in CollectJob /\ req[h].step = "next"
    BY <1>1, CollectJobs DEF CollectScan, Doing
  <1>3. UNCHANGED db /\ UNCHANGED <<blobs, clock>> /\ Live' = Live
    BY DEF CollectScan, db, Live
  <1>4. PICK orphans \in SUBSET Digests : orphans = blobs \ req[h].listed
    BY DEF ArtifactsInv, StoreTyped, TablesTyped
  <1>5. PICK r : r = [req[h] EXCEPT !.step = "orphans", !.todo = orphans]
    OBVIOUS
  <1>6. /\ r \in Requests(L) /\ r.kind = "collect" /\ r.step = "orphans"
        /\ r.listed = req[h].listed /\ r.todo = orphans
    BY <1>2, <1>5 DEF Requests, CollectJob
  <1>7. req' = [req EXCEPT ![h] = r] /\ req'[h] = r
    BY <1>1, <1>4, <1>5 DEF CollectScan, Orphans
  <1>8. ASSUME NEW d, d \in orphans, d \in Live PROVE d \in exposed
    <2>1. d \in Overlooked(h)
      BY <1>2, <1>4, <1>8 DEF Overlooked, MayRemove, Live
    <2> QED BY <2>1, MetAlone DEF ArtifactsInv
  <1>9. \A d : d \notin exposed => Holds(h, d)'
    BY <1>3, <1>6, <1>7, <1>8 DEF Holds, Awaited, Placed, Marked, Dropped
  <1>10. NoneMissed(h)'
    BY <1>3, <1>4, <1>6, <1>7 DEF NoneMissed
  <1> QED BY <1>1, <1>3, <1>6, <1>7, <1>9, <1>10, OnlyRequest

LEMMA CollectOrphanKeeps ==
  ASSUME ArtifactsInv, Observe, NEW h \in Handlers, CollectOrphan(h)
  PROVE  ArtifactsInv'
  <1>1. PICK L : req \in [Handlers -> Requests(L)]
    BY DEF ArtifactsInv, StoreTyped
  <1>2. req[h].kind = "collect" /\ req[h] \in CollectJob /\ req[h].step = "orphans"
    BY <1>1, CollectJobs DEF CollectOrphan, Doing
  <1>3. UNCHANGED db /\ clock' = clock /\ Live' = Live /\ referenced' = referenced
    BY DEF CollectOrphan, db, Live
  <1>4. PICK d \in req[h].todo :
          \/ blobs' = blobs \ {d} /\ req' = [req EXCEPT ![h].todo = @ \ {d}]
          \/ blobs' = blobs /\ req' = [req EXCEPT ![h] = NoRequest]
    BY DEF CollectOrphan, RemoveContent, EndFailed
  <1>5. CASE blobs' = blobs /\ req' = [req EXCEPT ![h] = NoRequest]
    BY <1>3, <1>5, EndsQuietly
  <1>6. CASE blobs' = blobs \ {d} /\ req' = [req EXCEPT ![h].todo = @ \ {d}]
    <2>1. PICK r : r = [req[h] EXCEPT !.todo = @ \ {d}]
      OBVIOUS
    <2>2. /\ r \in Requests(L) /\ r.kind = "collect" /\ r.step = "orphans"
          /\ r.listed = req[h].listed /\ r.todo = req[h].todo \ {d}
      BY <1>2, <2>1 DEF Requests, CollectJob
    <2>3. req' = [req EXCEPT ![h] = r] /\ req'[h] = r
      BY <1>1, <1>6, <2>1
    <2>4. Dropped(h) = req[h].todo
      BY <1>2 DEF Dropped
    <2>5. \A e : e \notin exposed /\ e \in req[h].todo => e \notin Live
      BY <2>4 DEF ArtifactsInv, Holds
    <2>6. \A e : e \notin exposed => Holds(h, e)'
      BY <1>3, <2>2, <2>3, <2>5 DEF Holds, Awaited, Placed, Marked, Dropped
    <2>7. NoneMissed(h)'
      <3>1. blobs \subseteq req[h].listed \union req[h].todo \union fresh[h]
        BY <1>2 DEF ArtifactsInv, NoneMissed
      <3>2. fresh'[h] = fresh[h] \union (blobs' \ blobs)
        BY <2>2, <2>3 DEF Observe
      <3> QED BY <1>6, <2>2, <2>3, <3>1, <3>2 DEF NoneMissed
    <2>8. TablesTyped'
      BY <1>3, <1>6 DEF ArtifactsInv, StoreTyped, TablesTyped, db
    <2> QED BY <1>1, <1>3, <1>6, <2>2, <2>3, <2>4, <2>6, <2>7, <2>8, Moves
  <1> QED BY <1>4, <1>5, <1>6

-----------------------------------------------------------------------------
\* A crash ends all requests, and a start changes nothing they know.
LEMMA DaemonKeeps ==
  ASSUME ArtifactsInv, ((DaemonDies \/ DaemonStarts) /\ Observe) \/ UNCHANGED artifactsVars
  PROVE  ArtifactsInv'
  <1>1. /\ UNCHANGED <<row, createdAt, referenced, blobs, clock>> /\ Live' = Live
        /\ TablesTyped'
    BY DEF DaemonDies, DaemonStarts, artifactsVars, db, Live, ArtifactsInv, StoreTyped,
           TablesTyped
  <1>2. PICK L : req \in [Handlers -> Requests(L)]
    BY DEF ArtifactsInv, StoreTyped
  <1>3. CASE DaemonDies /\ Observe
    <2>1. req' = [h \in Handlers |-> NoRequest]
      BY <1>3 DEF DaemonDies
    <2>2. req' \in [Handlers -> Requests(L)] /\ \A h \in Handlers : req'[h].kind = "idle"
      BY <2>1 DEF NoRequest, Requests
    <2>3. StoreTyped'
      BY <1>1, <2>2 DEF StoreTyped
    <2>4. \A h \in Handlers : (\A d : Holds(h, d)') /\ NoneMissed(h)'
      BY <2>2, ReliesOnNothing
    <2>5. Exposures' \subseteq exposed' /\ exposed \subseteq exposed'
      BY <1>3 DEF Observe
    <2>6. \A d : d \notin exposed' => Sound(d)'
      BY <1>1, <2>5 DEF ArtifactsInv, Sound
    <2> QED BY <2>3, <2>4, <2>5, <2>6 DEF ArtifactsInv
  <1>4. CASE req' = req /\ Observe
    <2>1. StoreTyped'
      BY <1>1, <1>2, <1>4 DEF StoreTyped
    <2>2. Exposures' \subseteq exposed' /\ exposed \subseteq exposed'
      BY <1>4 DEF Observe
    <2>3. \A d : d \notin exposed' => Sound(d)'
      BY <1>1, <2>2 DEF ArtifactsInv, Sound
    <2>4. \A h \in Handlers : \A d : d \notin exposed => Holds(h, d)'
      BY <1>1, <1>4 DEF ArtifactsInv, Holds, Awaited, Placed, Marked, Dropped
    <2>5. ASSUME NEW h \in Handlers PROVE NoneMissed(h)'
      <3>1. req[h].kind = "collect" /\ req[h].step = "orphans" => fresh[h] \subseteq fresh'[h]
        BY <1>4 DEF Observe
      <3> QED BY <1>1, <1>4, <3>1 DEF ArtifactsInv, NoneMissed
    <2> QED BY <2>1, <2>2, <2>3, <2>4, <2>5 DEF ArtifactsInv
  <1>5. CASE UNCHANGED artifactsVars
    BY <1>5 DEF artifactsVars, ArtifactsInv, StoreTyped, TablesTyped, Sound, Holds, NoneMissed,
                Awaited, Placed, Marked, Dropped, Live, Exposures, AtRisk, Used, UsedBy,
                MayRemove, Overlooked, TakenBack
  <1> QED BY <1>3, <1>4, <1>5 DEF DaemonStarts

LEMMA StepKeeps ==
  ASSUME ArtifactsInv, Observe, NEW h \in Handlers, Step(h)
  PROVE  ArtifactsInv'
  <1>1. ASSUME NEW d \in Digests, PutBegin(h, d) \/ ReleaseCheck(h, d) \/ DeleteCheck(h, d)
        PROVE  ArtifactsInv'
    BY <1>1, PutBeginKeeps, ReleaseCheckKeeps, DeleteCheckKeeps
  <1>2. ASSUME NEW keepLast \in 0 .. 1, NEW cutoff \in 0 .. clock,
               CollectList(h, keepLast, cutoff)
        PROVE  ArtifactsInv'
    <2>1. cutoff \in Nat
      BY DEF ArtifactsInv, StoreTyped, TablesTyped
    <2> QED BY <1>2, <2>1, CollectListKeeps
  <1>3. CASE \/ PutRejected(h) \/ PutCommit(h) \/ PutRecord(h) \/ PutRecordFails(h)
             \/ PutUndo(h) \/ ReleaseInsert(h)
    BY <1>3, PutRejectedKeeps, PutCommitKeeps, PutRecordKeeps, PutRecordFailsKeeps,
       PutUndoKeeps, ReleaseInsertKeeps
  <1>4. CASE \/ DeleteMark(h) \/ DeleteContent(h)
             \/ CollectNext(h) \/ CollectMark(h) \/ CollectContent(h) \/ CollectScan(h)
             \/ CollectOrphan(h)
    BY <1>4, DeleteMarkKeeps, DeleteContentKeeps, CollectNextKeeps, CollectMarkKeeps,
       CollectContentKeeps, CollectScanKeeps, CollectOrphanKeeps
  <1>5. CASE CollectEnd(h)
    BY <1>5, EndsQuietly DEF CollectEnd, End
  <1> QED BY <1>1, <1>2, <1>3, <1>4, <1>5 DEF Step

LEMMA ArtifactsStarts == ArtifactsInit => ArtifactsInv
  <1> SUFFICES ASSUME ArtifactsInit PROVE ArtifactsInv
    OBVIOUS
  <1>1. req = [h \in Handlers |-> NoRequest] /\ NoRequest \in Requests({})
    BY DEF ArtifactsInit, Requests
  <1>2. req \in [Handlers -> Requests({})] /\ \A h \in Handlers : req[h].kind = "idle"
    BY <1>1 DEF NoRequest
  <1>3. StoreTyped
    BY <1>2 DEF ArtifactsInit, StoreTyped, TablesTyped
  <1>4. Exposures \subseteq exposed
    <2>1. \A h \in Handlers : UsedBy(h) = {} /\ Overlooked(h) = {} /\ TakenBack(h) = {}
      BY <1>2 DEF UsedBy, Overlooked, TakenBack
    <2>2. Used = {}
      BY <2>1 DEF Used
    <2>3. \A h \in Handlers : AtRisk(h) = {}
      BY <2>1, <2>2 DEF AtRisk
    <2> QED BY <2>3 DEF Exposures
  <1>5. \A d : Sound(d)
    BY DEF ArtifactsInit, Sound, Live
  <1>6. \A h \in Handlers : (\A d : Holds(h, d)) /\ NoneMissed(h)
    BY <1>2 DEF Holds, Awaited, Placed, Marked, Dropped, NoneMissed
  <1> QED BY <1>3, <1>4, <1>5, <1>6 DEF ArtifactsInv

\* Whatever requests overlap, what each has looked up of a content still holds when it
\* acts on it, but for the contents that are exposed: a release finds its row live, an
\* upload its content in place, a removal its row unreferenced and then not live.
THEOREM ArtifactsInvariant == ArtifactsSpec => []ArtifactsInv
  <1>1. ArtifactsInv /\ [ArtifactsNext]_artifactsVars => ArtifactsInv'
    BY StepKeeps, DaemonKeeps DEF ArtifactsNext
  <1> QED BY <1>1, ArtifactsStarts, PTL DEF ArtifactsSpec

\* The content of what is live or referred to is there, for any contents, handlers,
\* requests, failures and crashes, overlapping as they may, unless it was exposed.
THEOREM ContentStays == ArtifactsSpec => []ContentInUseStays
  <1>1. ArtifactsInv => ContentInUseStays
    BY DEF ArtifactsInv, Sound, ContentInUseStays
  <1> QED BY <1>1, ArtifactsInvariant, PTL

\* A collection that runs to its end leaves no orphan behind, whatever runs beside it
\* and whatever its list was cut off at.
THEOREM NoOrphansLeft == ArtifactsSpec => []CollectLeavesNoOrphans
  <1>1. ArtifactsInv => CollectLeavesNoOrphans
    BY DEF ArtifactsInv, NoneMissed, CollectLeavesNoOrphans
  <1> QED BY <1>1, ArtifactsInvariant, PTL
=============================================================================
