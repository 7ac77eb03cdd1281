---------------------------- MODULE SystemdProofs ----------------------------
(***************************************************************************)
(* Proofs about the runtime adapter over systemd, for any number of         *)
(* manifests, probes, failures, deaths and restarts: what a preparation and  *)
(* a deployment that nobody interfered with leave on the host.               *)
(***************************************************************************)
EXTENDS Systemd, TLAPS

CallType == [op : Ops, step : Steps, spec : Manifest,
             alone : BOOLEAN, vacant : BOOLEAN, stale : BOOLEAN]

\* The steps a call of each kind is made of, and who makes which call.
Preparing == {"env", "secrets", "unit", "reload", "enable"}
Asking == {"ask", "probe", "record"}
StepsOf(op) ==
  CASE op = "idle" -> {"none"}
    [] op = "prepare" -> Preparing
    [] op = "health" -> Asking
    [] op = "stop" -> {"stop", "clear"}
    [] op = "start" -> Preparing \union {"start", "mark"}
    [] op = "deploy" -> Preparing \union {"stop", "clear", "start", "mark", "ok"} \union Asking

CallsInv ==
  /\ call \in [Callers -> CallType]
  /\ \A c \in Callers : call[c].step \in StepsOf(call[c].op)
  /\ call["http"].op \in {"idle", "prepare", "health"}

\* How far a preparation that is still alone has got.
FilesOf(c) ==
  /\ call[c].step \in {"secrets", "unit", "reload", "enable"} => env = call[c].spec
  /\ call[c].step \in {"unit", "reload", "enable"} => secrets = call[c].spec
  /\ call[c].step \in {"reload", "enable"} => unit = call[c].spec
  /\ call[c].op = "deploy" /\ call[c].step \notin Preparing =>
       /\ unit = call[c].spec /\ env = call[c].spec /\ secrets = call[c].spec
       /\ loaded = call[c].spec

FilesInv ==
  /\ PreparedIsLoaded
  /\ \A c \in Callers : call[c].alone => FilesOf(c)

\* From the moment nothing runs until the deployment starts its own nothing brings the unit
\* back, and what it starts is what it has prepared.
Before == Preparing \union {"stop", "clear", "start"}
Started == {"mark", "ok"} \union Asking
VacantOf(c) ==
  call[c].op = "deploy" /\ call[c].vacant =>
    /\ call[c].step \in Before => state \in Idle
    /\ call[c].step \in Started /\ call[c].alone => process = call[c].spec
ProcessInv == VacantOf("worker")

IInv == CallsInv /\ FilesInv /\ ProcessInv

-----------------------------------------------------------------------------
(* How calls go on *)

\* Caller c goes on to step s or its call is over; the other call stays where it
\* is and is alone at most if it was.
Others(c) ==
  \A d \in Callers \ {c} :
    /\ call'[d].op = call[d].op /\ call'[d].step = call[d].step /\ call'[d].spec = call[d].spec
    /\ call'[d].vacant = call[d].vacant
    /\ call'[d].alone => call[d].alone

\* It is as vacant as it was.
Stays(c) == call'[c] = NoCall \/ call'[c].vacant = call[c].vacant

Moves(c, s) ==
  /\ call' \in [Callers -> CallType]
  /\ IF s = "error" \/ (s = "ok" /\ call[c].op # "deploy")
     THEN call'[c] = NoCall
     ELSE /\ call'[c].op = call[c].op /\ call'[c].step = s /\ call'[c].spec = call[c].spec
          /\ call'[c].alone = call[c].alone
  /\ Others(c)

LEMMA NoCallIs ==
  /\ NoCall \in CallType
  /\ NoCall.op = "idle" /\ NoCall.step = "none"
  BY SystemdAssumption DEF NoCall, CallType, Ops, Steps, Manifest

LEMMA OntoIs ==
  ASSUME NEW was \in CallType, NEW s \in Steps
  PROVE  /\ Onto(was, s) \in CallType
         /\ IF s = "error" \/ (s = "ok" /\ was.op # "deploy")
            THEN Onto(was, s) = NoCall
            ELSE /\ Onto(was, s).op = was.op /\ Onto(was, s).step = s
                 /\ Onto(was, s).spec = was.spec /\ Onto(was, s).alone = was.alone
                 /\ Onto(was, s).vacant = was.vacant
  <1>1. CASE s = "error" \/ (s = "ok" /\ was.op # "deploy")
    BY <1>1, NoCallIs DEF Onto
  <1>2. CASE ~(s = "error" \/ (s = "ok" /\ was.op # "deploy"))
    <2>1. Onto(was, s) = [was EXCEPT !.step = s]
      BY <1>2 DEF Onto
    <2> QED BY <1>2, <2>1 DEF CallType
  <1> QED BY <1>1, <1>2

LEMMA GotoMoves ==
  ASSUME CallsInv, NEW c \in Callers, NEW s \in Steps, Goto(c, s)
  PROVE  Moves(c, s) /\ Stays(c)
  <1>1. call[c] \in CallType /\ call \in [Callers -> CallType]
    BY DEF CallsInv
  <1>2. call' = [call EXCEPT ![c] = Onto(call[c], s)]
    BY DEF Goto
  <1> QED BY <1>1, <1>2, OntoIs DEF Moves, Others, Stays

\* What a call keeps when another one touches the files.
LEMMA DisturbIs ==
  ASSUME NEW was \in CallType
  PROVE  /\ Disturb(was) \in CallType
         /\ Disturb(was).op = was.op /\ Disturb(was).step = was.step /\ Disturb(was).spec = was.spec
         /\ Disturb(was).vacant = was.vacant /\ Disturb(was).stale = was.stale
         /\ Disturb(was).alone => was.alone
         /\ was.op \in {"deploy", "start", "prepare"} => ~Disturb(was).alone
  <1>1. CASE was.op \in {"deploy", "start", "prepare"}
    <2>1. Disturb(was) = [was EXCEPT !.alone = FALSE]
      BY <1>1 DEF Disturb
    <2> QED BY <2>1 DEF CallType
  <1>2. CASE was.op \notin {"deploy", "start", "prepare"}
    BY <1>2 DEF Disturb
  <1> QED BY <1>1, <1>2

\* The files were touched: no other call that prepares is alone any more.
Undisturbed(d) == call'[d].op \in {"deploy", "start", "prepare"} => ~call'[d].alone
LEMMA TouchMoves ==
  ASSUME CallsInv, NEW c \in Callers, NEW s \in Steps,
         call' = [d \in Callers |-> IF d = c THEN Onto(call[d], s) ELSE Disturb(call[d])]
  PROVE  Moves(c, s) /\ Stays(c) /\ \A d \in Callers \ {c} : Undisturbed(d)
  <1>1. call \in [Callers -> CallType]
    BY DEF CallsInv
  <1>2. call'[c] = Onto(call[c], s) /\ call[c] \in CallType /\ call'[c] \in CallType
    BY <1>1, OntoIs
  <1>3. ASSUME NEW d \in Callers, d # c
        PROVE  /\ call'[d] \in CallType /\ Undisturbed(d)
               /\ call'[d].op = call[d].op /\ call'[d].step = call[d].step
               /\ call'[d].spec = call[d].spec /\ call'[d].vacant = call[d].vacant
               /\ call'[d].alone => call[d].alone
    <2>1. call'[d] = Disturb(call[d]) /\ call[d] \in CallType
      BY <1>1, <1>3
    <2> QED BY <2>1, DisturbIs DEF Undisturbed
  <1>4. call' \in [Callers -> CallType]
    BY <1>2, <1>3
  <1> QED BY <1>1, <1>2, <1>3, <1>4, OntoIs DEF Moves, Others, Stays

LEMMA OutdatedMoves ==
  ASSUME CallsInv, NEW c \in Callers, NEW s \in Steps, Outdated(c, s)
  PROVE  Moves(c, s) /\ Stays(c)
  <1>1. call \in [Callers -> CallType]
    BY DEF CallsInv
  <1>2. call'[c] = Onto(call[c], s) /\ call'[c] \in CallType
    BY <1>1, OntoIs DEF Outdated
  <1>3. ASSUME NEW d \in Callers, d # c
        PROVE  /\ call'[d] \in CallType /\ call'[d].alone = call[d].alone
               /\ call'[d].op = call[d].op /\ call'[d].step = call[d].step
               /\ call'[d].spec = call[d].spec /\ call'[d].vacant = call[d].vacant
    <2> DEFINE b == call[d].stale \/ call[d].step = "record"
    <2>1. call'[d] = [call[d] EXCEPT !.stale = b]
      BY <1>1, <1>3 DEF Outdated, At
    <2>2. call[d] \in CallType /\ b \in BOOLEAN
      BY <1>1 DEF CallType
    <2> HIDE DEF b
    <2> QED BY <2>1, <2>2 DEF CallType
  <1>4. call' \in [Callers -> CallType]
    BY <1>2, <1>3 DEF Outdated
  <1> QED BY <1>1, <1>2, <1>3, <1>4, OntoIs DEF Moves, Others, Stays

\* The stop: what ran before is gone.
LEMMA StopMoves ==
  ASSUME CallsInv, NEW c \in Callers, Stop(c), unit # 0
  PROVE  Moves(c, "clear") /\ state' = "inactive"
  <1>1. call \in [Callers -> CallType] /\ call[c] \in CallType
    BY DEF CallsInv
  <1>2. PICK new \in CallType : new = [call[c] EXCEPT !.step = "clear", !.vacant = TRUE]
    BY <1>1 DEF CallType, Steps
  <1>3. call'[c] = new /\ state' = "inactive"
    BY <1>1, <1>2 DEF Stop
  <1>4. /\ new.op = call[c].op /\ new.step = "clear" /\ new.spec = call[c].spec
        /\ new.alone = call[c].alone
    BY <1>1, <1>2 DEF CallType
  <1>5. ASSUME NEW d \in Callers, d # c
        PROVE  /\ call'[d] \in CallType /\ call'[d].alone = call[d].alone
               /\ call'[d].op = call[d].op /\ call'[d].step = call[d].step
               /\ call'[d].spec = call[d].spec /\ call'[d].vacant = call[d].vacant
    <2> DEFINE b == call[d].stale \/ call[d].step = "record"
    <2>1. call'[d] = [call[d] EXCEPT !.stale = b]
      BY <1>1, <1>5 DEF Stop, At
    <2>2. call[d] \in CallType /\ b \in BOOLEAN
      BY <1>1 DEF CallType
    <2> HIDE DEF b
    <2> QED BY <2>1, <2>2 DEF CallType
  <1>6. call' \in [Callers -> CallType]
    BY <1>3, <1>5 DEF Stop
  <1> QED BY <1>1, <1>3, <1>4, <1>5, <1>6 DEF Moves, Others

\* A move to a step of the same kind of call keeps the calls in order.
LEMMA MovesCalls ==
  ASSUME CallsInv, NEW c \in Callers, NEW s \in Steps, Moves(c, s),
         s \in StepsOf(call[c].op) \union {"ok", "error"}
  PROVE  CallsInv'
  <1>1. call'[c].step \in StepsOf(call'[c].op)
    BY NoCallIs DEF Moves, StepsOf, CallsInv, CallType, Ops
  <1>2. \A d \in Callers : call'[d].step \in StepsOf(call'[d].op)
    BY <1>1 DEF Moves, Others, CallsInv
  <1>3. call'["http"].op \in {"idle", "prepare", "health"}
    BY NoCallIs DEF Moves, Others, CallsInv, Callers
  <1> QED BY <1>2, <1>3 DEF Moves, CallsInv

LEMMA RecordMoves ==
  ASSUME CallsInv, NEW c \in Callers, NEW s \in Steps,
         call' = [call EXCEPT ![c] = Onto([@ EXCEPT !.stale = FALSE], s)]
  PROVE  Moves(c, s) /\ Stays(c)
  <1>1. call \in [Callers -> CallType] /\ call[c] \in CallType
    BY DEF CallsInv
  <1>2. PICK was \in CallType : was = [call[c] EXCEPT !.stale = FALSE]
    BY <1>1 DEF CallType
  <1>3. /\ was.op = call[c].op /\ was.spec = call[c].spec /\ was.alone = call[c].alone
        /\ was.vacant = call[c].vacant
    BY <1>1, <1>2 DEF CallType
  <1>4. call'[c] = Onto(was, s) /\ call' \in [Callers -> CallType]
    BY <1>1, <1>2, OntoIs
  <1>5. \A d \in Callers \ {c} : call'[d] = call[d]
    BY <1>1
  <1> QED BY <1>3, <1>4, <1>5, OntoIs DEF Moves, Others, Stays

-----------------------------------------------------------------------------
(* Steps that leave the files and the unit alone *)

LEMMA QuietStep ==
  ASSUME IInv, NEW c \in Callers, NEW s \in Steps, Moves(c, s), Stays(c),
         s \in StepsOf(call[c].op) \union {"ok", "error"},
         call'[c] = NoCall \/ (call[c].step \in Started /\ s \in Started),
         UNCHANGED <<unit, env, secrets, loaded, enabled, state, process, trusted>>
  PROVE  IInv'
  <1>1. CallsInv'
    BY MovesCalls DEF IInv
  <1>2. call[c].step \in Started => call[c].step \notin Preparing
    BY DEF Started, Preparing, Asking
  <1>3. s \in Started => s \notin Before
    BY DEF Started, Before, Preparing, Asking
  <1>4. call'[c].alone => FilesOf(c)'
    BY <1>2, <1>3, NoCallIs DEF IInv, FilesInv, FilesOf, Moves, Before, Preparing
  <1>5. \A d \in Callers \ {c} : call'[d].alone => FilesOf(d)'
    BY DEF IInv, FilesInv, FilesOf, Moves, Others
  <1>6. FilesInv'
    BY <1>4, <1>5 DEF IInv, FilesInv, PreparedIsLoaded
  <1>7. ProcessInv'
    <2>1. CASE c = "worker"
      BY <2>1, <1>3, NoCallIs DEF IInv, ProcessInv, VacantOf, Moves, Stays
    <2>2. CASE c # "worker"
      BY <2>2 DEF IInv, ProcessInv, VacantOf, Moves, Others, Callers
    <2> QED BY <2>1, <2>2
  <1> QED BY <1>1, <1>6, <1>7 DEF IInv

\* A call that fails, or ends and is not a deployment.
LEMMA EndStep ==
  ASSUME IInv, NEW c \in Callers, NEW s \in {"ok", "error"}, Moves(c, s),
         s = "error" \/ call[c].op # "deploy",
         UNCHANGED <<unit, env, secrets, loaded, enabled, state, process, trusted>>
  PROVE  IInv'
  <1>1. call'[c] = NoCall /\ s \in Steps /\ Stays(c)
    BY DEF Moves, Steps, Stays
  <1> QED BY <1>1, QuietStep

LEMMA FailsStep == ASSUME IInv, NEW c \in Callers, NEW steps, StepFails(c, steps) PROVE IInv'
  <1>1. Goto(c, "error") /\ UNCHANGED <<unit, env, secrets, loaded, enabled, state, process, trusted>>
    BY DEF StepFails, files
  <1>2. Moves(c, "error")
    BY <1>1, GotoMoves DEF IInv, Steps
  <1> QED BY <1>1, <1>2, EndStep

\* Health and the wait of a deployment.
LEMMA AskStep ==
  ASSUME IInv, NEW c \in Callers, AskStatus(c) \/ ProbeFails(c) \/ ProbePasses(c) \/ Record(c)
  PROVE  IInv'
  <1>1. /\ call[c].step \in Asking /\ call[c].op \in {"deploy", "health"}
        /\ UNCHANGED <<unit, env, secrets, loaded, enabled, state, process, trusted>>
    <2>1. call[c].step \in Asking /\ UNCHANGED <<unit, env, secrets, loaded, enabled, state, process, trusted>>
      BY DEF AskStatus, ProbeFails, ProbePasses, Record, At, files, Asking
    <2>2. call[c].op \in Ops /\ call[c].step \in StepsOf(call[c].op)
      BY DEF IInv, CallsInv, CallType
    <2> QED BY <2>1, <2>2 DEF StepsOf, Ops, Asking, Preparing
  <1>2. NotReady(c) \in {"ok", "error", "ask"} /\ (NotReady(c) = "ok" => call[c].op = "health")
    BY DEF NotReady
  <1>3. PICK s \in Asking \union {"ok", "error"} : Moves(c, s) /\ Stays(c)
    <2>1. CASE AskStatus(c)
      <3>1. PICK s \in Asking \union {"ok", "error"} : Goto(c, s) \/ Outdated(c, s)
        BY <2>1, <1>2 DEF AskStatus, Reset, Asking
      <3>2. s \in Steps
        BY DEF Steps, Asking
      <3> QED BY <3>1, <3>2, GotoMoves, OutdatedMoves DEF IInv
    <2>2. CASE ProbeFails(c)
      <3>1. PICK s \in Asking \union {"ok", "error"} : Outdated(c, s)
        BY <2>2, <1>2 DEF ProbeFails, Reset, Asking
      <3>2. s \in Steps
        BY DEF Steps, Asking
      <3> QED BY <3>1, <3>2, OutdatedMoves DEF IInv
    <2>3. CASE ProbePasses(c)
      BY <2>3, GotoMoves DEF IInv, ProbePasses, Steps, Asking
    <2>4. CASE Record(c)
      <3>1. PICK s \in Asking \union {"ok", "error"} :
              call' = [call EXCEPT ![c] = Onto([@ EXCEPT !.stale = FALSE], s)]
        BY <2>4, <1>2 DEF Record, Asking
      <3>2. s \in Steps
        BY DEF Steps, Asking
      <3> QED BY <3>1, <3>2, RecordMoves DEF IInv
    <2> QED BY <2>1, <2>2, <2>3, <2>4
  <1>4. s \in Steps /\ s \in StepsOf(call[c].op) \union {"ok", "error"}
    BY <1>1 DEF Steps, Asking, StepsOf
  <1>5. call'[c] = NoCall \/ (call[c].step \in Started /\ s \in Started)
    BY <1>1, <1>3 DEF Moves, Started
  <1> QED BY <1>1, <1>3, <1>4, <1>5, QuietStep

\* The bookkeeping after a start.
LEMMA MarkStep == ASSUME IInv, NEW c \in Callers, MarkStarted(c) PROVE IInv'
  <1>1. /\ call[c].step = "mark" /\ Outdated(c, AfterStart(call[c].op))
        /\ UNCHANGED <<unit, env, secrets, loaded, enabled, state, process, trusted>>
    BY DEF MarkStarted, At, files
  <1>2. call[c].op \in {"deploy", "start"}
    <2>1. call[c].op \in Ops /\ call[c].step \in StepsOf(call[c].op)
      BY DEF IInv, CallsInv, CallType
    <2> QED BY <1>1, <2>1 DEF StepsOf, Ops, Preparing, Asking
  <1>3. CASE call[c].op = "deploy"
    <2>1. Outdated(c, "ask")
      BY <1>1, <1>3 DEF AfterStart
    <2>2. Moves(c, "ask") /\ Stays(c) /\ "ask" \in Steps /\ "ask" \in StepsOf(call[c].op)
      BY <2>1, <1>3, OutdatedMoves DEF IInv, Steps, StepsOf, Asking
    <2> QED BY <1>1, <2>2, QuietStep DEF Started, Asking
  <1>4. CASE call[c].op = "start"
    <2>1. Outdated(c, "ok")
      BY <1>1, <1>4 DEF AfterStart
    <2>2. Moves(c, "ok")
      BY <2>1, OutdatedMoves DEF IInv, Steps
    <2> QED BY <1>1, <1>4, <2>2, EndStep
  <1> QED BY <1>2, <1>3, <1>4

-----------------------------------------------------------------------------
(* The preparation *)

\* A call that touches the files: what another call has prepared no longer
\* counts, so only its own claims and the trusted manifest are to be shown.
LEMMA TouchStep ==
  ASSUME IInv, NEW c \in Callers, NEW s \in Steps, Moves(c, s), Stays(c),
         \A d \in Callers \ {c} : Undisturbed(d),
         s \in StepsOf(call[c].op) \union {"ok", "error"}, call[c].step \in Preparing,
         s \notin Started \/ call'[c] = NoCall,
         UNCHANGED <<state, process>>,
         PreparedIsLoaded', call'[c].alone => FilesOf(c)'
  PROVE  IInv'
  <1>1. CallsInv'
    BY MovesCalls DEF IInv
  <1>2. ASSUME NEW d \in Callers, d # c, call'[d].alone PROVE FilesOf(d)'
    <2>1. call'[d].op \in Ops \ {"deploy", "start", "prepare"} /\ call'[d].step \in StepsOf(call'[d].op)
      BY <1>1, <1>2 DEF CallsInv, CallType, Undisturbed
    <2>2. call'[d].step \notin Preparing
      BY <2>1 DEF StepsOf, Ops, Preparing, Asking
    <2> QED BY <2>1, <2>2 DEF FilesOf, Preparing
  <1>3. FilesInv'
    BY <1>2 DEF FilesInv
  <1>4. ProcessInv'
    <2>1. CASE c = "worker"
      <3>1. call[c].step \in Before
        BY DEF Before
      <3> QED BY <2>1, <3>1, NoCallIs DEF IInv, Moves, Stays, ProcessInv, VacantOf
    <2>2. CASE c # "worker"
      BY <2>2 DEF IInv, ProcessInv, VacantOf, Moves, Others, Callers
    <2> QED BY <2>1, <2>2
  <1> QED BY <1>1, <1>3, <1>4 DEF IInv

\* Who prepares, and what comes next is a step of the same call.
LEMMA PreparingIs ==
  ASSUME CallsInv, NEW c \in Callers, call[c].step \in Preparing
  PROVE  /\ call[c].op \in {"deploy", "start", "prepare"}
         /\ Preparing \subseteq StepsOf(call[c].op) /\ Preparing \subseteq Steps
         /\ Preparing \intersect Started = {}
  <1>1. call[c].op \in Ops /\ call[c].step \in StepsOf(call[c].op)
    BY DEF CallsInv, CallType
  <1> QED BY <1>1 DEF StepsOf, Ops, Preparing, Asking, Steps, Started

LEMMA WriteEnvStep == ASSUME IInv, NEW c \in Callers, WriteEnv(c) PROVE IInv'
  <1>1. /\ call[c].step = "env" /\ env' = call[c].spec /\ trusted' = 0
        /\ UNCHANGED <<state, process>>
        /\ call' = [d \in Callers |-> IF d = c THEN Onto(call[d], "secrets")
                                      ELSE Disturb(call[d])]
    BY DEF WriteEnv, At, Touch
  <1>2. "secrets" \in Preparing /\ call[c].step \in Preparing
    BY <1>1 DEF Preparing
  <1>3. Moves(c, "secrets") /\ Stays(c) /\ \A d \in Callers \ {c} : Undisturbed(d)
    BY <1>1, TouchMoves DEF IInv, Steps
  <1>4. FilesOf(c)' /\ PreparedIsLoaded'
    BY <1>1, <1>2, <1>3 DEF FilesOf, PreparedIsLoaded, Moves
  <1> QED BY <1>1, <1>2, <1>3, <1>4, PreparingIs, TouchStep DEF IInv

LEMMA WriteSecretsStep == ASSUME IInv, NEW c \in Callers, WriteSecrets(c) PROVE IInv'
  <1>1. /\ call[c].step = "secrets" /\ secrets' = call[c].spec /\ env' = env /\ trusted' = 0
        /\ UNCHANGED <<state, process>>
        /\ call' = [d \in Callers |-> IF d = c THEN Onto(call[d], "unit")
                                      ELSE Disturb(call[d])]
    BY DEF WriteSecrets, At, Touch
  <1>2. "unit" \in Preparing /\ call[c].step \in Preparing
    BY <1>1 DEF Preparing
  <1>3. Moves(c, "unit") /\ Stays(c) /\ \A d \in Callers \ {c} : Undisturbed(d)
    BY <1>1, TouchMoves DEF IInv, Steps
  <1>4. PreparedIsLoaded' /\ (call'[c].alone => FilesOf(c)')
    BY <1>1, <1>2, <1>3 DEF IInv, FilesInv, FilesOf, PreparedIsLoaded, Moves
  <1> QED BY <1>1, <1>2, <1>3, <1>4, PreparingIs, TouchStep DEF IInv

LEMMA WriteUnitStep == ASSUME IInv, NEW c \in Callers, WriteUnit(c) PROVE IInv'
  <1>1. PICK s \in {"enable", "reload"} :
          /\ call[c].step = "unit" /\ unit' = call[c].spec /\ UNCHANGED <<env, secrets>> /\ trusted' = 0
          /\ UNCHANGED <<state, process>>
          /\ call' = [d \in Callers |-> IF d = c THEN Onto(call[d], s)
                                        ELSE Disturb(call[d])]
    BY DEF WriteUnit, At
  <1>2. s \in Preparing /\ s \in Steps /\ call[c].step \in Preparing
    BY <1>1 DEF Preparing, Steps
  <1>3. Moves(c, s) /\ Stays(c) /\ \A d \in Callers \ {c} : Undisturbed(d)
    BY <1>1, <1>2, TouchMoves DEF IInv
  <1>4. PreparedIsLoaded' /\ (call'[c].alone => FilesOf(c)')
    BY <1>1, <1>2, <1>3 DEF IInv, FilesInv, FilesOf, PreparedIsLoaded, Moves
  <1> QED BY <1>1, <1>2, <1>3, <1>4, PreparingIs, TouchStep DEF IInv

LEMMA ReloadStep == ASSUME IInv, NEW c \in Callers, Reload(c) PROVE IInv'
  <1>1. /\ call[c].step = "reload" /\ UNCHANGED <<unit, env, secrets>> /\ trusted' = 0
        /\ UNCHANGED <<state, process>>
        /\ call' = [d \in Callers |-> IF d = c THEN Onto(call[d], "enable")
                                      ELSE Disturb(call[d])]
    BY DEF Reload, At, Touch
  <1>2. "enable" \in Preparing /\ call[c].step \in Preparing
    BY <1>1 DEF Preparing
  <1>3. Moves(c, "enable") /\ Stays(c) /\ \A d \in Callers \ {c} : Undisturbed(d)
    BY <1>1, TouchMoves DEF IInv, Steps
  <1>4. PreparedIsLoaded' /\ (call'[c].alone => FilesOf(c)')
    BY <1>1, <1>2, <1>3 DEF IInv, FilesInv, FilesOf, PreparedIsLoaded, Moves
  <1> QED BY <1>1, <1>2, <1>3, <1>4, PreparingIs, TouchStep DEF IInv

\* The last step: everything on the host is of the manifest of the preparation.
LEMMA EnableStep == ASSUME IInv, NEW c \in Callers, Enable(c) PROVE IInv'
  <1>1. /\ call[c].step = "enable" /\ UNCHANGED <<unit, env, secrets>>
        /\ enabled' = TRUE /\ loaded' = unit
        /\ trusted' = IF call[c].alone THEN call[c].spec ELSE 0
        /\ UNCHANGED <<state, process>>
        /\ \E s \in AfterPrepare(call[c].op) :
             call' = [d \in Callers |-> IF d = c THEN Onto(call[d], s) ELSE Disturb(call[d])]
    BY DEF Enable, At, Prepared
  <1>2. call[c].op \in {"deploy", "start", "prepare"} /\ call[c].step \in Preparing
    BY <1>1, PreparingIs DEF IInv, Preparing
  <1>3. PICK s \in AfterPrepare(call[c].op) :
          call' = [d \in Callers |-> IF d = c THEN Onto(call[d], s) ELSE Disturb(call[d])]
    BY <1>1
  <1>4. /\ s \in {"stop", "start", "ok"} /\ s \in Steps
        /\ s \in StepsOf(call[c].op) \union {"ok", "error"}
        /\ s = "ok" => call[c].op = "prepare"
    BY <1>2 DEF AfterPrepare, Steps, StepsOf
  <1>6. Moves(c, s) /\ Stays(c) /\ \A d \in Callers \ {c} : Undisturbed(d)
    BY <1>3, <1>4, TouchMoves DEF IInv
  <1>7. call[c].alone => env = call[c].spec /\ secrets = call[c].spec /\ unit = call[c].spec
    BY <1>1 DEF IInv, FilesInv, FilesOf
  <1>8. PreparedIsLoaded'
    BY <1>1, <1>7 DEF PreparedIsLoaded
  <1>9. call'[c].alone => FilesOf(c)'
    BY <1>1, <1>4, <1>6, <1>7, NoCallIs DEF FilesOf, Moves
  <1>10. s \notin Started \/ call'[c] = NoCall
    BY <1>4, <1>6 DEF Moves, Started, Asking
  <1> QED BY <1>1, <1>2, <1>4, <1>6, <1>8, <1>9, <1>10, TouchStep

-----------------------------------------------------------------------------
(* Stop and start: only the worker's calls do that *)

LEMMA OnlyWorker ==
  ASSUME CallsInv, NEW c \in Callers, call[c].step \in {"stop", "clear", "start", "mark"}
  PROVE  /\ c = "worker" /\ call[c].op \in {"deploy", "start", "stop"}
         /\ call[c].step \in {"stop", "clear"} => call[c].op \in {"deploy", "stop"}
         /\ call[c].step = "start" => call[c].op \in {"deploy", "start"}
  <1>1. call[c].op \in Ops /\ call[c].step \in StepsOf(call[c].op)
    BY DEF CallsInv, CallType
  <1>2. /\ call[c].op \in {"deploy", "start", "stop"}
        /\ call[c].step \in {"stop", "clear"} => call[c].op \in {"deploy", "stop"}
        /\ call[c].step = "start" => call[c].op \in {"deploy", "start"}
    BY <1>1 DEF StepsOf, Ops, Preparing, Asking
  <1> QED BY <1>2 DEF CallsInv, Callers

\* The files stay; the worker goes on past the preparation.
LEMMA WorkerStep ==
  ASSUME IInv, NEW s \in Steps, Moves("worker", s),
         s \in StepsOf(call["worker"].op) \union {"ok", "error"},
         call["worker"].step \notin Preparing,
         s \notin Preparing, UNCHANGED <<unit, env, secrets, loaded, enabled, trusted>>, ProcessInv'
  PROVE  IInv'
  <1>1. CallsInv'
    BY MovesCalls DEF IInv, Callers
  <1>2. call'["worker"].alone => FilesOf("worker")'
    BY NoCallIs DEF IInv, FilesInv, FilesOf, Moves, Preparing, Callers
  <1>3. \A d \in Callers \ {"worker"} : call'[d].alone => FilesOf(d)'
    BY DEF IInv, FilesInv, FilesOf, Moves, Others
  <1>4. FilesInv'
    BY <1>2, <1>3 DEF IInv, FilesInv, PreparedIsLoaded
  <1> QED BY <1>1, <1>4 DEF IInv

LEMMA StopStep == ASSUME IInv, NEW c \in Callers, Stop(c) PROVE IInv'
  <1>1. call[c].step = "stop" /\ UNCHANGED <<unit, env, secrets, loaded, enabled, process, trusted>>
    BY DEF Stop, At, files
  <1>2. c = "worker" /\ call[c].op \in {"deploy", "stop"}
    BY <1>1, OnlyWorker DEF IInv
  <1>3. CASE unit = 0
    <2>1. Goto(c, "error") /\ UNCHANGED state
      BY <1>3 DEF Stop
    <2>2. Moves(c, "error")
      BY <2>1, GotoMoves DEF IInv, Steps
    <2> QED BY <1>1, <2>1, <2>2, EndStep
  <1>4. CASE unit # 0
    <2>2. Moves(c, "clear") /\ state' = "inactive" /\ "clear" \in Steps
      BY <1>4, StopMoves DEF IInv, Steps
    <2>3. ProcessInv'
      BY <1>2, <2>2 DEF ProcessInv, VacantOf, Moves, Started, Asking, Idle
    <2>4. "clear" \in StepsOf(call[c].op) /\ "clear" \notin Preparing /\ "stop" \notin Preparing
      BY <1>2 DEF StepsOf, Preparing
    <2> QED BY <1>1, <1>2, <2>2, <2>3, <2>4, WorkerStep
  <1> QED BY <1>3, <1>4

LEMMA ClearStep == ASSUME IInv, NEW c \in Callers, Clear(c) PROVE IInv'
  <1>1. /\ call[c].step = "clear" /\ Outdated(c, AfterStop(call[c].op))
        /\ UNCHANGED <<unit, env, secrets, loaded, enabled, state, process, trusted>>
    BY DEF Clear, At, files
  <1>2. c = "worker" /\ call[c].op \in {"deploy", "stop"}
    BY <1>1, OnlyWorker DEF IInv
  <1>3. CASE call[c].op = "deploy"
    <2>1. Moves(c, "start") /\ Stays(c) /\ "start" \in Steps
      BY <1>1, <1>3, OutdatedMoves DEF IInv, Steps, AfterStop
    <2>2. ProcessInv'
      BY <1>1, <1>2, <1>3, <2>1, NoCallIs DEF IInv, ProcessInv, VacantOf, Moves, Stays, Started, Before, Asking
    <2>3. "start" \in StepsOf(call[c].op) /\ "start" \notin Preparing /\ "clear" \notin Preparing
      BY <1>3 DEF StepsOf, Preparing
    <2> QED BY <1>1, <1>2, <2>1, <2>2, <2>3, WorkerStep
  <1>4. CASE call[c].op = "stop"
    <2>1. Outdated(c, "ok")
      BY <1>1, <1>4 DEF AfterStop
    <2>2. Moves(c, "ok")
      BY <2>1, OutdatedMoves DEF IInv, Steps
    <2> QED BY <1>1, <1>4, <2>2, EndStep
  <1> QED BY <1>2, <1>3, <1>4

LEMMA StartStep == ASSUME IInv, NEW c \in Callers, Start(c) \/ StartFails(c) PROVE IInv'
  <1>1. call[c].step = "start" /\ UNCHANGED <<unit, env, secrets, loaded, enabled, trusted>>
    BY DEF Start, StartFails, At, files
  <1>2. c = "worker" /\ call[c].op \in {"deploy", "start"}
    BY <1>1, OnlyWorker DEF IInv
  <1>3. "start" \notin Preparing /\ "mark" \notin Preparing /\ "error" \notin Preparing
    BY DEF Preparing
  <1>4. CASE Start(c) /\ state = "active"
    <2>1. Goto(c, AfterStart(call[c].op)) /\ UNCHANGED <<state, process>>
      BY <1>4 DEF Start
    <2>2. CASE call[c].op = "start"
      <3>1. Moves(c, "ok")
        BY <2>1, <2>2, GotoMoves DEF IInv, Steps, AfterStart
      <3> QED BY <1>1, <2>1, <2>2, <3>1, EndStep
    <2>3. CASE call[c].op = "deploy"
      <3>1. ~call[c].vacant
        BY <1>1, <1>2, <1>4, <2>3 DEF IInv, ProcessInv, VacantOf, Before, Idle
      <3>2. Moves(c, "ask") /\ Stays(c) /\ "ask" \in Steps /\ "ask" \in StepsOf(call[c].op)
        BY <2>1, <2>3, GotoMoves DEF IInv, Steps, StepsOf, AfterStart, Asking
      <3>3. "ask" \notin Preparing
        BY DEF Preparing
      <3>4. ProcessInv'
        BY <1>2, <3>1, <3>2, NoCallIs DEF ProcessInv, VacantOf, Moves, Stays
      <3> QED BY <1>1, <1>2, <1>3, <3>2, <3>3, <3>4, WorkerStep
    <2> QED BY <1>2, <2>2, <2>3
  <1>5. CASE Start(c) /\ state # "active"
    <2>1. /\ state' = "active" /\ process' = From(loaded)
          /\ Outdated(c, "mark")
      BY <1>5 DEF Start
    <2>2. Moves(c, "mark") /\ "mark" \in Steps /\ "mark" \in StepsOf(call[c].op)
      BY <1>2, <2>1, OutdatedMoves DEF IInv, Steps, StepsOf
    <2>3. ProcessInv'
      <3>1. call[c].op = "deploy" /\ call[c].alone => From(loaded) = call[c].spec
        BY <1>1, <1>3 DEF IInv, FilesInv, FilesOf, From
      <3>2. /\ call'[c].op = call[c].op /\ call'[c].step = "mark" /\ call'[c].spec = call[c].spec
            /\ call'[c].alone = call[c].alone
        BY <2>2 DEF Moves
      <3> QED BY <1>2, <2>1, <3>1, <3>2 DEF ProcessInv, VacantOf, Before, Preparing
    <2> QED BY <1>1, <1>2, <1>3, <2>2, <2>3, WorkerStep
  <1>6. CASE StartFails(c)
    <2>1. Outdated(c, "error")
      BY <1>6 DEF StartFails
    <2>2. Moves(c, "error") /\ "error" \in Steps
      BY <2>1, OutdatedMoves DEF IInv, Steps
    <2>3. ProcessInv'
      BY <1>2, <2>2, NoCallIs DEF Moves, ProcessInv, VacantOf
    <2> QED BY <1>1, <1>2, <1>3, <2>2, <2>3, WorkerStep
  <1> QED BY <1>4, <1>5, <1>6

-----------------------------------------------------------------------------
(* Requests, the unit's own life, restarts *)

LEMMA BeginStep ==
  ASSUME IInv, spec \in Versions, NEW c \in Callers, NEW op \in Ops, Begin(c, op)
  PROVE  IInv'
  <1>1. /\ UNCHANGED <<unit, env, secrets, loaded, enabled, state, process, trusted>>
        /\ op \in IF c = "worker" THEN {"deploy", "start", "stop"} ELSE {"prepare", "health"}
    BY DEF Begin, files
  <1> DEFINE empty == op = "deploy" /\ state \in Idle
  <1>2. PICK sp \in Manifest :
          call' = [call EXCEPT ![c] = [NoCall EXCEPT !.op = op, !.step = FirstStep(op),
                                                     !.spec = sp, !.vacant = empty]]
    <2>1. CASE FirstStep(op) = "env"
      <3>1. spec \in Manifest
        BY SystemdAssumption DEF Versions, Manifest
      <3> QED BY <2>1, <3>1 DEF Begin
    <2>2. CASE FirstStep(op) # "env"
      <3>1. 0 \in Manifest
        BY SystemdAssumption DEF Manifest
      <3> QED BY <2>2, <3>1 DEF Begin
    <2> QED BY <2>1, <2>2
  <1>3. /\ FirstStep(op) \in StepsOf(op) /\ FirstStep(op) \in {"env", "stop", "ask"}
        /\ op = "deploy" => FirstStep(op) = "env"
    BY <1>1 DEF FirstStep, StepsOf, Preparing, Asking
  <1>4. /\ call'[c].op = op /\ call'[c].step = FirstStep(op) /\ call'[c].vacant = empty
        /\ call'[c] \in CallType
        /\ \A d \in Callers \ {c} : call'[d] = call[d]
        /\ call' \in [Callers -> CallType]
    <2>1. call \in [Callers -> CallType] /\ FirstStep(op) \in Steps
      BY <1>3 DEF IInv, CallsInv, Steps
    <2>2. PICK new \in CallType :
            new = [NoCall EXCEPT !.op = op, !.step = FirstStep(op), !.spec = sp, !.vacant = empty]
      BY <2>1, NoCallIs DEF CallType
    <2>3. new.op = op /\ new.step = FirstStep(op) /\ new.vacant = empty
      BY <2>2, NoCallIs DEF CallType
    <2> QED BY <1>2, <2>1, <2>2, <2>3
  <1>5. CallsInv'
    BY <1>1, <1>3, <1>4 DEF IInv, CallsInv, Callers
  <1>6. FilesOf(c)'
    BY <1>3, <1>4 DEF FilesOf, Preparing
  <1>7. \A d \in Callers \ {c} : call'[d].alone => FilesOf(d)'
    BY <1>1, <1>4 DEF IInv, FilesInv, FilesOf
  <1>8. FilesInv'
    BY <1>1, <1>6, <1>7 DEF IInv, FilesInv, PreparedIsLoaded
  <1>9. ProcessInv'
    <2>1. CASE c = "worker"
      BY <1>1, <1>3, <1>4, <2>1 DEF ProcessInv, VacantOf, Started, Asking
    <2>2. CASE c # "worker"
      BY <1>1, <1>4, <2>2 DEF IInv, ProcessInv, VacantOf, Callers
    <2> QED BY <2>1, <2>2
  <1> QED BY <1>5, <1>8, <1>9 DEF IInv

LEMMA EnvironmentStep ==
  ASSUME IInv, PutSpec \/ Dies \/ AutoRestart \/ Tick \/ UNCHANGED vars
  PROVE  IInv'
  <1>1. UNCHANGED <<unit, env, secrets, loaded, enabled, trusted, call>>
    BY DEF PutSpec, Dies, AutoRestart, Tick, files, vars
  <1>2. CallsInv' /\ FilesInv'
    BY <1>1 DEF IInv, CallsInv, FilesInv, FilesOf, PreparedIsLoaded
  <1>3. ProcessInv'
    <2>1. CASE PutSpec \/ Tick \/ UNCHANGED vars
      BY <1>1, <2>1 DEF IInv, ProcessInv, VacantOf, PutSpec, Tick, vars
    <2>2. CASE Dies
      BY <1>1, <2>2 DEF IInv, ProcessInv, VacantOf, Idle, Dies
    <2>3. CASE AutoRestart
      <3>1. state = "activating" /\ process' = From(loaded)
        BY <2>3 DEF AutoRestart
      <3>2. call["worker"].op = "deploy" /\ call["worker"].step \in Started /\ call["worker"].alone =>
              From(loaded) = call["worker"].spec
        BY DEF IInv, FilesInv, FilesOf, Callers, Started, Asking, Preparing, From
      <3> QED BY <1>1, <3>1, <3>2 DEF IInv, ProcessInv, VacantOf, Idle
    <2> QED BY <2>1, <2>2, <2>3
  <1> QED BY <1>2, <1>3 DEF IInv

\* The daemon or the host goes down: no call is left to claim anything.
LEMMA RestartStep == ASSUME IInv, Crash \/ Reboot PROVE IInv'
  <1>1. \A c \in Callers : call'[c] = NoCall
    BY DEF Crash, Reboot
  <1>2. call' \in [Callers -> CallType]
    BY NoCallIs DEF Crash, Reboot
  <1>3. CallsInv'
    BY <1>1, <1>2, NoCallIs DEF CallsInv, StepsOf, Callers
  <1>4. UNCHANGED <<unit, env, secrets, enabled, trusted>> /\ loaded' \in {loaded, unit}
    BY DEF Crash, Reboot, files
  <1>5. FilesInv'
    BY <1>1, <1>4, NoCallIs DEF IInv, FilesInv, FilesOf, PreparedIsLoaded
  <1>6. ProcessInv'
    BY <1>1, NoCallIs DEF ProcessInv, VacantOf, Callers
  <1> QED BY <1>3, <1>5, <1>6 DEF IInv

-----------------------------------------------------------------------------
LEMMA InitInv == Init => IInv
  <1> SUFFICES ASSUME Init PROVE IInv
    OBVIOUS
  <1>1. \A c \in Callers : call[c] = NoCall
    BY DEF Init
  <1>2. call \in [Callers -> CallType]
    BY NoCallIs DEF Init
  <1>3. CallsInv
    BY <1>1, <1>2, NoCallIs DEF CallsInv, StepsOf, Callers
  <1>4. FilesInv
    BY <1>1, NoCallIs DEF Init, FilesInv, FilesOf, PreparedIsLoaded
  <1>5. ProcessInv
    BY <1>1, NoCallIs DEF ProcessInv, VacantOf, Callers
  <1> QED BY <1>3, <1>4, <1>5 DEF IInv

LEMMA NextInv == IInv /\ spec \in Versions /\ [Next]_vars => IInv'
  <1> SUFFICES ASSUME IInv, spec \in Versions, [Next]_vars PROVE IInv'
    OBVIOUS
  <1>1. ASSUME NEW c \in Callers, Step(c) PROVE IInv'
    BY <1>1, WriteEnvStep, WriteSecretsStep, WriteUnitStep, ReloadStep, EnableStep, FailsStep, StopStep, ClearStep,
       StartStep, MarkStep, AskStep DEF Step
  <1>2. ASSUME NEW c \in Callers, NEW op \in Ops, Begin(c, op) PROVE IInv'
    BY <1>2, BeginStep
  <1>3. CASE PutSpec \/ Dies \/ AutoRestart \/ Tick \/ UNCHANGED vars
    BY <1>3, EnvironmentStep
  <1>4. CASE Crash \/ Reboot
    BY <1>4, RestartStep
  <1> QED BY <1>1, <1>2, <1>3, <1>4 DEF Next

\* There is always a registered manifest.
LEMMA AlwaysRegistered == Spec => [](spec \in Versions)
  <1>1. Init => spec \in Versions
    BY SystemdAssumption DEF Init, Versions
  <1>2. spec \in Versions /\ [Next]_vars => (spec \in Versions)'
    BY DEF Next, PutSpec, Step, Begin, WriteEnv, WriteSecrets, WriteUnit, Reload, Enable, StepFails, Stop, Clear,
           Start, StartFails, MarkStarted, AskStatus, ProbeFails, ProbePasses, Record,
           Dies, AutoRestart, Crash, Reboot, Tick, vars
  <1> QED BY <1>1, <1>2, PTL DEF Spec

\* The conjunction that carries the theorems below: who is at which step, and how
\* much of the host a call that nobody disturbed may rely on.
THEOREM RuntimeInvariant == Spec => []IInv
  BY InitInv, NextInv, AlwaysRegistered, PTL DEF Spec

\* After a preparation that succeeded alone the files, what systemd has loaded and
\* what comes back after a reboot are of that manifest (Prepare repairs what an
\* earlier one left half done).
THEOREM PreparationHolds == Spec => []PreparedIsLoaded
  <1>1. IInv => PreparedIsLoaded
    BY DEF IInv, FilesInv
  <1> QED BY <1>1, RuntimeInvariant, PTL

\* A deployment that reports ready has its own manifest running, not one of before and not a
\* mixture, when nobody prepared against it and when it stopped what ran before or nothing ran
\* when it came.
THEOREM DeploymentRuns == Spec => []DeployedRuns
  <1>1. IInv => DeployedRuns
    BY DEF IInv, ProcessInv, VacantOf, DeployedRuns, Started
  <1> QED BY <1>1, RuntimeInvariant, PTL

-----------------------------------------------------------------------------
(* What counts towards ready *)

\* An answer of this start that is not counted yet.
Due(c) == IF At(c, "record") /\ ~call[c].stale THEN 1 ELSE 0

\* The memory is about to be reset, or is known to be wrong.
Excused == disturbed \/ Marking \/ At("worker", "clear")

CountInv == Excused \/ Least(successes + Due("worker") + Due("http"), Required) <= earned

CountsOK == successes \in 0 .. Required /\ earned \in 0 .. Required /\ disturbed \in BOOLEAN

LEMMA DueIs == \A c \in Callers : Due(c) \in {0, 1}
  BY DEF Due

\* The other call is where it was, and what it has to count is what it had.
Keeps(c) ==
  /\ Due(c)' = 0
  /\ \A d \in Callers \ {c} : Due(d)' = Due(d) /\ call'[d].step = call[d].step

LEMMA GotoKeeps ==
  ASSUME CallsInv, NEW c \in Callers, NEW s \in Steps, s # "record", Goto(c, s)
  PROVE  Keeps(c)
  <1>1. call[c] \in CallType /\ call \in [Callers -> CallType]
    BY DEF CallsInv
  <1>2. call'[c] = Onto(call[c], s) /\ \A d \in Callers \ {c} : call'[d] = call[d]
    BY <1>1 DEF Goto
  <1>3. call'[c].step # "record"
    BY <1>1, <1>2, OntoIs, NoCallIs
  <1> QED BY <1>2, <1>3 DEF Keeps, Due, At

LEMMA TouchKeeps ==
  ASSUME CallsInv, NEW c \in Callers, NEW s \in Steps, s # "record",
         call' = [d \in Callers |-> IF d = c THEN Onto(call[d], s)
                                    ELSE Disturb(call[d])]
  PROVE  Keeps(c)
  <1>1. call[c] \in CallType /\ call \in [Callers -> CallType]
    BY DEF CallsInv
  <1>2. call'[c] = Onto(call[c], s)
    OBVIOUS
  <1>3. call'[c].step # "record"
    BY <1>1, <1>2, OntoIs, NoCallIs
  <1>4. ASSUME NEW d \in Callers, d # c
        PROVE  call'[d].step = call[d].step /\ call'[d].stale = call[d].stale
    <2>1. call'[d] = Disturb(call[d]) /\ call[d] \in CallType
      BY <1>1, <1>4
    <2> QED BY <2>1, DisturbIs
  <1> QED BY <1>3, <1>4 DEF Keeps, Due, At

LEMMA RecordKeeps ==
  ASSUME CallsInv, NEW c \in Callers, NEW s \in Steps, s # "record",
         call' = [call EXCEPT ![c] = Onto([@ EXCEPT !.stale = FALSE], s)]
  PROVE  Keeps(c)
  <1>1. call \in [Callers -> CallType] /\ call[c] \in CallType
    BY DEF CallsInv
  <1>2. PICK was \in CallType : was = [call[c] EXCEPT !.stale = FALSE]
    BY <1>1 DEF CallType
  <1>3. call'[c] = Onto(was, s) /\ \A d \in Callers \ {c} : call'[d] = call[d]
    BY <1>1, <1>2
  <1>4. call'[c].step # "record"
    BY <1>3, OntoIs, NoCallIs
  <1> QED BY <1>3, <1>4 DEF Keeps, Due, At

\* After a reset no answer is due.
LEMMA OutdatedClears ==
  ASSUME CallsInv, NEW c \in Callers, NEW s \in Steps, s # "record", Outdated(c, s)
  PROVE  /\ \A d \in Callers : Due(d)' = 0
         /\ \A d \in Callers \ {c} : call'[d].step = call[d].step
  <1>1. call \in [Callers -> CallType] /\ call[c] \in CallType
    BY DEF CallsInv
  <1>2. call'[c] = Onto(call[c], s)
    BY <1>1 DEF Outdated
  <1>3. call'[c].step # "record"
    BY <1>1, <1>2, OntoIs, NoCallIs
  <1>4. ASSUME NEW d \in Callers, d # c
        PROVE  /\ call'[d].step = call[d].step
               /\ call[d].step = "record" => call'[d].stale
    <2> DEFINE b == call[d].stale \/ call[d].step = "record"
    <2>1. call'[d] = [call[d] EXCEPT !.stale = b]
      BY <1>1, <1>4 DEF Outdated, At
    <2>2. call[d] \in CallType /\ b \in BOOLEAN
      BY <1>1 DEF CallType
    <2>3. call[d].step = "record" => b
      OBVIOUS
    <2> HIDE DEF b
    <2> QED BY <2>1, <2>2, <2>3 DEF CallType
  <1>5. \A d \in Callers : Due(d)' = 0
    BY <1>3, <1>4 DEF Due, At
  <1> QED BY <1>4, <1>5

\* A step of c that leaves the counts alone, where the worker does not leave one of
\* the two places that excuse them.
LEMMA CountStays ==
  ASSUME CountInv, CountsOK, NEW c \in Callers, Keeps(c),
         c # "worker" \/ call["worker"].step \notin {"mark", "clear"},
         UNCHANGED <<successes, earned, disturbed>>
  PROVE  CountInv'
  <1>1. Excused => Excused'
    BY DEF Excused, Marking, At, Keeps, Callers
  <1>2. \A d \in Callers : Due(d) \in {0, 1} /\ Due(d)' \in {0, 1} /\ Due(d)' <= Due(d)
    BY DEF Keeps, Due
  <1>3. CASE Excused
    BY <1>1, <1>3 DEF CountInv
  <1>4. CASE ~Excused
    <2>1. Least(successes + Due("worker") + Due("http"), Required) <= earned
      BY <1>4 DEF CountInv
    <2>2. \A n, v, w, v1, w1, e, r \in Nat :
            v1 <= v /\ w1 <= w /\ Least(n + v + w, r) <= e => Least(n + v1 + w1, r) <= e
      BY DEF Least
    <2>3. Least(successes' + Due("worker")' + Due("http")', Required) <= earned'
      <3>1. successes \in Nat /\ earned \in Nat /\ Required \in Nat
        BY SystemdAssumption DEF CountsOK
      <3>2. /\ Due("worker") \in Nat /\ Due("http") \in Nat
            /\ Due("worker")' \in Nat /\ Due("http")' \in Nat
            /\ Due("worker")' <= Due("worker") /\ Due("http")' <= Due("http")
        BY <1>2 DEF Callers
      <3> QED BY <2>1, <2>2, <3>1, <3>2
    <2> QED BY <2>3 DEF CountInv
  <1> QED BY <1>3, <1>4

\* A reset of the memory.
LEMMA CountReset ==
  ASSUME \A d \in Callers : Due(d)' = 0, successes' = 0, earned' \in 0 .. Required
  PROVE  CountInv'
  <1>1. Due("worker")' = 0 /\ Due("http")' = 0
    BY DEF Callers
  <1>2. Least(successes' + Due("worker")' + Due("http")', Required) <= earned'
    BY <1>1, SystemdAssumption DEF Least
  <1> QED BY <1>2 DEF CountInv

LEMMA AfterIs ==
  ASSUME IInv, NEW c \in Callers
  PROVE  /\ call[c].step \in {"clear"} => AfterStop(call[c].op) \in Steps \ {"record"}
         /\ call[c].step \in {"start", "mark"} => AfterStart(call[c].op) \in Steps \ {"record"}
         /\ NotReady(c) \in Steps \ {"record"}
         /\ call[c].step = "enable" => AfterPrepare(call[c].op) \subseteq Steps \ {"record"}
  <1>1. call[c].op \in Ops /\ call[c].step \in StepsOf(call[c].op)
    BY DEF IInv, CallsInv, CallType
  <1>2. call[c].step = "enable" => call[c].op \in {"deploy", "start", "prepare"}
    BY <1>1 DEF StepsOf, Ops, Preparing, Asking
  <1> QED BY <1>2 DEF AfterStop, AfterStart, NotReady, AfterPrepare, Steps

\* Preparing, and whatever else only moves a call on.
LEMMA PrepareCounts ==
  ASSUME IInv, CountInv, CountsOK, NEW c \in Callers,
         \/ WriteEnv(c) \/ WriteSecrets(c) \/ WriteUnit(c) \/ Reload(c) \/ Enable(c)
         \/ StepFails(c, {"env", "secrets", "unit", "reload", "enable", "stop"})
  PROVE  CountInv'
  <1>1. /\ UNCHANGED <<successes, earned, disturbed>>
        /\ call[c].step \in {"env", "secrets", "unit", "reload", "enable", "stop"}
    BY DEF WriteEnv, WriteSecrets, WriteUnit, Reload, Enable, StepFails, memory, At
  <1>2. Keeps(c)
    <2>1. CASE StepFails(c, {"env", "secrets", "unit", "reload", "enable", "stop"})
      BY <2>1, GotoKeeps DEF IInv, StepFails, Steps
    <2>2. CASE WriteEnv(c) \/ WriteSecrets(c) \/ Reload(c)
      BY <2>2, TouchKeeps DEF IInv, WriteEnv, WriteSecrets, Reload, Touch, Steps
    <2>3. CASE WriteUnit(c)
      <3>1. PICK s \in {"enable", "reload"} :
              call' = [d \in Callers |-> IF d = c THEN Onto(call[d], s)
                                         ELSE Disturb(call[d])]
        BY <2>3 DEF WriteUnit
      <3> QED BY <3>1, TouchKeeps DEF IInv, Steps
    <2>4. CASE Enable(c)
      <3>1. PICK s \in AfterPrepare(call[c].op) :
              call' = [d \in Callers |-> IF d = c THEN Onto(call[d], s) ELSE Disturb(call[d])]
        BY <2>4 DEF Enable, Prepared
      <3>2. s \in Steps \ {"record"}
        BY <2>4, AfterIs DEF Enable, At
      <3> QED BY <3>1, <3>2, TouchKeeps DEF IInv
    <2> QED BY <2>1, <2>2, <2>3, <2>4
  <1> QED BY <1>1, <1>2, CountStays

\* The worker stops, starts and writes down: the counts are reset, or about to be.
LEMMA RestartCounts ==
  ASSUME IInv, CountInv, CountsOK, NEW c \in Callers,
         Stop(c) \/ Clear(c) \/ Start(c) \/ StartFails(c) \/ MarkStarted(c)
  PROVE  CountInv'
  <1>1. CASE Clear(c) \/ MarkStarted(c)
    <2>1. PICK s \in Steps \ {"record"} : Outdated(c, s)
      BY <1>1, AfterIs DEF Clear, MarkStarted, At
    <2>2. successes' = 0 /\ earned' \in 0 .. Required
      BY <1>1 DEF Clear, MarkStarted, CountsOK
    <2> QED BY <2>1, <2>2, OutdatedClears, CountReset DEF IInv
  <1>2. CASE StartFails(c)
    <2>1. \A d \in Callers : Due(d)' = 0
      BY <1>2, OutdatedClears DEF IInv, StartFails, Steps
    <2>2. earned' = 0 /\ successes' = successes /\ disturbed' = (disturbed \/ successes > 0)
      BY <1>2 DEF StartFails, memory
    <2>3. CASE disturbed'
      BY <2>3 DEF CountInv, Excused
    <2>4. CASE ~disturbed'
      <3>1. ~(successes > 0)
        BY <2>2, <2>4
      <3>2. successes' = 0 /\ earned' \in 0 .. Required
        BY <2>2, <3>1, SystemdAssumption DEF CountsOK
      <3> QED BY <2>1, <3>2, CountReset
    <2> QED BY <2>3, <2>4
  <1>3. CASE Stop(c)
    <2>0. c = "worker" /\ call[c].step = "stop"
      BY <1>3, OnlyWorker DEF IInv, Stop, At
    <2>1. CASE unit = 0
      <3>1. Goto(c, "error") /\ UNCHANGED <<successes, earned, disturbed>>
        BY <1>3, <2>1 DEF Stop, memory
      <3>2. Keeps(c)
        BY <3>1, GotoKeeps DEF IInv, Steps
      <3> QED BY <2>0, <3>1, <3>2, CountStays
    <2>2. CASE unit # 0
      <3>1. Moves(c, "clear")
        BY <1>3, <2>2, StopMoves DEF IInv
      <3> QED BY <2>0, <3>1 DEF Moves, CountInv, Excused, At
    <2> QED BY <2>1, <2>2
  <1>4. CASE Start(c)
    <2>0. c = "worker" /\ call[c].step = "start"
      BY <1>4, OnlyWorker DEF IInv, Start, At
    <2>1. CASE state = "active"
      <3>1. Goto(c, AfterStart(call[c].op)) /\ UNCHANGED <<successes, earned, disturbed>>
        BY <1>4, <2>1 DEF Start, memory
      <3>2. Keeps(c)
        BY <2>0, <3>1, AfterIs, GotoKeeps DEF IInv
      <3> QED BY <2>0, <3>1, <3>2, CountStays
    <2>2. CASE state # "active"
      <3>1. Moves(c, "mark")
        BY <1>4, <2>2, OutdatedMoves DEF IInv, Start, Steps
      <3> QED BY <2>0, <3>1 DEF Moves, CountInv, Excused, Marking, At
    <2> QED BY <2>1, <2>2
  <1> QED BY <1>1, <1>2, <1>3, <1>4

\* Health and the wait: a probe earns what its answer will count.
LEMMA AskCounts ==
  ASSUME IInv, CountInv, CountsOK, NEW c \in Callers,
         AskStatus(c) \/ ProbeFails(c) \/ ProbePasses(c) \/ Record(c)
  PROVE  CountInv'
  <1>0. /\ call[c].step \in Asking /\ CallsInv
        /\ successes \in Nat /\ earned \in Nat /\ Required \in Nat \ {0}
    BY SystemdAssumption DEF AskStatus, ProbeFails, ProbePasses, Record, At, Asking, CountsOK, IInv
  <1>a. call[c].step \notin {"mark", "clear"}
    BY <1>0 DEF Asking
  <1>r. ASSUME NEW s \in Steps \ {"record"}, Reset(c, s), earned' = 0 PROVE CountInv'
    <2>1. \A d \in Callers : Due(d)' = 0
      BY <1>0, <1>r, OutdatedClears DEF Reset
    <2>2. successes' = 0 /\ earned' \in 0 .. Required
      BY <1>0, <1>r DEF Reset
    <2> QED BY <2>1, <2>2, CountReset
  <1>1. CASE AskStatus(c)
    <2>1. CASE state \in {"failed", "active"}
      <3>1. PICK s \in {"error", "probe"} : Goto(c, s) /\ UNCHANGED <<successes, disturbed, earned>>
        BY <1>1, <2>1 DEF AskStatus
      <3>2. Keeps(c)
        BY <1>0, <3>1, GotoKeeps DEF Steps
      <3> QED BY <1>a, <3>1, <3>2, CountStays
    <2>2. CASE state \notin {"failed", "active"}
      <3>1. PICK s \in Steps \ {"record"} : Reset(c, s) /\ earned' = 0
        BY <1>1, <2>2, AfterIs DEF AskStatus, Steps
      <3> QED BY <1>r, <3>1
    <2> QED BY <2>1, <2>2
  <1>2. CASE ProbeFails(c)
    <2>1. PICK s \in Steps \ {"record"} : Reset(c, s) /\ earned' = 0
      BY <1>2, AfterIs DEF ProbeFails, Steps
    <2> QED BY <1>r, <2>1
  <1>3. CASE ProbePasses(c)
    <2>1. /\ call[c].step = "probe" /\ call' = [call EXCEPT ![c] = Onto(call[c], "record")]
          /\ earned' = Least(earned + 1, Required) /\ UNCHANGED <<successes, disturbed>>
      BY <1>3 DEF ProbePasses, At, Goto, memory
    <2>2. /\ \A d \in Callers \ {c} : call'[d] = call[d]
          /\ call'[c] = [call[c] EXCEPT !.step = "record"]
      BY <1>0, <2>1 DEF CallsInv, Onto
    <2>3. /\ \A d \in Callers \ {c} : Due(d)' = Due(d)
          /\ Due(c) = 0 /\ Due(c)' \in {0, 1}
      BY <2>1, <2>2 DEF Due, At
    <2>4. Excused => Excused'
      BY <1>a, <2>1, <2>2 DEF Excused, Marking, At, Callers
    <2>5. CASE ~Excused
      <3>1. Least(successes + Due("worker") + Due("http"), Required) <= earned
        BY <2>5 DEF CountInv
      <3>2. \A n, v, w, v1, w1, e, r \in Nat :
              /\ v1 + w1 <= v + w + 1 /\ Least(n + v + w, r) <= e
              => Least(n + v1 + w1, r) <= Least(e + 1, r)
        BY DEF Least
      <3>3. /\ Due("worker") \in Nat /\ Due("http") \in Nat
            /\ Due("worker")' \in Nat /\ Due("http")' \in Nat
            /\ Due("worker")' + Due("http")' <= Due("worker") + Due("http") + 1
        BY <2>3, DueIs DEF Callers
      <3>4. Least(successes + Due("worker")' + Due("http")', Required) <= Least(earned + 1, Required)
        BY <1>0, <3>1, <3>2, <3>3
      <3> QED BY <2>1, <3>4 DEF CountInv
    <2> QED BY <2>4, <2>5 DEF CountInv
  <1>4. CASE Record(c)
    <2>1. /\ call[c].step = "record" /\ successes' = Least(successes + 1, Required)
          /\ disturbed' = (disturbed \/ call[c].stale \/ Marking) /\ earned' = earned
      BY <1>4 DEF Record, At
    <2>2. PICK s \in Steps \ {"record"} :
            call' = [call EXCEPT ![c] = Onto([@ EXCEPT !.stale = FALSE], s)]
      BY <1>4, AfterIs DEF Record, Steps
    <2>3. Keeps(c)
      BY <1>0, <2>2, RecordKeeps
    <2>4. CASE Excused \/ call[c].stale
      BY <1>a, <2>1, <2>3, <2>4 DEF CountInv, Excused, Keeps, At, Marking, Callers
    <2>5. CASE ~Excused /\ ~call[c].stale
      <3>1. Least(successes + Due("worker") + Due("http"), Required) <= earned
        BY <2>5 DEF CountInv
      <3>2. \A n, m, v, w, v1, w1, e, r \in Nat :
              /\ v1 + w1 + 1 = v + w /\ Least(n + v + w, r) <= e /\ m <= n + 1
              => Least(m + v1 + w1, r) <= e
        BY DEF Least
      <3>3. Due(c) = 1 /\ Due(c)' = 0 /\ \A d \in Callers \ {c} : Due(d)' = Due(d)
        BY <2>1, <2>3, <2>5 DEF Due, At, Keeps
      <3>4. /\ Due("worker") \in Nat /\ Due("http") \in Nat
            /\ Due("worker")' \in Nat /\ Due("http")' \in Nat
            /\ Due("worker")' + Due("http")' + 1 = Due("worker") + Due("http")
        BY <3>3, DueIs DEF Callers
      <3>m. successes' \in Nat /\ successes' <= successes + 1
        BY <1>0, <2>1 DEF Least
      <3>5. Least(successes' + Due("worker")' + Due("http")', Required) <= earned
        BY <1>0, <3>1, <3>2, <3>m, <3>4
      <3> QED BY <2>1, <3>5 DEF CountInv
    <2> QED BY <2>4, <2>5
  <1> QED BY <1>1, <1>2, <1>3, <1>4

LEMMA BeginCounts ==
  ASSUME IInv, CountInv, CountsOK, NEW c \in Callers, NEW op \in Ops, Begin(c, op)
  PROVE  CountInv'
  <1>1. /\ call[c].step \in {"none", "ok"} /\ call \in [Callers -> CallType]
        /\ UNCHANGED <<successes, earned, disturbed>>
    BY DEF Begin, memory, IInv, CallsInv
  <1>2. FirstStep(op) \in {"env", "stop", "ask"}
    BY DEF Begin, FirstStep
  <1>3. call'[c].step = FirstStep(op) /\ \A d \in Callers \ {c} : call'[d] = call[d]
    BY <1>1 DEF Begin, NoCall
  <1>4. Keeps(c)
    BY <1>2, <1>3 DEF Keeps, Due, At
  <1> QED BY <1>1, <1>4, CountStays

\* What the unit does by itself, and the restarts.
LEMMA EnvironmentCounts ==
  ASSUME CountInv, PutSpec \/ Dies \/ AutoRestart \/ Tick \/ UNCHANGED vars
  PROVE  CountInv'
  <1>1. UNCHANGED <<call, successes, earned, disturbed>>
    BY DEF PutSpec, Dies, AutoRestart, Tick, memory, vars
  <1> QED BY <1>1 DEF CountInv, Excused, Marking, Due, At

LEMMA RestartIsReset ==
  ASSUME CountsOK, Crash \/ Reboot
  PROVE  CountInv'
  <1>1. \A d \in Callers : call'[d] = NoCall
    BY DEF Crash, Reboot
  <1>2. \A d \in Callers : Due(d)' = 0
    BY <1>1, NoCallIs DEF Due, At
  <1>3. successes' = 0 /\ earned' \in 0 .. Required
    BY SystemdAssumption DEF Crash, Reboot, CountsOK
  <1> QED BY <1>2, <1>3, CountReset

-----------------------------------------------------------------------------
(* Types *)

\* What there is but the calls, which are in order by IInv.
NumbersOK ==
  /\ spec \in Versions
  /\ unit \in Manifest /\ env \in Manifest /\ secrets \in Manifest /\ loaded \in Manifest
  /\ enabled \in BOOLEAN
  /\ state \in {"inactive", "activating", "active", "failed"}
  /\ process \in Manifest \union {Mixture}
  /\ age \in -1 .. StartTimeout + 1 /\ waited \in 0 .. StartTimeout + 1
  /\ becameReady \in BOOLEAN /\ CountsOK
  /\ puts \in 0 .. MaxPuts /\ faults \in 0 .. MaxFaults
  /\ trusted \in Manifest

LEMMA Bounds ==
  /\ 0 \in Manifest /\ 0 \in 0 .. Required /\ 0 \in 0 .. StartTimeout + 1
  /\ -1 \in -1 .. StartTimeout + 1 /\ 0 \in -1 .. StartTimeout + 1
  /\ \A n \in 0 .. Required : Least(n + 1, Required) \in 0 .. Required
  /\ \A n \in 0 .. StartTimeout + 1 : Least(n + 1, StartTimeout + 1) \in 0 .. StartTimeout + 1
  /\ \A n \in -1 .. StartTimeout + 1 : Least(n + 1, StartTimeout + 1) \in -1 .. StartTimeout + 1
  /\ \A n \in 0 .. MaxFaults : n < MaxFaults => n + 1 \in 0 .. MaxFaults
  BY SystemdAssumption DEF Manifest, Least

LEMMA StepTypes ==
  ASSUME NumbersOK, IInv, NEW c \in Callers, Step(c)
  PROVE  NumbersOK'
  <1>m. \A m \in Manifest : From(m) \in Manifest \union {Mixture}
    BY DEF From
  <1>0. call[c].spec \in Manifest /\ call[c].stale \in BOOLEAN
    BY DEF IInv, CallsInv, CallType
  <1> USE <1>m, <1>0, Bounds DEF NumbersOK, CountsOK, files, memory, bounds
  <1>1. CASE WriteEnv(c)
    BY <1>1 DEF WriteEnv, Touch
  <1>15. CASE WriteSecrets(c)
    BY <1>15 DEF WriteSecrets, Touch
  <1>2. CASE WriteUnit(c)
    BY <1>2 DEF WriteUnit
  <1>3. CASE Reload(c)
    BY <1>3 DEF Reload, Touch
  <1>4. CASE Enable(c)
    BY <1>4 DEF Enable, Prepared
  <1>5. CASE StepFails(c, {"env", "secrets", "unit", "reload", "enable", "stop"})
    BY <1>5 DEF StepFails, Faults
  <1>6. CASE Stop(c)
    BY <1>6 DEF Stop
  <1>7. CASE Clear(c)
    BY <1>7 DEF Clear
  <1>8. CASE Start(c)
    BY <1>8 DEF Start
  <1>9. CASE StartFails(c)
    BY <1>9 DEF StartFails, Faults
  <1>10. CASE MarkStarted(c)
    BY <1>10 DEF MarkStarted
  <1>11. CASE AskStatus(c)
    BY <1>11 DEF AskStatus, Reset
  <1>12. CASE ProbeFails(c)
    BY <1>12 DEF ProbeFails, Reset
  <1>13. CASE ProbePasses(c)
    BY <1>13 DEF ProbePasses
  <1>14. CASE Record(c)
    BY <1>14 DEF Record, Marking, At
  <1> QED BY <1>1, <1>2, <1>3, <1>4, <1>5, <1>6, <1>7, <1>8, <1>9, <1>10, <1>11, <1>12, <1>13, <1>14, <1>15 DEF Step

LEMMA OtherTypes ==
  ASSUME NumbersOK, Next, \A c \in Callers : ~Step(c)
  PROVE  NumbersOK'
  <1>m. \A m \in Manifest : From(m) \in Manifest \union {Mixture}
    BY DEF From
  <1> USE <1>m, Bounds DEF NumbersOK, CountsOK, files, memory, bounds
  <1>1. CASE PutSpec                                               BY <1>1, SystemdAssumption DEF PutSpec
  <1>2. ASSUME NEW c \in Callers, NEW op \in Ops, Begin(c, op)
        PROVE  NumbersOK'
    BY <1>2 DEF Begin
  <1>3. CASE Dies                                                  BY <1>3 DEF Dies, Faults
  <1>4. CASE AutoRestart                                           BY <1>4 DEF AutoRestart
  <1>5. CASE Crash                                                 BY <1>5 DEF Crash, Faults
  <1>6. CASE Reboot
    <2>1. /\ state' \in {"inactive", "active"} /\ process' \in Manifest \union {Mixture}
          /\ loaded' \in Manifest
      BY <1>6 DEF Reboot
    <2>2. /\ age' = -1 /\ becameReady' = FALSE /\ successes' = 0 /\ disturbed' = FALSE /\ earned' = 0
          /\ faults < MaxFaults /\ faults' = faults + 1
          /\ waited' = 0 /\ UNCHANGED <<spec, unit, env, secrets, enabled, puts, trusted>>
      BY <1>6 DEF Reboot, Faults
    <2> QED BY <2>1, <2>2
  <1>7. CASE Tick                                                  BY <1>7 DEF Tick
  <1> QED BY <1>1, <1>2, <1>3, <1>4, <1>5, <1>6, <1>7 DEF Next

LEMMA TypesStart == Init => NumbersOK /\ CountInv
  <1> SUFFICES ASSUME Init PROVE NumbersOK /\ CountInv
    OBVIOUS
  <1>1. NumbersOK
    <2>1. 1 \in Versions /\ 0 \in 0 .. MaxPuts /\ 0 \in 0 .. MaxFaults
      BY SystemdAssumption DEF Versions
    <2> QED BY <2>1, Bounds DEF Init, NumbersOK, CountsOK
  <1>2. Due("worker") = 0 /\ Due("http") = 0
    BY NoCallIs DEF Init, Due, At, Callers
  <1>3. CountInv
    BY <1>2, SystemdAssumption DEF Init, CountInv, Least
  <1> QED BY <1>1, <1>3

\* What counts towards ready and what is still to be counted, through every probe,
\* stop, start, failed start, death and restart.
THEOREM CountInvariant == Spec => [](IInv /\ NumbersOK /\ CountInv)
  <1>1. IInv /\ NumbersOK /\ CountInv /\ [Next]_vars => NumbersOK' /\ CountInv'
    <2> SUFFICES ASSUME IInv, NumbersOK, CountInv, [Next]_vars PROVE NumbersOK' /\ CountInv'
      OBVIOUS
    <2>0. CountsOK
      BY DEF NumbersOK
    <2>1. NumbersOK'
      <3>1. CASE UNCHANGED vars
        BY <3>1 DEF vars, files, memory, bounds, NumbersOK, CountsOK
      <3>2. CASE Next
        BY <3>2, StepTypes, OtherTypes
      <3> QED BY <3>1, <3>2
    <2>2. ASSUME NEW c \in Callers, Step(c) PROVE CountInv'
      BY <2>0, <2>2, PrepareCounts, RestartCounts, AskCounts DEF Step
    <2>3. ASSUME NEW c \in Callers, NEW op \in Ops, Begin(c, op) PROVE CountInv'
      BY <2>0, <2>3, BeginCounts
    <2>4. CASE PutSpec \/ Dies \/ AutoRestart \/ Tick \/ UNCHANGED vars
      BY <2>1, <2>4, EnvironmentCounts
    <2>5. CASE Crash \/ Reboot
      BY <2>0, <2>1, <2>5, RestartIsReset
    <2> QED BY <2>1, <2>2, <2>3, <2>4, <2>5 DEF Next
  <1> QED BY <1>1, TypesStart, RuntimeInvariant, PTL DEF Spec

\* Every variable keeps its type.
THEOREM RuntimeTypes == Spec => []TypeOK
  <1>1. IInv /\ NumbersOK => TypeOK
    BY DEF IInv, CallsInv, CallType, NumbersOK, CountsOK, TypeOK
  <1> QED BY <1>1, CountInvariant, PTL

\* What counts towards ready are probes passed in a row since the last start, unless an
\* answer arrived late or a start was not written down.
THEOREM CountsThisStart == Spec => []CountIsOfThisStart
  <1>1. NumbersOK /\ CountInv => CountIsOfThisStart
    <2> SUFFICES ASSUME NumbersOK, CountInv, ~Excused PROVE successes <= earned
      BY DEF CountIsOfThisStart, Excused
    <2>1. \A n, v, w, e, r \in Nat : n <= r /\ Least(n + v + w, r) <= e => n <= e
      BY DEF Least
    <2>2. /\ successes \in Nat /\ earned \in Nat /\ Required \in Nat /\ successes <= Required
          /\ Due("worker") \in Nat /\ Due("http") \in Nat
      BY DueIs, SystemdAssumption DEF NumbersOK, CountsOK, Callers
    <2>3. Least(successes + Due("worker") + Due("http"), Required) <= earned
      BY DEF CountInv
    <2> QED BY <2>1, <2>2, <2>3
  <1> QED BY <1>1, CountInvariant, PTL

=============================================================================
