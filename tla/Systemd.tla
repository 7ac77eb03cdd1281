------------------------------- MODULE Systemd -------------------------------
(***************************************************************************)
(* The runtime of one application (or of one slot): the adapter over systemd *)
(* (internal/adapters/runtime/systemd, readiness, unitfile) and its callers. *)
(*                                                                          *)
(* A worker deploys, starts or stops; the engine lets one operation of an   *)
(* application run at a time.  The HTTP server prepares and asks for health *)
(* in the same process without that lock.  All share the adapter's memory   *)
(* (moment of the start, ready once, successes in a row), which a restart   *)
(* of the daemon loses; files and units stay.                               *)
(*                                                                          *)
(* What a probe answers is open; the application may die, be restarted by   *)
(* systemd, or fail for good.                                               *)
(***************************************************************************)
EXTENDS Integers

CONSTANTS
  Manifests,      \* manifests are numbers, 1 is the first one registered, 0 is none
  Required,       \* consecutiveSuccesses
  StartTimeout,   \* ticks
  MaxPuts, MaxFaults   \* bounds: manifests registered; failed steps, deaths and restarts

ASSUME SystemdAssumption ==
  /\ Manifests \in Nat \ {0}
  /\ Required \in Nat \ {0} /\ StartTimeout \in Nat \ {0}
  /\ {MaxPuts, MaxFaults} \subseteq Nat

VARIABLES
  spec,      \* the registered manifest
  unit, env, secrets,  \* of which manifest the unit, the environment and the secret files are
  loaded, enabled,     \* what systemd has
  state,     \* ActiveState
  process,   \* what the process was started from
  age, becameReady, successes,  \* the adapter's memory; the age no longer matters once ready
  call,      \* the calls in progress: of the worker, of the HTTP server
  waited,    \* ticks since the worker began to wait, while it waits
  puts, faults,
  earned,    \* history: probes passed in a row since the last start
  disturbed, \* history: an answer of the time before the last reset has been counted,
             \* or a start that systemctl called failed has left the count as it was
  trusted    \* history: manifest of the last preparation that succeeded alone

files == <<unit, env, secrets, loaded, enabled>>
memory == <<age, becameReady, successes>>
bounds == <<puts, faults>>
vars == <<spec, files, state, process, memory, call, waited, bounds, earned, disturbed, trusted>>

Callers == {"worker", "http"}
Ops == {"idle", "deploy", "start", "stop", "prepare", "health"}
Steps == {"none", "env", "secrets", "unit", "reload", "enable", "stop", "clear", "start", "mark",
          "ask", "probe", "record", "ok", "error"}
Versions == 1 .. Manifests
Manifest == 0 .. Manifests
Least(a, b) == IF a < b THEN a ELSE b

NoCall == [op |-> "idle", step |-> "none", spec |-> 0,
           alone |-> TRUE, vacant |-> FALSE, stale |-> FALSE]

Idle == {"inactive", "failed"}  \* nothing runs and nothing is about to
Mixture == -1                   \* a process that is not of one manifest
From(manifest) == IF {env, secrets} = {manifest} THEN manifest ELSE Mixture

Disturb(was) == IF was.op \in {"deploy", "start", "prepare"} THEN [was EXCEPT !.alone = FALSE] ELSE was

Init ==
  /\ spec = 1
  /\ unit = 0 /\ env = 0 /\ secrets = 0 /\ loaded = 0 /\ enabled = FALSE
  /\ state = "inactive" /\ process = 0
  /\ age = -1 /\ becameReady = FALSE /\ successes = 0
  /\ call = [c \in Callers |-> NoCall]
  /\ waited = 0
  /\ puts = 0 /\ faults = 0
  /\ earned = 0 /\ disturbed = FALSE /\ trusted = 0

-----------------------------------------------------------------------------
At(c, step) == call[c].step = step

\* How a call goes on; of one that ended only a deployment that succeeded is remembered.
Onto(was, step) ==
  IF step = "error" \/ (step = "ok" /\ was.op # "deploy") THEN NoCall ELSE [was EXCEPT !.step = step]

Goto(c, step) == call' = [call EXCEPT ![c] = Onto(@, step)]

\* The files are touched: no other preparation is alone any more.
Touch(c, step) ==
  /\ trusted' = 0
  /\ call' = [d \in Callers |-> IF d = c THEN Onto(call[d], step)
                                         ELSE Disturb(call[d])]

Waiting == call["worker"].step \in {"ask", "probe", "record"}

Faults == faults < MaxFaults /\ faults' = faults + 1

\* A step of c fails and so does the call.
StepFails(c, steps) ==
  /\ call[c].step \in steps /\ Faults
  /\ Goto(c, "error")
  /\ UNCHANGED <<spec, files, state, process, memory, waited, puts, earned, disturbed, trusted>>

PutSpec ==
  /\ puts < MaxPuts /\ puts' = puts + 1
  /\ spec' \in Versions \ {spec}
  /\ UNCHANGED <<files, state, process, memory, call, waited, faults, earned, disturbed, trusted>>

FirstStep(op) == CASE op \in {"deploy", "start", "prepare"} -> "env"
                   [] op = "stop" -> "stop"
                   [] op = "health" -> "ask"

\* The manifest is read when the operation runs, not when it was submitted.
Begin(c, op) ==
  /\ call[c].step \in {"none", "ok"}
  /\ op \in (IF c = "worker" THEN {"deploy", "start", "stop"} ELSE {"prepare", "health"})
  /\ call' = [call EXCEPT ![c] = [NoCall EXCEPT !.op = op, !.step = FirstStep(op),
       !.spec = IF FirstStep(op) = "env" THEN spec ELSE 0, !.vacant = op = "deploy" /\ state \in Idle]]
  /\ UNCHANGED <<spec, files, state, process, memory, waited, bounds, earned, disturbed, trusted>>

-----------------------------------------------------------------------------
(* Prepare: the secrets are resolved before anything is written, then user, directories and
   the environment file (to here one step), the files of the secrets (here one), the unit
   file, daemon-reload if the unit file changed, enable in any case.  Each step may fail. *)

WriteEnv(c) ==
  /\ At(c, "env")
  /\ env' = call[c].spec
  /\ Touch(c, "secrets")
  /\ UNCHANGED <<spec, unit, secrets, loaded, enabled, state, process, memory, waited, bounds, earned, disturbed>>

WriteSecrets(c) ==
  /\ At(c, "secrets")
  /\ secrets' = call[c].spec
  /\ Touch(c, "unit")
  /\ UNCHANGED <<spec, unit, env, loaded, enabled, state, process, memory, waited, bounds, earned, disturbed>>

\* writeFileIfChanged: a file that has the wanted content is left alone.
WriteUnit(c) ==
  /\ At(c, "unit")
  /\ unit' = call[c].spec
  /\ trusted' = 0
  /\ call' = [d \in Callers |->
       IF d = c THEN Onto(call[d], IF unit = call[c].spec THEN "enable" ELSE "reload")
                ELSE Disturb(call[d])]
  /\ UNCHANGED <<spec, env, secrets, loaded, enabled, state, process, memory, waited, bounds, earned, disturbed>>

Reload(c) ==
  /\ At(c, "reload")
  /\ loaded' = unit
  /\ Touch(c, "enable")
  /\ UNCHANGED <<spec, unit, env, secrets, enabled, state, process, memory, waited, bounds, earned, disturbed>>

\* A deployment stops the version before if it knows one; that into a slot never does.
AfterPrepare(op) == CASE op = "deploy" -> {"stop", "start"}
                      [] op = "start" -> {"start"}
                      [] op = "prepare" -> {"ok"}

Prepared(c) ==
  /\ trusted' = IF call[c].alone THEN call[c].spec ELSE 0
  /\ \E step \in AfterPrepare(call[c].op) :
       call' = [d \in Callers |-> IF d = c THEN Onto(call[d], step)
                                          ELSE Disturb(call[d])]

Enable_Once(c) ==
  /\ At(c, "enable")
  /\ IF enabled THEN UNCHANGED <<enabled, loaded>> ELSE enabled' = TRUE /\ loaded' = unit
  /\ Prepared(c)
  /\ UNCHANGED <<spec, unit, env, secrets, state, process, memory, waited, bounds, earned, disturbed>>

\* `systemctl enable` makes systemd read the unit files again.
Enable(c) ==
  /\ At(c, "enable")
  /\ enabled' = TRUE /\ loaded' = unit
  /\ Prepared(c)
  /\ UNCHANGED <<spec, unit, env, secrets, state, process, memory, waited, bounds, earned, disturbed>>

-----------------------------------------------------------------------------
(* Stop and Start. *)

\* A Health that has had its answer and not counted it yet is of the time before.
Outdated(c, step) ==
  call' = [d \in Callers |-> IF d = c THEN Onto(call[d], step)
                                      ELSE [call[d] EXCEPT !.stale = @ \/ At(d, "record")]]

AfterStop(op) == IF op = "deploy" THEN "start" ELSE "ok"

Stop_NoBlock(c) ==
  /\ At(c, "stop")
  /\ IF unit = 0
     THEN Goto(c, "error") /\ UNCHANGED earned
     ELSE /\ earned' = 0
          /\ call' = [d \in Callers |-> IF d = c THEN [call[d] EXCEPT !.step = "clear", !.vacant = TRUE]
                                       ELSE [call[d] EXCEPT !.stale = @ \/ At(d, "record")]]
  /\ UNCHANGED <<spec, files, state, process, memory, waited, bounds, disturbed, trusted>>

\* Without a unit file there is nothing to stop; a unit that does not run stops well.
Stop(c) ==
  /\ At(c, "stop")
  /\ IF unit = 0
     THEN Goto(c, "error") /\ UNCHANGED <<state, earned>>
     ELSE /\ state' = "inactive" /\ earned' = 0
          /\ call' = [d \in Callers |-> IF d = c THEN [call[d] EXCEPT !.step = "clear", !.vacant = TRUE]
                                       ELSE [call[d] EXCEPT !.stale = @ \/ At(d, "record")]]
  /\ UNCHANGED <<spec, files, process, memory, waited, bounds, disturbed, trusted>>

Clear(c) ==
  /\ At(c, "clear")
  /\ age' = -1 /\ becameReady' = FALSE /\ successes' = 0 /\ disturbed' = FALSE
  /\ Outdated(c, AfterStop(call[c].op))
  /\ UNCHANGED <<spec, files, state, process, waited, bounds, earned, trusted>>

AfterStart(op) == IF op = "deploy" THEN "ask" ELSE "ok"

\* A unit that runs is left alone, whatever it runs (that there is a unit file is a matter of
\* course here: a preparation comes before every start).  Otherwise systemd starts what it has
\* loaded, with the environment files as they are.
Start(c) ==
  /\ At(c, "start")
  /\ waited' = 0
  /\ IF state = "active"
     THEN Goto(c, AfterStart(call[c].op)) /\ UNCHANGED <<state, process, earned>>
     ELSE /\ state' = "active" /\ process' = From(loaded)
          /\ earned' = 0 /\ Outdated(c, "mark")
  /\ UNCHANGED <<spec, files, memory, bounds, disturbed, trusted>>

\* systemctl was killed or reports an error: the unit runs or not, and nothing is
\* written down of it.
StartFails(c) ==
  /\ At(c, "start") /\ state # "active" /\ Faults
  /\ earned' = 0 /\ disturbed' = (disturbed \/ successes > 0)
  /\ \/ state' = "active" /\ process' = From(loaded)
     \/ state' = "failed" /\ UNCHANGED process
  /\ Outdated(c, "error")
  /\ UNCHANGED <<spec, files, memory, waited, puts, trusted>>

MarkStarted(c) ==
  /\ At(c, "mark")
  /\ age' = 0 /\ becameReady' = FALSE /\ successes' = 0 /\ disturbed' = FALSE
  /\ Outdated(c, AfterStart(call[c].op))
  /\ UNCHANGED <<spec, files, state, process, waited, bounds, earned, trusted>>

-----------------------------------------------------------------------------
(* Health, asked once by the HTTP server and again and again by a deployment. *)

Deadline == age > StartTimeout /\ ~becameReady

\* waitForReady looks at its own clock after each answer.
WaitOver == waited > StartTimeout

\* An answer that is not an error and not ready.
NotReady(c) ==
  IF call[c].op = "health" THEN "ok" ELSE IF WaitOver THEN "error" ELSE "ask"

Reset(c, step) == successes' = 0 /\ disturbed' = FALSE /\ Outdated(c, step)

\* The unit's state comes first: failed is an error at once, a unit that does not run resets
\* the count.
AskStatus(c) ==
  /\ At(c, "ask")
  /\ \/ state = "failed" /\ Goto(c, "error") /\ UNCHANGED <<successes, disturbed, earned>>
     \/ state = "active" /\ Goto(c, "probe") /\ UNCHANGED <<successes, disturbed, earned>>
     \/ /\ state \in {"inactive", "activating"} /\ earned' = 0
        /\ Reset(c, IF Deadline THEN "error" ELSE NotReady(c))
  /\ waited' = IF Waiting' THEN waited ELSE 0
  /\ UNCHANGED <<spec, files, state, process, age, becameReady, bounds, trusted>>

ProbeFails_CountStays(c) ==
  /\ At(c, "probe")
  /\ earned' = 0
  /\ Goto(c, IF Deadline THEN "error" ELSE NotReady(c))
  /\ waited' = IF Waiting' THEN waited ELSE 0
  /\ UNCHANGED <<spec, files, state, process, memory, bounds, disturbed, trusted>>

ProbeFails(c) ==
  /\ At(c, "probe")
  /\ earned' = 0
  /\ Reset(c, IF Deadline THEN "error" ELSE NotReady(c))
  /\ waited' = IF Waiting' THEN waited ELSE 0
  /\ UNCHANGED <<spec, files, state, process, age, becameReady, bounds, trusted>>

ProbePasses(c) ==
  /\ At(c, "probe") /\ state = "active"
  /\ earned' = Least(earned + 1, Required)
  /\ Goto(c, "record")
  /\ UNCHANGED <<spec, files, state, process, memory, waited, bounds, disturbed, trusted>>

\* The worker has started a process and not yet written it down.
Marking == At("worker", "mark")

Record(c) ==
  /\ At(c, "record")
  /\ successes' = Least(successes + 1, Required)
  /\ disturbed' = (disturbed \/ call[c].stale \/ Marking)
  /\ IF successes' >= Required
     THEN becameReady' = TRUE /\ age' = 0 /\ call' = [call EXCEPT ![c] = Onto([@ EXCEPT !.stale = FALSE], "ok")]
     ELSE UNCHANGED <<age, becameReady>> /\ call' = [call EXCEPT ![c] = Onto([@ EXCEPT !.stale = FALSE], NotReady(c))]
  /\ waited' = IF Waiting' THEN waited ELSE 0
  /\ UNCHANGED <<spec, files, state, process, bounds, earned, trusted>>

-----------------------------------------------------------------------------
(* The environment. *)

\* The process ends: for good, or until systemd starts it again from what it has.
Dies ==
  /\ state = "active" /\ Faults
  /\ state' \in {"failed", "activating"}
  /\ UNCHANGED <<spec, files, process, memory, call, waited, puts, earned, disturbed, trusted>>

AutoRestart ==
  /\ state = "activating"
  /\ state' = "active" /\ process' = From(loaded)
  /\ UNCHANGED <<spec, files, memory, call, waited, bounds, earned, disturbed, trusted>>

\* The daemon stops: calls and memory are gone, the unit goes on.
Crash ==
  /\ Faults
  /\ call' = [c \in Callers |-> NoCall]
  /\ age' = -1 /\ becameReady' = FALSE /\ successes' = 0 /\ disturbed' = FALSE
  /\ waited' = 0
  /\ UNCHANGED <<spec, files, state, process, puts, earned, trusted>>

\* The host restarts: enabled units come back, from the files on disk.
Reboot ==
  /\ Faults
  /\ call' = [c \in Callers |-> NoCall]
  /\ age' = -1 /\ becameReady' = FALSE /\ successes' = 0 /\ disturbed' = FALSE /\ earned' = 0
  /\ loaded' = unit
  /\ IF enabled THEN state' = "active" /\ process' = From(unit)
                ELSE state' = "inactive" /\ UNCHANGED process
  /\ waited' = 0
  /\ UNCHANGED <<spec, unit, env, secrets, enabled, puts, trusted>>

\* Once ready, the age is not looked at any more.
Tick ==
  /\ age' = IF age = -1 \/ becameReady THEN age ELSE Least(age + 1, StartTimeout + 1)
  /\ waited' = IF Waiting THEN Least(waited + 1, StartTimeout + 1) ELSE waited
  /\ UNCHANGED <<spec, files, state, process, becameReady, successes, call, bounds, earned, disturbed, trusted>>

Step(c) ==
  \/ WriteEnv(c) \/ WriteSecrets(c) \/ WriteUnit(c) \/ Reload(c) \/ Enable(c)
  \/ StepFails(c, {"env", "secrets", "unit", "reload", "enable", "stop"})
  \/ Stop(c) \/ Clear(c) \/ Start(c) \/ StartFails(c) \/ MarkStarted(c)
  \/ AskStatus(c) \/ ProbeFails(c) \/ ProbePasses(c) \/ Record(c)

Next ==
  \/ PutSpec
  \/ \E c \in Callers : (\E op \in Ops : Begin(c, op)) \/ Step(c)
  \/ Dies \/ AutoRestart \/ Crash \/ Reboot
  \/ Tick

Spec == Init /\ [][Next]_vars

-----------------------------------------------------------------------------
\* Every variable keeps its type, through every failure and restart (the fields of Adapter).
TypeOK ==
  /\ spec \in Versions
  /\ {unit, env, secrets, loaded} \subseteq Manifest /\ enabled \in BOOLEAN
  /\ state \in {"inactive", "activating", "active", "failed"}
  /\ process \in Manifest \union {Mixture}
  /\ age \in -1 .. StartTimeout + 1 /\ waited \in 0 .. StartTimeout + 1
  /\ becameReady \in BOOLEAN /\ successes \in 0 .. Required /\ earned \in 0 .. Required
  /\ call \in [Callers -> [op : Ops, step : Steps, spec : Manifest,
                           alone : BOOLEAN, vacant : BOOLEAN, stale : BOOLEAN]]
  /\ puts \in 0 .. MaxPuts /\ faults \in 0 .. MaxFaults
  /\ disturbed \in BOOLEAN /\ trusted \in Manifest

\* After a preparation that succeeded alone the files, what systemd has loaded and what comes
\* back after a reboot are of that manifest, whatever an earlier one left behind when it
\* failed half way (Prepare repairs what it finds).
PreparedIsLoaded ==
  trusted # 0 => {unit, env, secrets, loaded} = {trusted} /\ enabled

\* A deployment that reports ready has its own manifest running, not one of before and not a
\* mixture, when nobody prepared against it and when it stopped what ran before or nothing
\* ran when it came (Prepare, Stop, Start, waitForReady).
DeployedRuns ==
  LET deployment == call["worker"] IN
  deployment.op = "deploy" /\ deployment.step = "ok" /\ deployment.alone /\ deployment.vacant =>
    process = deployment.spec

\* What counts towards ready are probes passed in a row since the last start, unless an
\* answer arrived late or a start was not written down (Tracker, markStarted, clearTracking).
CountIsOfThisStart == disturbed \/ Marking \/ At("worker", "clear") \/ successes <= earned

-----------------------------------------------------------------------------
(* What the documentation says and the code does not keep *)

\* deploy.go: the version is changed.  Not if a unit runs that no release is known of, or in
\* the slot deployed into: nothing stops it, and Start leaves it alone.
AlwaysRunsItsOwn ==
  call["worker"].op = "deploy" /\ At("worker", "ok") /\ call["worker"].alone =>
    process = call["worker"].spec

\* readiness.go: what is counted are successes of this very run of the application.
NeverCountsTheDead == Marking \/ At("worker", "clear") \/ successes <= earned

=============================================================================
