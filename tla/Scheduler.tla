------------------------------ MODULE Scheduler ------------------------------
(***************************************************************************)
(* The scheduler of opsd: the schedules and schedule_runs tables           *)
(* (adapters/sqlite/schedule.go), the single scheduling goroutine          *)
(* (application/scheduler.go), the moments a schedule fires at             *)
(* (domain/schedule.go) and the API handlers that create, enable, disable  *)
(* and delete schedules (application/schedule.go).                         *)
(*                                                                         *)
(* A tick of the goroutine works on the rows it listed and on the clock it *)
(* read at its beginning, one transaction per moment; handlers, the clock  *)
(* and the death of the process come between any two of its steps.  The    *)
(* task engine is seen through hasIncompleteOperation only: busy.          *)
(*                                                                         *)
(* Time is counted in units of misfireThreshold (a minute, which is also   *)
(* MinInterval).  A cron schedule fires at the multiples of Period, an     *)
(* interval schedule Period after its previous moment.  Time zones, audit  *)
(* events and the notification of the workers are left out; next_run_at is *)
(* never NULL, as every writer of it sets it.                              *)
(***************************************************************************)
EXTENDS Integers, FiniteSets, FiniteSetsExt

CONSTANTS
    Schedules,       \* schedule ids; an id is never used twice
    Resources,       \* lock names
    Kinds,           \* the operation kinds requests ask for
    Rules,           \* the trigger kinds and missed-run policies requests ask for
    Period,          \* time between two moments
    Threshold,       \* misfireThreshold
    FallbackPoll,    \* the wait when no schedule is enabled
    MaxMoments,      \* maxScheduledMoments
    None,            \* NULL
    Horizon,         \* bound: the clock stops here
    MaxCalls         \* bound: API handlers between two of their steps

ASSUME PeriodAssumption ==
    Period \in Nat \ {0} /\ Threshold \in 0..Period /\ FallbackPoll \in Nat \ {0}
ASSUME LimitAssumption ==
    MaxMoments \in Nat \ {0} /\ Horizon \in Nat /\ MaxCalls \in Nat
ASSUME RequestAssumption ==
    Rules \subseteq [trigger : {"cron", "interval"}, policy : {"skip", "runOnce"}]
ASSUME NoneAssumption == None \notin Nat /\ None \notin Schedules

VARIABLES
    now,         \* the clock
    daemon,      \* "up" or "down"
    rows,        \* the schedules table
    runs,        \* the schedule_runs table
    busy,        \* resources with an incomplete operation
    pc,          \* the scheduling goroutine: "arm", "wait", "tick", "moment"
    deadline,    \* when its timer fires
    wake,        \* Scheduler.wake, a channel of capacity one
    listed,      \* the rows a tick listed and has not processed yet
    tickNow,     \* the clock as the tick read it
    job,         \* the schedule it is processing
    calls,       \* API handlers between two of their steps
    fired,       \* history: operations created for a schedule and a moment
    since        \* history: the first moment a schedule has to account for

goroutine == <<pc, deadline, listed, tickNow, job>>
vars == <<now, daemon, rows, runs, busy, pc, deadline, wake, listed, tickNow, job, calls, fired, since>>

Times   == 0..(Horizon + Period)
Results == {"dispatched", "missed", "failed"}

\* A row of schedules, and the marks of an id without one.
Row == [state : {"present"}, enabled : BOOLEAN, trigger : {"cron", "interval"},
        policy : {"skip", "runOnce"}, resource : Resources, kind : Kinds, next : Times,
        last : Times \cup {None}, result : Results \cup {""}]
Absent == [state |-> "absent"]
Gone   == [state |-> "gone"]
Present(s) == rows[s].state = "present"

RunType == [sched : Schedules, for : Times, result : Results, at : 0..Horizon]
Recorded(s, m) == \E r \in runs : r.sched = s /\ r.for = m

CallType == [sched : Schedules, what : {"enable", "switchOn", "delete"}, next : Times,
             result : Results \cup {""}]

\* The operations a schedule may create, and what is told apart of a spec.
schedulableKinds == {"executor.command", "runtime.start", "runtime.stop",
                     "backup.run", "backup.verify", "backup.restore"}
Specs == {"none", "command", "restoreMode", "policy"}

\* ScheduleService.Create on the kind and the spec of the request, ...
SpecFitsKind(kind, spec) ==
    CASE kind = "executor.command" -> spec = "command"
      [] kind = "backup.restore"   -> spec = "restoreMode"
      [] OTHER                     -> spec = "none"
\* ... and Schedule.Validate after it.
Validate(kind, spec) == kind \in schedulableKinds /\ spec # "none"
-----------------------------------------------------------------------------
\* Evaluator.Next: the next moment strictly after a time.
NextMoment(trigger, t) ==
    IF trigger = "cron" THEN (t \div Period + 1) * Period ELSE t + Period

\* DueMoments: from the stored next_run_at up to the clock of the tick, at
\* most MaxMoments of them, the oldest ones; the list counts as truncated as
\* soon as it is full.
DueMoments(first, until) ==
    {m \in {first + k * Period : k \in 0..(MaxMoments - 1)} : m <= until}
Truncated(moments) == Cardinality(moments) = MaxMoments

\* Faulty variant: the oldest is caught up.
chooseDispatchedMoments_Oldest(moments, policy, t) ==
    IF Cardinality(moments) = 1 /\ \A m \in moments : t - m <= Threshold THEN moments
    ELSE IF policy = "runOnce" THEN {Min(moments)} ELSE {}

\* A single moment that is not late is always run; otherwise the policy
\* decides: none, or the latest of the list.
chooseDispatchedMoments(moments, policy, t) ==
    IF Cardinality(moments) = 1 /\ \A m \in moments : t - m <= Threshold THEN moments
    ELSE IF policy = "runOnce" THEN {Max(moments)} ELSE {}

NoJob == [sched |-> None, left |-> {}, pick |-> {}, last |-> 0, next |-> 0, result |-> ""]
JobType == [sched : Schedules \cup {None}, left : SUBSET Times, pick : SUBSET Times,
            last : Times, next : Times, result : Results \cup {""}]

\* What processSchedule computes before its first transaction.  The next
\* moment follows the last of the list, or the clock if it was truncated.
JobOf(s, row) ==
    LET moments == DueMoments(row.next, tickNow) IN
    [sched |-> s, left |-> moments,
     pick |-> chooseDispatchedMoments(moments, row.policy, tickNow),
     last |-> Max(moments),
     next |-> NextMoment(row.trigger, IF Truncated(moments) THEN tickNow ELSE Max(moments)),
     result |-> row.result]
-----------------------------------------------------------------------------
Init ==
    /\ now = 0 /\ daemon = "up"
    /\ rows = [s \in Schedules |-> Absent]
    /\ runs = {} /\ busy = {}
    /\ pc = "arm" /\ deadline = 0 /\ wake = FALSE
    /\ listed = [s \in {} |-> Absent] /\ tickNow = 0 /\ job = NoJob
    /\ calls = {}
    /\ fired = [s \in Schedules |-> [m \in Times |-> 0]]
    /\ since = [s \in Schedules |-> 0]

CallsLeft == Cardinality(calls) < MaxCalls
Up        == daemon = "up"
-----------------------------------------------------------------------------
(* API handlers *)

\* ScheduleService.Create: a new row is enabled, its first moment counted
\* from the clock, and the goroutine is woken.
Create(s, trigger, policy, r, kind, spec) ==
    LET next == NextMoment(trigger, now) IN
    /\ Up /\ rows[s] = Absent
    /\ SpecFitsKind(kind, spec) /\ Validate(kind, spec)
    /\ rows' = [rows EXCEPT ![s] =
          [state |-> "present", enabled |-> TRUE, trigger |-> trigger, policy |-> policy,
           resource |-> r, kind |-> kind, next |-> next, last |-> None, result |-> ""]]
    /\ since' = [since EXCEPT ![s] = next]
    /\ wake' = TRUE
    /\ UNCHANGED <<now, daemon, runs, busy, goroutine, calls, fired>>

\* SetEnabled(false): one write.
Disable(s) ==
    /\ Up /\ Present(s)
    /\ rows' = [rows EXCEPT ![s].enabled = FALSE]
    /\ wake' = TRUE
    /\ UNCHANGED <<now, daemon, runs, busy, goroutine, calls, fired, since>>

\* SetEnabled(true): the row and the clock are read, ...
EnableRead(s) ==
    /\ Up /\ Present(s) /\ CallsLeft
    /\ calls' = calls \cup {[sched |-> s, what |-> "enable",
                             next |-> NextMoment(rows[s].trigger, now),
                             result |-> rows[s].result]}
    /\ UNCHANGED <<now, daemon, rows, runs, busy, goroutine, wake, fired, since>>

\* ... the progress is written (last_run_at becomes NULL), ...
EnableProgress(c) ==
    /\ Up /\ c \in calls /\ c.what = "enable"
    /\ IF Present(c.sched)
       THEN /\ rows' = [rows EXCEPT ![c.sched].next = c.next, ![c.sched].last = None,
                                    ![c.sched].result = c.result]
            /\ calls' = (calls \ {c}) \cup {[c EXCEPT !.what = "switchOn"]}
            /\ since' = [since EXCEPT ![c.sched] = Max({@, c.next})]
       ELSE calls' = calls \ {c} /\ UNCHANGED <<rows, since>>
    /\ UNCHANGED <<now, daemon, runs, busy, goroutine, wake, fired>>

\* ... then the flag, and the goroutine is woken.
EnableSwitch(c) ==
    /\ Up /\ c \in calls /\ c.what = "switchOn"
    /\ calls' = calls \ {c}
    /\ IF Present(c.sched)
       THEN /\ rows' = [rows EXCEPT ![c.sched].enabled = TRUE]
            /\ wake' = TRUE
       ELSE UNCHANGED <<rows, wake>>
    /\ UNCHANGED <<now, daemon, runs, busy, goroutine, fired, since>>

\* Delete: the row is read and must be disabled, ...
DeleteRead(s) ==
    /\ Up /\ Present(s) /\ CallsLeft
    /\ ~rows[s].enabled
    /\ calls' = calls \cup {[sched |-> s, what |-> "delete", next |-> 0, result |-> ""]}
    /\ UNCHANGED <<now, daemon, rows, runs, busy, goroutine, wake, fired, since>>

\* ... then it is deleted by id; its runs go with it (ON DELETE CASCADE).
DeleteSchedule(c) ==
    /\ Up /\ c \in calls /\ c.what = "delete"
    /\ calls' = calls \ {c}
    /\ IF Present(c.sched)
       THEN /\ rows' = [rows EXCEPT ![c.sched] = Gone]
            /\ runs' = {r \in runs : r.sched # c.sched}
            /\ wake' = TRUE
       ELSE UNCHANGED <<rows, runs, wake>>
    /\ UNCHANGED <<now, daemon, busy, goroutine, fired, since>>
-----------------------------------------------------------------------------
(* The scheduling goroutine *)

EnabledRows == {s \in Schedules : Present(s) /\ rows[s].enabled}

\* nextWait: the timer is set to the earliest next_run_at.
Arm ==
    /\ Up /\ pc = "arm"
    /\ deadline' = IF EnabledRows = {} THEN now + FallbackPoll
                   ELSE Min({rows[s].next : s \in EnabledRows})
    /\ pc' = "wait"
    /\ UNCHANGED <<now, daemon, rows, runs, busy, wake, listed, tickNow, job, calls, fired, since>>

\* Tick, woken by the timer or by the channel: the enabled rows are listed
\* and the clock is read.
Tick ==
    /\ Up /\ pc = "wait"
    /\ wake \/ now >= deadline
    /\ wake' \in (IF now >= deadline THEN {wake, FALSE} ELSE {FALSE})
    /\ listed' = [s \in EnabledRows |-> rows[s]]
    /\ tickNow' = now
    /\ pc' = "tick" /\ deadline' = 0
    /\ UNCHANGED <<now, daemon, rows, runs, busy, job, calls, fired, since>>

Without(f, s) == [x \in (DOMAIN f) \ {s} |-> f[x]]

\* processSchedule on a row that is not due.
NotDue(s) ==
    /\ Up /\ pc = "tick" /\ s \in DOMAIN listed
    /\ listed[s].next > tickNow
    /\ listed' = Without(listed, s)
    /\ UNCHANGED <<now, daemon, rows, runs, busy, pc, deadline, wake, tickNow, job, calls, fired, since>>

\* processSchedule on a row that is due.
Due(s) ==
    /\ Up /\ pc = "tick" /\ s \in DOMAIN listed
    /\ listed[s].next <= tickNow
    /\ listed' = Without(listed, s)
    /\ job' = JobOf(s, listed[s])
    /\ pc' = "moment"
    /\ UNCHANGED <<now, daemon, rows, runs, busy, deadline, wake, tickNow, calls, fired, since>>

TickDone ==
    /\ Up /\ pc = "tick" /\ DOMAIN listed = {}
    /\ pc' = "arm" /\ tickNow' = 0
    /\ UNCHANGED <<now, daemon, rows, runs, busy, deadline, wake, listed, job, calls, fired, since>>

\* Faulty variant: the newest moment first.
Current_NewestFirst == Max(job.left)

\* The moments of a job are taken in ascending order.
Current == Min(job.left)
AtMoment == Up /\ pc = "moment" /\ job.left # {}

MomentDone(result) ==
    job' = [job EXCEPT !.left = @ \ {Current}, !.result = result]

\* The moment has a run already, of an earlier life of the daemon or of an
\* earlier tick: nothing is written, and the result is kept as it was.
AlreadyHandled ==
    /\ AtMoment /\ Recorded(job.sched, Current)
    /\ MomentDone(job.result)
    /\ UNCHANGED <<now, daemon, rows, runs, busy, pc, deadline, wake, listed, tickNow, calls, fired, since>>

NewRun(result) == [sched |-> job.sched, for |-> Current, result |-> result, at |-> tickNow]

\* RecordMissedRun.
RecordMissedRun ==
    /\ AtMoment /\ Current \notin job.pick
    /\ ~Recorded(job.sched, Current) /\ Present(job.sched)
    /\ runs' = runs \cup {NewRun("missed")}
    /\ MomentDone("missed")
    /\ UNCHANGED <<now, daemon, rows, busy, pc, deadline, wake, listed, tickNow, calls, fired, since>>

\* Faulty variants: the run's identity is not consulted; nor is the row's.
DispatchScheduledRun_Again ==
    /\ AtMoment /\ Current \in job.pick /\ Present(job.sched)
    /\ LET r == rows[job.sched].resource IN
       /\ r \notin busy
       /\ busy' = busy \cup {r}
       /\ runs' = runs \cup {NewRun("dispatched")}
       /\ fired' = [fired EXCEPT ![job.sched][Current] = @ + 1]
       /\ MomentDone("dispatched")
    /\ UNCHANGED <<now, daemon, rows, pc, deadline, wake, listed, tickNow, calls, since>>
DispatchScheduledRun_NoForeignKey ==
    /\ AtMoment /\ Current \in job.pick /\ ~Recorded(job.sched, Current)
    /\ runs' = runs \cup {NewRun("dispatched")}
    /\ fired' = [fired EXCEPT ![job.sched][Current] = @ + 1]
    /\ MomentDone("dispatched")
    /\ UNCHANGED <<now, daemon, rows, busy, pc, deadline, wake, listed, tickNow, calls, since>>

\* DispatchScheduledRun: the run and the operation in one transaction; a
\* busy resource makes it a failed run, which is not queued.
DispatchScheduledRun ==
    /\ AtMoment /\ Current \in job.pick
    /\ ~Recorded(job.sched, Current) /\ Present(job.sched)
    /\ LET r == rows[job.sched].resource IN
       \/ /\ r \in busy
          /\ runs' = runs \cup {NewRun("failed")}
          /\ MomentDone("failed")
          /\ UNCHANGED <<busy, fired>>
       \/ /\ r \notin busy
          /\ busy' = busy \cup {r}
          /\ runs' = runs \cup {NewRun("dispatched")}
          /\ fired' = [fired EXCEPT ![job.sched][Current] = @ + 1]
          /\ MomentDone("dispatched")
    /\ UNCHANGED <<now, daemon, rows, pc, deadline, wake, listed, tickNow, calls, since>>

\* The schedule was deleted meanwhile: the foreign key (or the row count of
\* the update) makes the transaction an error, and the job is abandoned.
ScheduleGone ==
    /\ Up /\ pc = "moment"
    /\ ~Present(job.sched)
    /\ job' = NoJob
    /\ pc' = "tick"
    /\ UNCHANGED <<now, daemon, rows, runs, busy, deadline, wake, listed, tickNow, calls, fired, since>>

\* Faulty variant: next_run_at stays at the moment that was processed.
UpdateScheduleProgress_NotAdvanced ==
    /\ Up /\ pc = "moment" /\ job.left = {} /\ Present(job.sched)
    /\ rows' = [rows EXCEPT ![job.sched].next = job.last, ![job.sched].last = job.last,
                            ![job.sched].result = job.result]
    /\ job' = NoJob
    /\ pc' = "tick"
    /\ UNCHANGED <<now, daemon, runs, busy, deadline, wake, listed, tickNow, calls, fired, since>>

\* UpdateScheduleProgress, whatever became of the row meanwhile.
UpdateScheduleProgress ==
    /\ Up /\ pc = "moment" /\ job.left = {} /\ Present(job.sched)
    /\ rows' = [rows EXCEPT ![job.sched].next = job.next, ![job.sched].last = job.last,
                            ![job.sched].result = job.result]
    /\ job' = NoJob
    /\ pc' = "tick"
    /\ UNCHANGED <<now, daemon, runs, busy, deadline, wake, listed, tickNow, calls, fired, since>>
-----------------------------------------------------------------------------
(* The task engine, the clock, crash and start-up *)

\* Another operation is created on a resource; the operation on it ends.
Submitted(r) ==
    /\ Up /\ r \notin busy
    /\ busy' = busy \cup {r}
    /\ UNCHANGED <<now, daemon, rows, runs, goroutine, wake, calls, fired, since>>
OperationEnds(r) ==
    /\ r \in busy
    /\ busy' = busy \ {r}
    /\ UNCHANGED <<now, daemon, rows, runs, goroutine, wake, calls, fired, since>>

Clock ==
    /\ now < Horizon
    /\ now' = now + 1
    /\ UNCHANGED <<daemon, rows, runs, busy, goroutine, wake, calls, fired, since>>

Exit ==
    /\ Up
    /\ daemon' = "down"
    /\ pc' = "arm" /\ deadline' = 0 /\ wake' = FALSE
    /\ listed' = [s \in {} |-> Absent] /\ tickNow' = 0 /\ job' = NoJob
    /\ calls' = {}
    /\ UNCHANGED <<now, rows, runs, busy, fired, since>>

\* The goroutine starts over; what is overdue is what Tick will find.
Start ==
    /\ daemon = "down"
    /\ daemon' = "up"
    /\ UNCHANGED <<now, rows, runs, busy, goroutine, wake, calls, fired, since>>
-----------------------------------------------------------------------------
Request ==
    \E s \in Schedules :
        \/ \E rule \in Rules, r \in Resources, k \in Kinds, spec \in Specs :
              Create(s, rule.trigger, rule.policy, r, k, spec)
        \/ Disable(s) \/ EnableRead(s) \/ DeleteRead(s)
Answer == \E c \in calls : EnableProgress(c) \/ EnableSwitch(c) \/ DeleteSchedule(c)
Goroutine ==
    \/ Arm \/ Tick \/ TickDone \/ AlreadyHandled \/ RecordMissedRun \/ DispatchScheduledRun
    \/ ScheduleGone \/ UpdateScheduleProgress
    \/ \E s \in DOMAIN listed : NotDue(s) \/ Due(s)

Next ==
    \/ Request \/ Answer \/ Goroutine
    \/ \E r \in Resources : Submitted(r) \/ OperationEnds(r)
    \/ Clock \/ Exit \/ Start

Spec == Init /\ [][Next]_vars

\* The goroutine runs, handlers that started go on, time passes, the
\* supervisor restarts opsd.
FairSpec == Spec /\ WF_vars(Goroutine) /\ WF_vars(Answer) /\ WF_vars(Clock) /\ WF_vars(Start)
-----------------------------------------------------------------------------
(* Properties *)

\* Every variable has its type.
TypeOK ==
    /\ now \in 0..Horizon /\ tickNow \in 0..Horizon
    /\ daemon \in {"up", "down"}
    /\ rows \in [Schedules -> {Absent, Gone} \cup Row]
    /\ runs \subseteq RunType /\ busy \subseteq Resources
    /\ pc \in {"arm", "wait", "tick", "moment"}
    /\ deadline \in Nat /\ wake \in BOOLEAN
    /\ DOMAIN listed \subseteq Schedules /\ \A s \in DOMAIN listed : listed[s] \in Row
    /\ job \in JobType
    /\ calls \subseteq CallType
    /\ fired \in [Schedules -> [Times -> Nat]]

\* "opsd 重启后不为已记录的时刻重复触发" (iteration-1b.md, section 12): a moment of
\* a schedule creates at most one operation, over restarts in the middle of
\* a tick and over the rewinding of next_run_at by a stale tick, and its run
\* says so.
OneOperationPerMoment ==
    \A s \in Schedules, m \in Times :
        /\ fired[s][m] <= 1
        /\ Present(s) => (fired[s][m] = 1
              <=> \E r \in runs : r.sched = s /\ r.for = m /\ r.result = "dispatched")

\* "为每个漏掉的时刻写一条 ScheduleRun" (iteration-1b.md, section 5): a cron
\* schedule accounts for every moment before it moves past it, and in order,
\* counted from the latest moment that Create or an enable request wrote.
NoMomentLost ==
    \A s \in Schedules :
        Present(s) /\ rows[s].enabled /\ rows[s].trigger = "cron" =>
            \A m \in Times :
                /\ m % Period = 0 /\ m >= since[s]
                /\ m < rows[s].next \/ \E r \in runs : r.sched = s /\ r.for > m
                => Recorded(s, m)

\* chooseDispatchedMoments: "runOnce 只派发最近一次".  What a tick runs, on time
\* or catching up, is the latest moment that was due: nothing older is run.
RunsTheLatestMoment ==
    \A r \in runs : r.result # "missed" => r.for + Period > r.at

\* A deleted schedule creates no operation and leaves no run behind, though
\* a tick may still be working through its moments.
DeletedStaysSilent ==
    [][\A s \in Schedules :
          rows[s] = Gone => fired'[s] = fired[s] /\ \A r \in runs' : r.sched # s]_vars

\* A moment that is due is dealt with (recorded, or dropped by a request)
\* once the daemon stays up.
DueMomentsAreHandled ==
    <>[]Up => \A s \in Schedules, m \in Times :
        (Present(s) /\ rows[s].enabled /\ rows[s].next = m /\ now >= m)
            ~> (~Present(s) \/ ~rows[s].enabled \/ rows[s].next > m)
-----------------------------------------------------------------------------
(* What the documentation says and the code does not keep *)

\* "Delete 只允许删除已停用的计划" (application/schedule.go:190): the schedule that
\* is deleted is disabled.
OnlyDisabledIsDeleted ==
    [][\A s \in Schedules : Present(s) /\ rows'[s] = Gone => ~rows[s].enabled]_vars

\* "lastRunAt / lastResult: 上一次触发的结果摘要" (docs/plans/2026-09-21-iteration-1b.md:58):
\* the row repeats the result of the run it names.
SummaryTellsLastRun ==
    \A s \in Schedules :
        Present(s) /\ rows[s].last # None =>
            \A r \in runs : r.sched = s /\ r.for = rows[s].last => r.result = rows[s].result

\* "--operation-kind: ... 也接受 backup.run、backup.verify、runtime.start" (docs/manual.md:411):
\* while an id is free, a schedule of every schedulable kind can be created.
SchedulableKindsAreAccepted ==
    \A s \in Schedules, k \in schedulableKinds :
        Up /\ rows[s] = Absent => \E spec \in Specs : SpecFitsKind(k, spec) /\ Validate(k, spec)
=============================================================================
