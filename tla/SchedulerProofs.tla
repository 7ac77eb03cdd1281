--------------------------- MODULE SchedulerProofs ---------------------------
(***************************************************************************)
(* Proofs about the scheduler, for every period, every limit of a tick and  *)
(* any set of schedules, resources and requests: the types, what is        *)
(* dispatched at most once, which moment is run and which are accounted for. *)
(*                                                                         *)
(* A tick looks at MaxMoments moments at most.  What is said of the moment  *)
(* that is run, and of the moments that are accounted for, holds as long as *)
(* no tick finds a schedule further behind than that (NeverFarBehind).      *)
(***************************************************************************)
EXTENDS Scheduler, FiniteSetTheorems, TLAPS
-----------------------------------------------------------------------------
(* Least and greatest numbers *)

HasSmallest(F) == \E A \in F : \A B \in F : B \subseteq A => B = A
AllFinite(F) == \A A \in F : IsFiniteSet(A)

\* A non-empty family of finite subsets has a smallest member.
LEMMA SmallestSet ==
  ASSUME NEW S, NEW F \in SUBSET SUBSET S, F # {}, AllFinite(F)
  PROVE  HasSmallest(F)
<1>1. F \subseteq FiniteSubsetsOf(S)
  BY DEF FiniteSubsetsOf, AllFinite
<1>2. PICK A \in F : \A B \in F : ~(<<B, A>> \in StrictSubsetOrdering(S))
  BY <1>1, FS_StrictSubsetOrderingWellFounded, WFMin
<1>3. ASSUME NEW B \in F, B \subseteq A PROVE B = A
  <2>1. ASSUME B # A PROVE <<B, A>> \in StrictSubsetOrdering(S)
    <3>1. <<B, A>> \in (SUBSET S) \X (SUBSET S)
      BY <1>3
    <3> QED BY <3>1, <2>1, <1>3 DEF StrictSubsetOrdering
  <2> QED BY <2>1, <1>2
<1> QED BY <1>3 DEF HasSmallest

\* A non-empty set of moments has a least one, the smallest of the intervals 0..n, ...
LEMMA MinIs ==
  ASSUME NEW S, S \subseteq Nat, S # {}
  PROVE  Min(S) \in S /\ \A m \in S : Min(S) <= m
<1> DEFINE F == {0..n : n \in S}
<1>1. \A n \in S : 0..n \subseteq Nat /\ IsFiniteSet(0..n)
  BY FS_Interval
<1>2. F \in SUBSET SUBSET Nat /\ F # {} /\ AllFinite(F)
  BY <1>1 DEF AllFinite
<1>3. HasSmallest(F)
  <2> HIDE DEF F
  <2> QED BY <1>2, SmallestSet
<1>4. PICK n \in S : \A B \in F : B \subseteq 0..n => B = 0..n
  BY <1>3 DEF HasSmallest
<1>5. ASSUME NEW m \in S, m < n PROVE FALSE
  <2>1. 0..m \in F
    OBVIOUS
  <2>2. 0..m \subseteq 0..n
    BY <1>5
  <2>3. 0..m = 0..n
    BY <1>4, <2>1, <2>2
  <2>4. n \in 0..n /\ n \notin 0..m
    BY <1>5
  <2> QED BY <2>3, <2>4
<1>6. \A m \in S : n <= m
  BY <1>5
<1> QED BY <1>6 DEF Min

\* ... and a greatest one if it has a bound: the least of its bounds.
LEMMA MaxIs ==
  ASSUME NEW S, S \subseteq Nat, S # {}, NEW b \in Nat, \A m \in S : m <= b
  PROVE  Max(S) \in S /\ \A m \in S : m <= Max(S)
<1> DEFINE U == {u \in Nat : \A m \in S : m <= u}
           n == Min(U)
<1>1. n \in U /\ \A u \in U : n <= u
  <2>1. U \subseteq Nat /\ U # {}
    OBVIOUS
  <2> HIDE DEF U
  <2> QED BY <2>1, MinIs
<1> HIDE DEF n
<1>2. n \in S
  <2> SUFFICES ASSUME n \notin S PROVE FALSE
    OBVIOUS
  <2>1. \A m \in S : m < n
    BY <1>1
  <2>2. PICK m \in S : m < n
    BY <2>1
  <2>3. n - 1 \in U
    BY <1>1, <2>1, <2>2
  <2> QED BY <1>1, <2>3
<1>3. \A m \in S : n >= m
  BY <1>1
<1> QED BY <1>2, <1>3 DEF Max
-----------------------------------------------------------------------------
(* Moments *)

\* The moments of a cron schedule.
Grid(m) == m % Period = 0

LEMMA Quotient ==
  \A t \in Nat : /\ t \div Period \in Nat
                 /\ (t \div Period) * Period <= t /\ t < (t \div Period) * Period + Period
                 /\ t % Period = 0 => t = (t \div Period) * Period
  BY PeriodAssumption

LEMMA NextMomentIs ==
  ASSUME NEW trigger \in {"cron", "interval"}, NEW t \in Nat
  PROVE  /\ NextMoment(trigger, t) \in Nat
         /\ t < NextMoment(trigger, t) /\ NextMoment(trigger, t) <= t + Period
         /\ trigger = "cron" => Grid(NextMoment(trigger, t))
<1>1. CASE trigger = "interval"
  BY <1>1, PeriodAssumption DEF NextMoment
<1>2. CASE trigger = "cron"
  <2> PICK q \in Nat : q = t \div Period
    BY Quotient
  <2>1. NextMoment(trigger, t) = (q + 1) * Period /\ (q + 1) * Period = q * Period + Period
    BY <1>2, PeriodAssumption DEF NextMoment
  <2>2. q * Period <= t /\ t < q * Period + Period /\ q * Period \in Nat
    BY Quotient, PeriodAssumption
  <2>3. ((q + 1) * Period) % Period = 0
    BY PeriodAssumption
  <2> QED BY <2>1, <2>2, <2>3, PeriodAssumption DEF Grid
<1> QED BY <1>1, <1>2

\* Two moments of a cron schedule are a whole number of periods apart.
LEMMA GridSteps ==
  ASSUME NEW f \in Nat, NEW m \in Nat, Grid(f), Grid(m), f <= m
  PROVE  \E k \in Nat : m = f + k * Period
<1> PICK a \in Nat : f = a * Period
  BY Quotient DEF Grid
<1> PICK b \in Nat : m = b * Period
  BY Quotient DEF Grid
<1>1. a <= b
  <2> SUFFICES ASSUME b < a PROVE FALSE
    OBVIOUS
  <2>1. b * Period + Period <= a * Period
    BY PeriodAssumption
  <2> QED BY <2>1, PeriodAssumption
<1>2. b - a \in Nat /\ m = f + (b - a) * Period
  BY <1>1, PeriodAssumption
<1> QED BY <1>2

\* Between a moment of a cron schedule and one less than a period later is none.
LEMMA GridGap ==
  ASSUME NEW f \in Nat, NEW m \in Nat, Grid(f), Grid(m), f < m
  PROVE  f + Period <= m
<1> PICK k \in Nat : m = f + k * Period
  BY GridSteps
<1>1. k # 0
  BY PeriodAssumption
<1>2. k * Period >= Period
  BY <1>1, PeriodAssumption
<1>3. k * Period \in Nat /\ Period \in Nat
  BY PeriodAssumption
<1> QED BY <1>2, <1>3

LEMMA GridPlus ==
  ASSUME NEW f \in Nat, NEW k \in Nat, Grid(f)
  PROVE  Grid(f + k * Period)
<1> PICK a \in Nat : f = a * Period
  BY Quotient DEF Grid
<1>1. f + k * Period = (a + k) * Period
  BY PeriodAssumption
<1>2. ((a + k) * Period) % Period = 0
  BY PeriodAssumption
<1> QED BY <1>1, <1>2 DEF Grid

\* The moments a tick finds due, when it does not find more than it looks at.
LEMMA DueIs ==
  ASSUME NEW first \in Nat, NEW until \in Nat, first <= until
  PROVE  /\ first \in DueMoments(first, until)
         /\ \A m \in DueMoments(first, until) : m \in Nat /\ first <= m /\ m <= until
         /\ Grid(first) => \A m \in DueMoments(first, until) : Grid(m)
<1>0. \A k \in Nat : k * Period \in Nat
  BY PeriodAssumption
<1>1. 0 \in 0..(MaxMoments - 1) /\ first + 0 * Period = first
  BY LimitAssumption, PeriodAssumption
<1>2. \A m \in DueMoments(first, until) : m <= until /\ \E k \in Nat : m = first + k * Period
  BY LimitAssumption DEF DueMoments
<1>3. first \in DueMoments(first, until)
  BY <1>1 DEF DueMoments
<1>4. \A m \in DueMoments(first, until) : m \in Nat /\ first <= m /\ m <= until
  BY <1>0, <1>2
<1> QED BY <1>2, <1>3, <1>4, GridPlus

LEMMA DueIsAll ==
  ASSUME NEW first \in Nat, NEW until \in Nat, until < first + MaxMoments * Period,
         NEW k \in Nat, first + k * Period <= until
  PROVE  first + k * Period \in DueMoments(first, until)
<1>1. k * Period < MaxMoments * Period
  <2>1. k * Period \in Nat /\ MaxMoments * Period \in Nat
    BY PeriodAssumption, LimitAssumption
  <2> QED BY <2>1
<1>2. k < MaxMoments
  <2> SUFFICES ASSUME MaxMoments <= k PROVE FALSE
    BY LimitAssumption
  <2>1. MaxMoments * Period <= k * Period
    BY PeriodAssumption, LimitAssumption
  <2>2. k * Period \in Nat /\ MaxMoments * Period \in Nat
    BY PeriodAssumption, LimitAssumption
  <2> QED BY <1>1, <2>1, <2>2
<1>3. k \in 0..(MaxMoments - 1)
  BY <1>2, LimitAssumption
<1> QED BY <1>3 DEF DueMoments
\* The last of them: a tick runs no other, and less than a period has passed since.
LEMMA LastDue ==
  ASSUME NEW first \in Nat, NEW until \in Nat, first <= until
  PROVE  LET D == DueMoments(first, until) IN
         /\ Max(D) \in D /\ \A m \in D : m <= Max(D)
         /\ \A policy \in {"skip", "runOnce"} :
              chooseDispatchedMoments(D, policy, until) \subseteq {Max(D)}
         /\ until < first + MaxMoments * Period => until < Max(D) + Period
<1> DEFINE D == DueMoments(first, until)
           last == Max(D)
<1>1. D \subseteq Nat /\ D # {} /\ (\A m \in D : m <= until) /\ D \subseteq first..until
  BY DueIs
<1>2. last \in D /\ \A m \in D : m <= last
  <2> HIDE DEF D
  <2> QED BY <1>1, MaxIs
<1>3. IsFiniteSet(D)
  <2>1. IsFiniteSet(first..until)
    BY FS_Interval
  <2> HIDE DEF D
  <2> QED BY <1>1, <2>1, FS_Subset
<1>4. ASSUME NEW policy \in {"skip", "runOnce"}
      PROVE  chooseDispatchedMoments(D, policy, until) \subseteq {last}
  <2>1. Cardinality(D) = 1 => D = {last}
    <3> HIDE DEF D
    <3>1. Cardinality(D) = 1 => \E x : D = {x}
      BY <1>3, FS_Singleton
    <3> QED BY <1>2, <3>1
  <2> HIDE DEF D
  <2> QED BY <2>1 DEF chooseDispatchedMoments
<1>5. ASSUME until < first + MaxMoments * Period PROVE until < last + Period
  <2>1. PICK k \in Nat : last = first + k * Period
    BY <1>2, LimitAssumption DEF DueMoments
  <2> SUFFICES ASSUME last + Period <= until PROVE FALSE
    BY <1>1, <1>2, PeriodAssumption
  <2>2. first + (k + 1) * Period = last + Period
    BY <2>1, PeriodAssumption
  <2>3. k + 1 \in Nat /\ first + (k + 1) * Period <= until
    BY <2>2
  <2>4. first + (k + 1) * Period \in DueMoments(first, until)
    BY <1>5, <2>3, DueIsAll
  <2>5. last + Period \in D
    BY <2>2, <2>4
  <2> HIDE DEF D
  <2>6. last + Period <= last /\ last \in Nat
    BY <1>1, <1>2, <2>5
  <2> QED BY <2>6, PeriodAssumption
<1> HIDE DEF last
<1> QED BY <1>2, <1>4, <1>5 DEF last

LEMMA TimesAre ==
  /\ \A m \in Times : m \in Nat
  /\ \A m \in Nat : m <= Horizon + Period => m \in Times
  /\ \A m \in 0..Horizon : m \in Times
<1>1. Horizon \in Nat /\ Period \in Nat
  BY LimitAssumption, PeriodAssumption
<1> QED BY <1>1 DEF Times

\* The moment after those a tick took up: none is passed over.
NextAfter(trigger, D, until) == NextMoment(trigger, IF Truncated(D) THEN until ELSE Max(D))

LEMMA NextAfterIs ==
  ASSUME NEW first \in Nat, NEW until \in Nat, first <= until,
         NEW trigger \in {"cron", "interval"}
  PROVE  LET D == DueMoments(first, until)
             next == NextAfter(trigger, D, until) IN
         /\ next \in Nat /\ next <= until + Period /\ \A m \in D : m < next
         /\ trigger = "cron" => Grid(next)
         /\ until < first + MaxMoments * Period /\ trigger = "cron" /\ Grid(first) =>
              \A m \in Nat : Grid(m) /\ first <= m /\ m < next => m \in D
<1> DEFINE D == DueMoments(first, until)
           last == Max(D)
           from == IF Truncated(D) THEN until ELSE last
           next == NextMoment(trigger, from)
<1>0. Period \in Nat
  BY PeriodAssumption
<1>1. NextAfter(trigger, D, until) = next
  BY DEF NextAfter
<1>2. \A m \in D : m \in Nat /\ first <= m /\ m <= until
  BY DueIs
<1>3. last \in D /\ \A m \in D : m <= last
  BY LastDue
<1> HIDE DEF D, last
<1>4. last \in Nat /\ last <= until
  BY <1>2, <1>3
<1>5. from \in Nat /\ from <= until /\ \A m \in D : m <= from
  BY <1>2, <1>3, <1>4
<1> HIDE DEF from
<1>6. /\ next \in Nat /\ from < next /\ next <= from + Period
      /\ trigger = "cron" => Grid(next)
  BY <1>5, NextMomentIs
<1> HIDE DEF next
<1>9. \A m \in D : m < next
  BY <1>2, <1>5, <1>6
<1>7. next <= until + Period
  BY <1>0, <1>5, <1>6
<1>8. ASSUME until < first + MaxMoments * Period, trigger = "cron", Grid(first),
             NEW m \in Nat, Grid(m), first <= m, m < next
      PROVE  m \in D
  <2>1. m <= until
    <3> SUFFICES ASSUME until < m PROVE FALSE
      OBVIOUS
    <3>1. m + Period <= next
      BY <1>6, <1>8, GridGap
    <3> QED BY <1>0, <1>5, <1>6, <3>1
  <2>2. PICK k \in Nat : m = first + k * Period
    BY <1>8, GridSteps
  <2>3. first + k * Period \in DueMoments(first, until)
    BY <1>8, <2>1, <2>2, DueIsAll
  <2> QED BY <2>2, <2>3 DEF D
<1> QED BY <1>1, <1>6, <1>7, <1>8, <1>9 DEF D

\* What a tick sets out to do for a row: the job ends at a moment of the schedule, and
\* takes up every moment from the one the row waits for to the one it will wait for.
LEMMA JobIs ==
  ASSUME tickNow \in 0..Horizon, NEW s \in Schedules, NEW row \in Row, row.next <= tickNow
  PROVE  LET new == JobOf(s, row) IN
         /\ new \in JobType /\ new.sched = s /\ \A m \in new.left : m < new.next
         /\ row.trigger = "cron" => Grid(new.next)
         /\ tickNow < row.next + MaxMoments * Period =>
              /\ \A m \in new.pick : tickNow < m + Period
              /\ row.trigger = "cron" /\ Grid(row.next) =>
                   \A m \in Nat : Grid(m) /\ row.next <= m /\ m < new.next => m \in new.left
<1> PICK first \in Times : first = row.next
  BY DEF Row
<1> PICK until \in 0..Horizon : until = tickNow
  OBVIOUS
<1> PICK trigger \in {"cron", "interval"} : trigger = row.trigger
  BY DEF Row
<1> PICK policy \in {"skip", "runOnce"} : policy = row.policy
  BY DEF Row
<1>0. first \in Nat /\ until \in Nat /\ first <= until
  BY TimesAre, LimitAssumption
<1> DEFINE D == DueMoments(first, until)
           pick == chooseDispatchedMoments(D, policy, until)
           next == NextAfter(trigger, D, until)
           new == [sched |-> s, left |-> D, pick |-> pick, last |-> Max(D), next |-> next,
                   result |-> row.result]
<1>1. JobOf(s, row) = new
  BY DEF JobOf, NextAfter
<1>2. /\ Max(D) \in D /\ pick \subseteq {Max(D)}
      /\ until < first + MaxMoments * Period => until < Max(D) + Period
  BY <1>0, LastDue
<1>3. \A m \in D : m \in Nat /\ m <= until
  BY <1>0, DueIs
<1>4. /\ next \in Nat /\ next <= until + Period /\ \A m \in D : m < next
      /\ trigger = "cron" => Grid(next)
      /\ until < first + MaxMoments * Period /\ trigger = "cron" /\ Grid(first) =>
           \A m \in Nat : Grid(m) /\ first <= m /\ m < next => m \in D
  BY <1>0, NextAfterIs
<1> HIDE DEF D, pick, next
<1>5. D \subseteq Times /\ Max(D) \in Times /\ pick \subseteq Times /\ next \in Times
  <2>1. \A m \in Nat : m <= until + Period => m \in Times
    BY <1>0, TimesAre, LimitAssumption, PeriodAssumption
  <2>2. \A m \in D : m \in Times
    BY <1>0, <1>3, <2>1, PeriodAssumption
  <2> QED BY <1>2, <1>4, <2>1, <2>2
<1>6. row.result \in Results \cup {""}
  BY DEF Row
<1>7. new \in JobType /\ new.sched = s /\ new.next = next /\ new.pick = pick /\ new.left = D
  BY <1>5, <1>6 DEF JobType
<1> HIDE DEF new
<1>8. until < first + MaxMoments * Period => \A m \in new.pick : until < m + Period
  BY <1>2, <1>7
<1> QED BY <1>1, <1>4, <1>7, <1>8
-----------------------------------------------------------------------------
(* The types, by who keeps them: the tables, the goroutine, and the rest *)

States == {Absent, Gone} \cup Row
RowsType == rows \in [Schedules -> States] /\ since \in [Schedules -> Nat]
RunsType == runs \subseteq RunType /\ fired \in [Schedules -> [Times -> Nat]]
TickType ==
  /\ pc \in {"arm", "wait", "tick", "moment"} /\ deadline \in Nat /\ tickNow \in 0..Horizon
  /\ DOMAIN listed \subseteq Schedules /\ \A s \in DOMAIN listed : listed[s] \in Row
  /\ job \in JobType /\ (pc = "moment" => job.sched \in Schedules)
RestType ==
  /\ now \in 0..Horizon /\ daemon \in {"up", "down"} /\ wake \in BOOLEAN
  /\ busy \subseteq Resources /\ calls \subseteq CallType
TInv == RowsType /\ RunsType /\ TickType /\ RestType

LEMMA TypesHold == TInv => TypeOK
  BY DEF TInv, RowsType, RunsType, TickType, RestType, States, TypeOK

LEMMA PresentRow ==
  ASSUME RowsType, NEW s \in Schedules
  PROVE  /\ Present(s) <=> rows[s] \in Row
         /\ Present(s) <=> rows[s] # Absent /\ rows[s] # Gone
         /\ Absent # Gone /\ ~(Absent \in Row) /\ ~(Gone \in Row)
<1>1. Absent.state = "absent" /\ Gone.state = "gone"
  BY DEF Absent, Gone
<1>2. \A row \in Row : row.state = "present"
  BY DEF Row
<1>3. rows[s] \in States
  BY DEF RowsType
<1> QED BY <1>1, <1>2, <1>3 DEF States, Present

\* A write of one row.
RowsOther(s) == \A x \in Schedules \ {s} : rows'[x] = rows[x]

LEMMA OneRow ==
  ASSUME RowsType, NEW s \in Schedules, NEW K \in States, rows' = [rows EXCEPT ![s] = K]
  PROVE  rows' \in [Schedules -> States] /\ RowsOther(s) /\ rows'[s] = K
  BY DEF RowsType, RowsOther

LEMMA CreateRow ==
  ASSUME TInv, NEW s \in Schedules, NEW rule \in Rules, NEW r \in Resources, NEW k \in Kinds,
         NEW spec, Create(s, rule.trigger, rule.policy, r, k, spec)
  PROVE  /\ RowsType' /\ RowsOther(s) /\ rows[s] = Absent /\ rows'[s] \in Row
         /\ rows'[s].trigger = "cron" => Grid(rows'[s].next)
         /\ since'[s] = rows'[s].next /\ \A x \in Schedules \ {s} : since'[x] = since[x]
<1> PICK trigger \in {"cron", "interval"} : trigger = rule.trigger
  BY RequestAssumption
<1> PICK policy \in {"skip", "runOnce"} : policy = rule.policy
  BY RequestAssumption
<1> DEFINE next == NextMoment(trigger, now)
           K == [state |-> "present", enabled |-> TRUE, trigger |-> trigger, policy |-> policy,
                 resource |-> r, kind |-> k, next |-> next, last |-> None, result |-> ""]
<1>0. RowsType /\ now \in 0..Horizon /\ Horizon \in Nat /\ Period \in Nat
  BY LimitAssumption, PeriodAssumption DEF TInv, RestType
<1>1. next \in Times /\ next \in Nat /\ (trigger = "cron" => Grid(next))
  <2>1. now \in Nat /\ now <= Horizon
    BY <1>0
  <2>2. next \in Nat /\ next <= now + Period /\ (trigger = "cron" => Grid(next))
    BY <2>1, NextMomentIs
  <2> HIDE DEF next
  <2>3. next <= Horizon + Period
    BY <1>0, <2>1, <2>2
  <2> QED BY <2>2, <2>3, TimesAre
<1>2. /\ rows[s] = Absent /\ rows' = [rows EXCEPT ![s] = K]
      /\ since' = [since EXCEPT ![s] = next]
  BY DEF Create
<1> HIDE DEF next
<1>3. K \in Row /\ K.trigger = trigger /\ K.next = next
  BY <1>1 DEF Row
<1> HIDE DEF K
<1>4. rows' \in [Schedules -> States] /\ RowsOther(s) /\ rows'[s] = K
  BY <1>0, <1>2, <1>3, OneRow DEF States
<1>5. since \in [Schedules -> Nat]
  BY <1>0 DEF RowsType
<1> QED BY <1>1, <1>2, <1>3, <1>4, <1>5 DEF RowsType

\* SetEnabled changes the flag and nothing else, ...
LEMMA SwitchRow ==
  ASSUME RowsType, NEW s \in Schedules, Present(s), NEW e \in BOOLEAN,
         rows' = [rows EXCEPT ![s].enabled = e]
  PROVE  /\ rows' \in [Schedules -> States] /\ RowsOther(s) /\ rows'[s] \in Row
         /\ rows'[s].trigger = rows[s].trigger /\ rows'[s].next = rows[s].next
<1> DEFINE K == [rows[s] EXCEPT !.enabled = e]
<1>1. rows[s] \in Row
  BY PresentRow
<1>2. K \in Row /\ K.trigger = rows[s].trigger /\ K.next = rows[s].next
  BY <1>1 DEF Row
<1>3. rows' = [rows EXCEPT ![s] = K]
  OBVIOUS
<1> HIDE DEF K
<1>4. rows' \in [Schedules -> States] /\ RowsOther(s) /\ rows'[s] = K
  BY <1>2, <1>3, OneRow DEF States
<1> QED BY <1>2, <1>4

\* ... UpdateScheduleProgress its progress.
LEMMA ProgressRow ==
  ASSUME RowsType, NEW s \in Schedules, Present(s), NEW n \in Times,
         NEW l \in Times \cup {None}, NEW result \in Results \cup {""},
         rows' = [rows EXCEPT ![s].next = n, ![s].last = l, ![s].result = result]
  PROVE  /\ rows' \in [Schedules -> States] /\ RowsOther(s) /\ rows'[s] \in Row
         /\ rows'[s].trigger = rows[s].trigger /\ rows'[s].next = n
<1> DEFINE K == [rows[s] EXCEPT !.next = n, !.last = l, !.result = result]
<1>1. rows[s] \in Row
  BY PresentRow
<1>2. K \in Row /\ K.trigger = rows[s].trigger /\ K.next = n
  BY <1>1 DEF Row
<1>3. rows' = [rows EXCEPT ![s] = K]
  OBVIOUS
<1> HIDE DEF K
<1>4. rows' \in [Schedules -> States] /\ RowsOther(s) /\ rows'[s] = K
  BY <1>2, <1>3, OneRow DEF States
<1> QED BY <1>2, <1>4
\* The moment a job is at is its earliest one, and done it is off the list.
LEMMA CurrentIs ==
  ASSUME TickType, AtMoment
  PROVE  /\ job.sched \in Schedules /\ pc = "moment"
         /\ Current \in job.left /\ Current \in Times /\ \A m \in job.left : Current <= m
<1>1. job.left \subseteq Times /\ job.left # {}
  BY DEF TickType, AtMoment, JobType
<1>2. job.left \subseteq Nat
  BY <1>1, TimesAre
<1>3. Current \in job.left /\ \A m \in job.left : Current <= m
  BY <1>1, <1>2, MinIs DEF Current
<1> QED BY <1>1, <1>3 DEF TickType, AtMoment

LEMMA MomentDoneIs ==
  ASSUME TickType, NEW result \in Results \cup {""}, MomentDone(result)
  PROVE  /\ job' \in JobType /\ job'.sched = job.sched /\ job'.left = job.left \ {Current}
         /\ job'.pick = job.pick /\ job'.next = job.next
<1> DEFINE rest == job.left \ {Current}
           K == [job EXCEPT !.left = rest, !.result = result]
<1>1. job \in JobType
  BY DEF TickType
<1>2. rest \in SUBSET Times
  BY <1>1 DEF JobType
<1>3. job' = K
  BY DEF MomentDone
<1> HIDE DEF rest
<1>4. K \in JobType /\ K.sched = job.sched /\ K.left = rest /\ K.pick = job.pick /\ K.next = job.next
  BY <1>1, <1>2 DEF JobType
<1> QED BY <1>3, <1>4 DEF rest

LEMMA NewRunIs ==
  ASSUME TickType, AtMoment, NEW result \in Results
  PROVE  /\ NewRun(result) \in RunType
         /\ NewRun(result).sched = job.sched /\ NewRun(result).for = Current
         /\ NewRun(result).result = result /\ NewRun(result).at = tickNow
<1>1. job.sched \in Schedules /\ Current \in Times /\ tickNow \in 0..Horizon
  BY CurrentIs DEF TickType
<1> QED BY <1>1 DEF NewRun, RunType

\* A run is recorded: as missed, as failed, or as dispatched with an operation.
Records(result) ==
  /\ AtMoment /\ ~Recorded(job.sched, Current) /\ Present(job.sched)
  /\ result # "missed" => Current \in job.pick
  /\ runs' = runs \cup {NewRun(result)}
  /\ fired' = IF result = "dispatched" THEN [fired EXCEPT ![job.sched][Current] = @ + 1]
              ELSE fired
  /\ MomentDone(result)
  /\ UNCHANGED <<now, daemon, rows, pc, deadline, wake, listed, tickNow, calls, since>>

LEMMA RecordSteps ==
  ASSUME RecordMissedRun \/ DispatchScheduledRun
  PROVE  \E result \in Results : Records(result)
<1>1. "missed" \in Results /\ "failed" \in Results /\ "dispatched" \in Results
  BY DEF Results
<1>2. CASE RecordMissedRun
  <2>1. Records("missed")
    BY <1>2 DEF RecordMissedRun, Records
  <2> QED BY <1>1, <2>1
<1>3. CASE DispatchScheduledRun
  <2>1. Records("failed") \/ Records("dispatched")
    BY <1>3 DEF DispatchScheduledRun, Records
  <2> QED BY <1>1, <2>1
<1> QED BY <1>2, <1>3

LEMMA RecordsType ==
  ASSUME TInv, NEW result \in Results, Records(result)
  PROVE  RowsType' /\ RunsType' /\ TickType'
<1>0. RowsType /\ RunsType /\ TickType
  BY DEF TInv
<1>1. job.sched \in Schedules /\ Current \in Times
  BY <1>0, CurrentIs DEF Records
<1>2. NewRun(result) \in RunType
  BY <1>0, NewRunIs DEF Records
<1>3. job' \in JobType /\ job'.sched = job.sched
  BY <1>0, MomentDoneIs DEF Records
<1>4. fired' \in [Schedules -> [Times -> Nat]]
  <2>1. fired \in [Schedules -> [Times -> Nat]]
    BY <1>0 DEF RunsType
  <2>2. fired[job.sched] \in [Times -> Nat] /\ fired[job.sched][Current] + 1 \in Nat
    BY <1>1, <2>1
  <2>3. [fired[job.sched] EXCEPT ![Current] = fired[job.sched][Current] + 1] \in [Times -> Nat]
    BY <1>1, <2>2
  <2> QED BY <1>1, <2>1, <2>3 DEF Records
<1>5. RunsType'
  BY <1>0, <1>2, <1>4 DEF RunsType, Records
<1>6. RowsType' /\ TickType'
  BY <1>0, <1>3 DEF RowsType, TickType, Records
<1> QED BY <1>5, <1>6

LEMMA JobAtRest == NoJob \in JobType
<1>1. 0 \in Times
  BY LimitAssumption, PeriodAssumption DEF Times
<1> QED BY <1>1 DEF NoJob, JobType

\* The steps of the goroutine up to its first transaction and after its last.
LEMMA TickSteps ==
  ASSUME TInv,
         Arm \/ Tick \/ TickDone \/ AlreadyHandled \/ ScheduleGone \/ UpdateScheduleProgress
           \/ \E s \in DOMAIN listed : NotDue(s) \/ Due(s)
  PROVE  TickType'
<1>0. RowsType /\ TickType /\ Horizon \in Nat /\ now \in 0..Horizon
  BY LimitAssumption DEF TInv, RestType
<1>1. CASE Arm
  <2>1. deadline' \in Nat
    <3>1. CASE EnabledRows = {}
      BY <1>0, <1>1, <3>1, PeriodAssumption DEF Arm
    <3>2. CASE EnabledRows # {}
      <4> DEFINE S == {rows[s].next : s \in EnabledRows}
      <4>1. \A s \in EnabledRows : rows[s].next \in Times
        BY <1>0, PresentRow DEF EnabledRows, Row
      <4>2. S \subseteq Nat /\ S # {}
        BY <3>2, <4>1, TimesAre
      <4>3. deadline' = Min(S)
        BY <1>1, <3>2 DEF Arm
      <4> HIDE DEF S
      <4> QED BY <4>2, <4>3, MinIs
    <3> QED BY <3>1, <3>2
  <2> QED BY <1>0, <1>1, <2>1 DEF TickType, Arm
<1>2. CASE Tick
  <2>1. \A s \in EnabledRows : s \in Schedules /\ rows[s] \in Row
    BY <1>0, PresentRow DEF EnabledRows
  <2>2. listed' = [s \in EnabledRows |-> rows[s]] /\ tickNow' = now /\ pc' = "tick"
        /\ deadline' = 0 /\ job' = job
    BY <1>2 DEF Tick
  <2> QED BY <1>0, <2>1, <2>2 DEF TickType
<1>3. CASE TickDone
  BY <1>0, <1>3 DEF TickType, TickDone
<1>4. CASE AlreadyHandled
  <2>1. job.result \in Results \cup {""} /\ MomentDone(job.result)
    BY <1>0, <1>4 DEF TickType, JobType, AlreadyHandled
  <2>2. job' \in JobType /\ job'.sched = job.sched
    BY <1>0, <2>1, MomentDoneIs
  <2> QED BY <1>0, <1>4, <2>2 DEF TickType, AlreadyHandled
<1>5. CASE ScheduleGone \/ UpdateScheduleProgress
  BY <1>0, <1>5, JobAtRest DEF TickType, ScheduleGone, UpdateScheduleProgress
<1>6. ASSUME NEW s \in DOMAIN listed, NotDue(s) \/ Due(s) PROVE TickType'
  <2>1. /\ DOMAIN listed' \subseteq Schedules
        /\ \A x \in DOMAIN listed' : listed'[x] \in Row
    BY <1>0, <1>6 DEF TickType, NotDue, Due, Without
  <2>2. CASE NotDue(s)
    BY <1>0, <2>1, <2>2 DEF TickType, NotDue
  <2>3. CASE Due(s)
    <3>1. s \in Schedules /\ listed[s] \in Row /\ listed[s].next <= tickNow
          /\ tickNow \in 0..Horizon /\ job' = JobOf(s, listed[s])
      BY <1>0, <2>3 DEF TickType, Due
    <3>2. job' \in JobType /\ job'.sched = s
      BY <3>1, JobIs
    <3> QED BY <1>0, <2>1, <2>3, <3>1, <3>2 DEF TickType, Due
  <2> QED BY <1>6, <2>2, <2>3
<1> QED BY <1>1, <1>2, <1>3, <1>4, <1>5, <1>6
LEMMA MaxOfTwo ==
  ASSUME NEW a \in Nat, NEW b \in Nat
  PROVE  Max({a, b}) \in Nat /\ a <= Max({a, b}) /\ b <= Max({a, b})
<1> DEFINE S == {a, b}
<1>1. S \subseteq Nat /\ S # {} /\ a + b \in Nat /\ \A m \in S : m <= a + b
  OBVIOUS
<1>2. a \in S /\ b \in S
  OBVIOUS
<1> HIDE DEF S
<1>3. Max(S) \in S /\ \A m \in S : m <= Max(S)
  BY <1>1, MaxIs
<1>4. Max(S) \in Nat /\ a <= Max(S) /\ b <= Max(S)
  BY <1>1, <1>2, <1>3
<1> QED BY <1>4 DEF S

\* The progress an enable request writes: the schedule accounts for what comes after.
LEMMA EnableRow ==
  ASSUME TInv, NEW c \in calls, EnableProgress(c), Present(c.sched)
  PROVE  /\ RowsType' /\ RowsOther(c.sched) /\ rows'[c.sched] \in Row /\ c.sched \in Schedules
         /\ rows'[c.sched].trigger = rows[c.sched].trigger /\ rows'[c.sched].next = c.next
         /\ since'[c.sched] >= since[c.sched] /\ since'[c.sched] >= c.next
         /\ \A x \in Schedules \ {c.sched} : since'[x] = since[x]
<1>0. /\ RowsType /\ since \in [Schedules -> Nat] /\ c.sched \in Schedules /\ c.next \in Times
      /\ c.next \in Nat /\ c.result \in Results \cup {""}
  <2>1. c \in CallType
    BY DEF TInv, RestType
  <2> QED BY <2>1, TimesAre DEF TInv, RowsType, CallType
<1> PICK s \in Schedules : s = c.sched
  BY <1>0
<1> PICK n \in Times : n = c.next
  BY <1>0
<1> PICK result \in Results \cup {""} : result = c.result
  BY <1>0
<1>1. /\ rows' = [rows EXCEPT ![s].next = n, ![s].last = None, ![s].result = result]
      /\ since' = [since EXCEPT ![s] = Max({since[s], n})] /\ Present(s)
  BY DEF EnableProgress
<1>2. /\ rows' \in [Schedules -> States] /\ RowsOther(s) /\ rows'[s] \in Row
      /\ rows'[s].trigger = rows[s].trigger /\ rows'[s].next = n
  BY <1>0, <1>1, ProgressRow
<1>3. since[s] \in Nat /\ n \in Nat
  BY <1>0
<1>4. Max({since[s], n}) \in Nat /\ since[s] <= Max({since[s], n}) /\ n <= Max({since[s], n})
  BY <1>3, MaxOfTwo
<1>5. since' \in [Schedules -> Nat] /\ since'[s] = Max({since[s], n})
      /\ \A x \in Schedules \ {s} : since'[x] = since[x]
  BY <1>0, <1>1, <1>4
<1>6. since'[s] >= since[s] /\ since'[s] >= n
  BY <1>3, <1>4, <1>5
<1> QED BY <1>2, <1>5, <1>6 DEF RowsType

\* Deletion: the row is gone and its runs with it.
LEMMA DeleteRow ==
  ASSUME TInv, NEW c \in calls, DeleteSchedule(c), Present(c.sched)
  PROVE  /\ RowsType' /\ RowsOther(c.sched) /\ c.sched \in Schedules /\ rows'[c.sched] = Gone
         /\ runs' = {r \in runs : r.sched # c.sched} /\ since' = since
<1> PICK s \in Schedules : s = c.sched
  BY DEF TInv, RestType, CallType
<1>1. rows' = [rows EXCEPT ![s] = Gone] /\ since' = since
      /\ runs' = {r \in runs : r.sched # s}
  BY DEF DeleteSchedule
<1>2. rows' \in [Schedules -> States] /\ RowsOther(s) /\ rows'[s] = Gone
  BY <1>1, OneRow DEF States, TInv
<1> QED BY <1>1, <1>2 DEF RowsType, TInv

\* The flag, by a request of one step or of two.
Switches(s) ==
  /\ Present(s)
  /\ \E e \in BOOLEAN : rows' = [rows EXCEPT ![s].enabled = e]
  /\ UNCHANGED <<now, daemon, runs, busy, goroutine, fired, since>>

LEMMA SwitchesType ==
  ASSUME TInv, NEW s \in Schedules, Switches(s)
  PROVE  /\ RowsType' /\ RowsOther(s) /\ rows'[s] \in Row
         /\ rows'[s].trigger = rows[s].trigger /\ rows'[s].next = rows[s].next
<1>0. RowsType /\ Present(s)
  BY DEF TInv, Switches
<1> PICK e \in BOOLEAN : rows' = [rows EXCEPT ![s].enabled = e]
  BY DEF Switches
<1>1. /\ rows' \in [Schedules -> States] /\ RowsOther(s) /\ rows'[s] \in Row
      /\ rows'[s].trigger = rows[s].trigger /\ rows'[s].next = rows[s].next
  BY <1>0, SwitchRow
<1> QED BY <1>0, <1>1 DEF RowsType, Switches

LEMMA UpdateRow ==
  ASSUME TInv, UpdateScheduleProgress
  PROVE  /\ RowsType' /\ RowsOther(job.sched) /\ rows'[job.sched] \in Row
         /\ job.sched \in Schedules /\ job.left = {} /\ pc = "moment" /\ Present(job.sched)
         /\ rows'[job.sched].trigger = rows[job.sched].trigger
         /\ rows'[job.sched].next = job.next
<1>0. /\ RowsType /\ job \in JobType /\ job.sched \in Schedules /\ job.left = {}
      /\ pc = "moment" /\ Present(job.sched)
  BY DEF TInv, TickType, UpdateScheduleProgress
<1> PICK s \in Schedules : s = job.sched
  BY <1>0
<1> PICK n \in Times : n = job.next
  BY <1>0 DEF JobType
<1> PICK l \in Times \cup {None} : l = job.last
  BY <1>0 DEF JobType
<1> PICK result \in Results \cup {""} : result = job.result
  BY <1>0 DEF JobType
<1>1. /\ rows' = [rows EXCEPT ![s].next = n, ![s].last = l, ![s].result = result]
      /\ since' = since
  BY DEF UpdateScheduleProgress
<1>2. /\ rows' \in [Schedules -> States] /\ RowsOther(s) /\ rows'[s] \in Row
      /\ rows'[s].trigger = rows[s].trigger /\ rows'[s].next = n
  BY <1>0, <1>1, ProgressRow
<1> QED BY <1>0, <1>1, <1>2 DEF RowsType
-----------------------------------------------------------------------------
(* The steps, by what they do to the tables *)

Creates(s) == \E rule \in Rules, r \in Resources, k \in Kinds, spec \in Specs :
  Create(s, rule.trigger, rule.policy, r, k, spec)

\* The tables stay, and so does what was written down about them.
Quiet ==
  \/ \E s \in Schedules : EnableRead(s) \/ DeleteRead(s)
  \/ \E c \in calls : ~Present(c.sched)
                      /\ (EnableProgress(c) \/ EnableSwitch(c) \/ DeleteSchedule(c))
  \/ Arm \/ Tick \/ TickDone \/ AlreadyHandled \/ ScheduleGone
  \/ \E s \in DOMAIN listed : NotDue(s) \/ Due(s)
  \/ \E r \in Resources : Submitted(r) \/ OperationEnds(r)
  \/ Clock \/ Exit \/ Start

LEMMA Steps ==
  ASSUME TInv, Next
  PROVE  \/ \E s \in Schedules : Creates(s) \/ Switches(s)
         \/ \E c \in calls : Present(c.sched) /\ (EnableProgress(c) \/ DeleteSchedule(c))
         \/ \E result \in Results : Records(result)
         \/ UpdateScheduleProgress
         \/ Quiet
<1>0. \A c \in calls : c.sched \in Schedules
  BY DEF TInv, RestType, CallType
<1>1. CASE Request
  BY <1>1 DEF Request, Creates, Quiet, Disable, Switches
<1>2. CASE Answer
  <2> PICK c \in calls : EnableProgress(c) \/ EnableSwitch(c) \/ DeleteSchedule(c)
    BY <1>2 DEF Answer
  <2>1. CASE Present(c.sched) /\ EnableSwitch(c)
    <3>1. Switches(c.sched)
      BY <2>1 DEF EnableSwitch, Switches
    <3> QED BY <1>0, <3>1
  <2> QED BY <2>1 DEF Quiet
<1>3. CASE Goroutine
  BY <1>3, RecordSteps DEF Goroutine, Quiet
<1> QED BY <1>1, <1>2, <1>3 DEF Next, Quiet

LEMMA QuietTables ==
  ASSUME Quiet
  PROVE  UNCHANGED <<rows, runs, fired, since>>
  BY DEF Quiet, EnableRead, DeleteRead, EnableProgress, EnableSwitch, DeleteSchedule, Arm, Tick,
         TickDone, AlreadyHandled, ScheduleGone, NotDue, Due, Submitted, OperationEnds, Clock,
         Exit, Start
-----------------------------------------------------------------------------
(* The types hold *)

\* The calls of the handlers.
LEMMA CallsKept == ASSUME TInv, Next PROVE calls' \subseteq CallType
<1>0. calls \subseteq CallType /\ RowsType /\ now \in 0..Horizon
  BY DEF TInv, RestType
<1>1. ASSUME NEW s \in Schedules, EnableRead(s) PROVE calls' \subseteq CallType
  <2>1. rows[s] \in Row
    BY <1>0, <1>1, PresentRow DEF EnableRead
  <2> PICK trigger \in {"cron", "interval"} : trigger = rows[s].trigger
    BY <2>1 DEF Row
  <2> DEFINE next == NextMoment(trigger, now)
             new == [sched |-> s, what |-> "enable", next |-> next, result |-> rows[s].result]
  <2>2. next \in Times
    <3>0. Horizon \in Nat /\ Period \in Nat
      BY LimitAssumption, PeriodAssumption
    <3>1. now \in Nat /\ now <= Horizon
      BY <1>0, <3>0
    <3>2. next \in Nat /\ next <= now + Period
      BY <3>1, NextMomentIs
    <3> HIDE DEF next
    <3>3. next <= Horizon + Period
      BY <3>0, <3>1, <3>2
    <3> QED BY <3>2, <3>3, TimesAre
  <2>3. calls' = calls \cup {new}
    BY <1>1 DEF EnableRead
  <2> HIDE DEF next
  <2>4. rows[s].result \in Results \cup {""}
    BY <2>1 DEF Row
  <2>5. new \in CallType
    BY <2>2, <2>4 DEF CallType
  <2> QED BY <1>0, <2>3, <2>5
<1>2. ASSUME NEW s \in Schedules, DeleteRead(s) PROVE calls' \subseteq CallType
  <2> DEFINE new == [sched |-> s, what |-> "delete", next |-> 0, result |-> ""]
  <2>1. 0 \in Times
    BY LimitAssumption, PeriodAssumption DEF Times
  <2>2. new \in CallType
    BY <2>1 DEF CallType
  <2> QED BY <1>0, <1>2, <2>2 DEF DeleteRead
<1>3. ASSUME NEW c \in calls, EnableProgress(c) \/ EnableSwitch(c) \/ DeleteSchedule(c)
      PROVE  calls' \subseteq CallType
  <2> DEFINE new == [c EXCEPT !.what = "switchOn"]
  <2>1. calls' = calls \ {c} \/ calls' = (calls \ {c}) \cup {new}
    BY <1>3 DEF EnableProgress, EnableSwitch, DeleteSchedule
  <2>2. new \in CallType
    BY <1>0 DEF CallType
  <2> QED BY <1>0, <2>1, <2>2
<1>4. CASE calls' = calls \/ calls' = {}
  BY <1>0, <1>4
<1>5. CASE Goroutine \/ (\E r \in Resources : Submitted(r) \/ OperationEnds(r)) \/ Clock \/ Exit \/ Start
  <2>1. calls' = calls \/ calls' = {}
    BY <1>5 DEF Goroutine, Arm, Tick, TickDone, AlreadyHandled, RecordMissedRun,
                DispatchScheduledRun, ScheduleGone, UpdateScheduleProgress, NotDue, Due,
                Submitted, OperationEnds, Clock, Exit, Start
  <2> QED BY <1>4, <2>1
<1>6. ASSUME NEW s \in Schedules, (Creates(s) \/ Disable(s)) PROVE calls' \subseteq CallType
  <2>1. calls' = calls
    BY <1>6 DEF Creates, Create, Disable
  <2> QED BY <1>4, <2>1
<1>7. CASE Request
  BY <1>1, <1>2, <1>6, <1>7 DEF Request, Creates
<1> QED BY <1>3, <1>5, <1>7 DEF Next, Answer

\* Create and DispatchScheduledRun take a resource of a row.
LEMMA RestKept == ASSUME TInv, Next PROVE RestType'
<1>0. RestType /\ Horizon \in Nat /\ RowsType
  BY LimitAssumption DEF TInv
<1>1. now' \in 0..Horizon
  <2>1. CASE Clock
    BY <1>0, <2>1 DEF RestType, Clock
  <2>2. CASE ~Clock
    <3>1. now' = now
      BY <2>2 DEF Next, Request, Create, Disable, EnableRead, DeleteRead, Answer, EnableProgress,
                  EnableSwitch, DeleteSchedule, Goroutine, Arm, Tick, TickDone, AlreadyHandled,
                  RecordMissedRun, DispatchScheduledRun, ScheduleGone, UpdateScheduleProgress,
                  NotDue, Due, Submitted, OperationEnds, Exit, Start
    <3> QED BY <1>0, <3>1 DEF RestType
  <2> QED BY <2>1, <2>2
<1>2. daemon' \in {"up", "down"}
  <2>1. daemon' = daemon \/ daemon' = "up" \/ daemon' = "down"
    BY DEF Next, Request, Create, Disable, EnableRead, DeleteRead, Answer, EnableProgress,
           EnableSwitch, DeleteSchedule, Goroutine, Arm, Tick, TickDone, AlreadyHandled,
           RecordMissedRun, DispatchScheduledRun, ScheduleGone, UpdateScheduleProgress,
           NotDue, Due, Submitted, OperationEnds, Clock, Exit, Start
  <2> QED BY <1>0, <2>1 DEF RestType
<1>3. wake' \in BOOLEAN
  <2>1. wake' = wake \/ wake' = TRUE \/ wake' = FALSE
    BY DEF Next, Request, Create, Disable, EnableRead, DeleteRead, Answer, EnableProgress,
           EnableSwitch, DeleteSchedule, Goroutine, Arm, Tick, TickDone, AlreadyHandled,
           RecordMissedRun, DispatchScheduledRun, ScheduleGone, UpdateScheduleProgress,
           NotDue, Due, Submitted, OperationEnds, Clock, Exit, Start
  <2> QED BY <1>0, <2>1 DEF RestType
<1>4. busy' \subseteq Resources
  <2>1. CASE DispatchScheduledRun
    <3>1. busy' = busy \/ busy' = busy \cup {rows[job.sched].resource}
      BY <2>1 DEF DispatchScheduledRun
    <3>2. rows[job.sched] \in Row
      BY <1>0, <2>1, CurrentIs, PresentRow DEF TInv, DispatchScheduledRun
    <3>3. rows[job.sched].resource \in Resources
      BY <3>2 DEF Row
    <3> QED BY <1>0, <3>1, <3>3 DEF RestType
  <2>2. CASE \E r \in Resources : Submitted(r) \/ OperationEnds(r)
    BY <1>0, <2>2 DEF RestType, Submitted, OperationEnds
  <2>3. CASE ~DispatchScheduledRun /\ ~\E r \in Resources : Submitted(r) \/ OperationEnds(r)
    <3>1. busy' = busy
      BY <2>3 DEF Next, Request, Create, Disable, EnableRead, DeleteRead, Answer, EnableProgress,
                  EnableSwitch, DeleteSchedule, Goroutine, Arm, Tick, TickDone, AlreadyHandled,
                  RecordMissedRun, ScheduleGone, UpdateScheduleProgress, NotDue, Due, Clock,
                  Exit, Start
    <3> QED BY <1>0, <3>1 DEF RestType
  <2> QED BY <2>1, <2>2, <2>3
<1>5. calls' \subseteq CallType
  BY CallsKept
<1> QED BY <1>1, <1>2, <1>3, <1>4, <1>5 DEF RestType

LEMMA TInit == Init => TInv
<1> SUFFICES ASSUME Init PROVE TInv
  OBVIOUS
<1>0. Horizon \in Nat /\ 0 \in 0..Horizon
  BY LimitAssumption
<1>1. RowsType
  BY DEF Init, RowsType, States
<1>2. RunsType
  BY DEF Init, RunsType
<1>3. TickType
  BY <1>0, JobAtRest DEF Init, TickType
<1>4. RestType
  BY <1>0 DEF Init, RestType
<1> QED BY <1>1, <1>2, <1>3, <1>4 DEF TInv

LEMMA TNext == TInv /\ [Next]_vars => TInv'
<1> SUFFICES ASSUME TInv, [Next]_vars PROVE TInv'
  OBVIOUS
<1>0. RowsType /\ RunsType /\ TickType /\ RestType /\ Horizon \in Nat
  BY LimitAssumption DEF TInv
<1>1. CASE UNCHANGED vars
  BY <1>0, <1>1 DEF vars, TInv, RowsType, RunsType, TickType, RestType
<1>2. CASE Next
  <2>1. RestType'
    BY <1>2, RestKept
  <2>2. ASSUME NEW s \in Schedules, Creates(s) PROVE RowsType' /\ RunsType' /\ TickType'
    <3>1. RowsType'
      BY <2>2, CreateRow DEF Creates
    <3> QED BY <1>0, <2>2, <3>1 DEF Creates, Create, RunsType, TickType, goroutine
  <2>3. ASSUME NEW s \in Schedules, Switches(s) PROVE RowsType' /\ RunsType' /\ TickType'
    BY <1>0, <2>3, SwitchesType DEF Switches, RunsType, TickType, goroutine
  <2>4. ASSUME NEW c \in calls, Present(c.sched), EnableProgress(c) \/ DeleteSchedule(c)
        PROVE  RowsType' /\ RunsType' /\ TickType'
    <3>1. RowsType'
      BY <2>4, EnableRow, DeleteRow
    <3>2. /\ UNCHANGED <<fired, pc, deadline, listed, tickNow, job>>
          /\ runs' \subseteq runs
      BY <2>4 DEF EnableProgress, DeleteSchedule, goroutine
    <3> QED BY <1>0, <3>1, <3>2 DEF RunsType, TickType
  <2>5. ASSUME NEW result \in Results, Records(result) PROVE RowsType' /\ RunsType' /\ TickType'
    BY <2>5, RecordsType
  <2>6. CASE UpdateScheduleProgress
    <3>1. UNCHANGED <<runs, fired>>
      BY <2>6 DEF UpdateScheduleProgress
    <3> QED BY <1>0, <2>1, <2>6, <3>1, UpdateRow, TickSteps DEF RunsType, TInv
  <2>7. CASE Quiet
    <3>1. RowsType' /\ RunsType'
      BY <1>0, <2>7, QuietTables DEF RowsType, RunsType
    <3>2. CASE Arm \/ Tick \/ TickDone \/ AlreadyHandled \/ ScheduleGone
                 \/ \E s \in DOMAIN listed : NotDue(s) \/ Due(s)
      BY <2>1, <3>1, <3>2, TickSteps DEF TInv
    <3>3. CASE Exit
      BY <1>0, <2>1, <3>1, <3>3, JobAtRest DEF Exit, TickType, TInv
    <3>4. CASE UNCHANGED goroutine
      BY <1>0, <2>1, <3>1, <3>4 DEF TickType, goroutine, TInv
    <3>5. CASE Clock
      BY <1>0, <2>1, <3>1, <3>5 DEF Clock, TickType, goroutine, TInv
    <3>6. ASSUME \/ \E s \in Schedules : EnableRead(s) \/ DeleteRead(s)
                 \/ \E c \in calls : EnableProgress(c) \/ EnableSwitch(c) \/ DeleteSchedule(c)
                 \/ \E r \in Resources : Submitted(r) \/ OperationEnds(r)
                 \/ Start
          PROVE  UNCHANGED goroutine
      BY <3>6 DEF EnableRead, DeleteRead, EnableProgress, EnableSwitch, DeleteSchedule,
                  Submitted, OperationEnds, Start
    <3> QED BY <2>7, <3>2, <3>3, <3>4, <3>5, <3>6 DEF Quiet
  <2> QED BY <1>2, <2>1, <2>2, <2>3, <2>4, <2>5, <2>6, <2>7, Steps DEF TInv
<1> QED BY <1>1, <1>2

\* The tables, the goroutine and the calls keep their types.
THEOREM SchedulerInvariant == Spec => []TInv
<1> QED BY TInit, TNext, PTL DEF Spec

\* The types of TypeOK.
THEOREM SchedulerTypes == Spec => []TypeOK
<1> QED BY SchedulerInvariant, TypesHold, PTL
-----------------------------------------------------------------------------
(* At most one operation per moment *)

DispatchedRun(s, m) == \E r \in runs : r.sched = s /\ r.for = m /\ r.result = "dispatched"

\* A schedule that was never created fired nothing; a run belongs to a schedule that is
\* there (the foreign key of schedule_runs).
OnceOK(s) == \A m \in Times :
  /\ fired[s][m] \in {0, 1}
  /\ rows[s] = Absent => fired[s][m] = 0
  /\ Present(s) => (fired[s][m] = 1 <=> DispatchedRun(s, m))
OnceInv ==
  /\ \A s \in Schedules : OnceOK(s)
  /\ \A r \in runs : Present(r.sched)

\* Of the rows only progress and flags changed.
LEMMA OnceStays ==
  ASSUME OnceInv, UNCHANGED <<runs, fired>>,
         \A s \in Schedules : rows'[s] = rows[s] \/ (Present(s) /\ Present(s)'),
         \A r \in runs : r.sched \in Schedules, RowsType, RowsType'
  PROVE  OnceInv'
<1>1. ASSUME NEW s \in Schedules PROVE (Present(s)' <=> Present(s)) /\ (rows'[s] = Absent <=> rows[s] = Absent)
  <2>1. rows'[s] = rows[s] \/ (Present(s) /\ Present(s)')
    OBVIOUS
  <2>2. (Present(s) => rows[s] # Absent) /\ (Present(s)' => rows'[s] # Absent)
    BY DEF Present, Absent
  <2> QED BY <2>1, <2>2 DEF Present
<1>2. ASSUME NEW s \in Schedules PROVE OnceOK(s)'
  BY <1>1 DEF OnceInv, OnceOK, DispatchedRun
<1>3. \A r \in runs' : Present(r.sched)'
  BY <1>1 DEF OnceInv
<1> QED BY <1>2, <1>3 DEF OnceInv

LEMMA RecordOnce ==
  ASSUME TInv, OnceInv, NEW result \in Results, Records(result)
  PROVE  OnceInv'
<1> PICK s \in Schedules : s = job.sched
  BY CurrentIs DEF TInv, Records
<1> PICK m \in Times : m = Current
  BY CurrentIs DEF TInv, Records
<1> PICK new \in RunType : new = NewRun(result)
  BY NewRunIs DEF TInv, Records
<1>0. new.sched = s /\ new.for = m /\ new.result = result
  BY NewRunIs DEF TInv, Records
<1>1. /\ Present(s) /\ rows' = rows /\ runs' = runs \cup {new}
      /\ ~\E r \in runs : r.sched = s /\ r.for = m
      /\ fired' = IF result = "dispatched" THEN [fired EXCEPT ![s][m] = fired[s][m] + 1] ELSE fired
  BY DEF Records, Recorded
<1>2. fired \in [Schedules -> [Times -> Nat]]
  BY DEF TInv, RunsType
<1>3. ~DispatchedRun(s, m) /\ fired[s][m] = 0
  <2>1. ~DispatchedRun(s, m)
    BY <1>1 DEF DispatchedRun
  <2> QED BY <1>1, <2>1 DEF OnceInv, OnceOK
<1>4. /\ fired'[s][m] = IF result = "dispatched" THEN 1 ELSE 0
      /\ \A x \in Schedules, n \in Times : x # s \/ n # m => fired'[x][n] = fired[x][n]
  <2>1. CASE result # "dispatched"
    BY <1>1, <1>3, <2>1
  <2>2. CASE result = "dispatched"
    <3>1. fired' = [fired EXCEPT ![s] = [fired[s] EXCEPT ![m] = 1]]
      BY <1>1, <1>3, <2>2
    <3> QED BY <1>2, <2>2, <3>1
  <2> QED BY <2>1, <2>2
<1>5. ASSUME NEW x \in Schedules, NEW n \in Times
      PROVE  DispatchedRun(x, n)' <=> DispatchedRun(x, n) \/ (x = s /\ n = m /\ result = "dispatched")
  <2>1. \A r : r \in runs' <=> r \in runs \/ r = new
    BY <1>1
  <2> QED BY <1>0, <2>1 DEF DispatchedRun
<1>6. ASSUME NEW x \in Schedules PROVE OnceOK(x)'
  <2> SUFFICES ASSUME NEW n \in Times
               PROVE  /\ fired'[x][n] \in {0, 1}
                      /\ rows'[x] = Absent => fired'[x][n] = 0
                      /\ Present(x)' => (fired'[x][n] = 1 <=> DispatchedRun(x, n)')
    BY DEF OnceOK
  <2>1. /\ fired[x][n] \in {0, 1}
        /\ rows[x] = Absent => fired[x][n] = 0
        /\ Present(x) => (fired[x][n] = 1 <=> DispatchedRun(x, n))
    BY DEF OnceInv, OnceOK
  <2>2. Present(x)' <=> Present(x)
    BY <1>1 DEF Present
  <2>3. CASE x # s \/ n # m
    BY <1>1, <1>4, <1>5, <2>1, <2>2, <2>3
  <2>4. CASE x = s /\ n = m
    <3>1. rows'[x] # Absent
      BY <1>1, <2>4 DEF Present, Absent
    <3> QED BY <1>3, <1>4, <1>5, <2>4, <3>1
  <2> QED BY <2>3, <2>4
<1>7. \A r \in runs' : Present(r.sched)'
  BY <1>0, <1>1 DEF OnceInv, Present
<1> QED BY <1>6, <1>7 DEF OnceInv

LEMMA CreateOnce ==
  ASSUME TInv, OnceInv, NEW s \in Schedules, Creates(s)
  PROVE  OnceInv'
<1>1. RowsType' /\ RowsOther(s) /\ rows[s] = Absent /\ rows'[s] \in Row
  BY CreateRow DEF Creates
<1>2. runs' = runs /\ fired' = fired
  BY DEF Creates, Create
<1>3. Present(s)' /\ ~Present(s) /\ rows'[s] # Absent
  <2>1. Absent.state = "absent" /\ rows'[s].state = "present"
    BY <1>1 DEF Absent, Row
  <2> QED BY <1>1, <2>1 DEF Present
<1>4. \A r \in runs : r.sched # s
  BY <1>3 DEF OnceInv
<1>5. OnceOK(s)'
  BY <1>1, <1>2, <1>3, <1>4 DEF OnceInv, OnceOK, DispatchedRun
<1>6. \A x \in Schedules \ {s} : OnceOK(x)'
  BY <1>1, <1>2 DEF OnceInv, OnceOK, DispatchedRun, RowsOther, Present
<1>7. \A r \in runs' : Present(r.sched)'
  BY <1>1, <1>2, <1>4 DEF OnceInv, RowsOther, Present, TInv, RunsType, RunType
<1> QED BY <1>5, <1>6, <1>7 DEF OnceInv

LEMMA DeleteOnce ==
  ASSUME TInv, OnceInv, NEW c \in calls, DeleteSchedule(c), Present(c.sched)
  PROVE  OnceInv'
<1> PICK s \in Schedules : s = c.sched
  BY DeleteRow
<1>1. /\ RowsOther(s) /\ rows'[s] = Gone /\ runs' = {r \in runs : r.sched # s}
      /\ fired' = fired
  BY DeleteRow DEF DeleteSchedule
<1>2. ~Present(s)' /\ rows'[s] # Absent
  BY <1>1 DEF Present, Gone, Absent
<1>3. OnceOK(s)'
  BY <1>1, <1>2 DEF OnceInv, OnceOK
<1>4. ASSUME NEW x \in Schedules \ {s} PROVE OnceOK(x)'
  <2>1. \A m \in Times : DispatchedRun(x, m)' <=> DispatchedRun(x, m)
    BY <1>1 DEF DispatchedRun
  <2>2. rows'[x] = rows[x]
    BY <1>1 DEF RowsOther
  <2> QED BY <1>1, <2>1, <2>2 DEF OnceInv, OnceOK, Present
<1>5. \A r \in runs' : Present(r.sched)'
  BY <1>1 DEF OnceInv, RowsOther, Present, TInv, RunsType, RunType
<1> QED BY <1>3, <1>4, <1>5 DEF OnceInv

LEMMA OnceNext == TInv /\ TInv' /\ OnceInv /\ [Next]_vars => OnceInv'
<1> SUFFICES ASSUME TInv, TInv', OnceInv, [Next]_vars PROVE OnceInv'
  OBVIOUS
<1>0. RowsType /\ RowsType' /\ \A r \in runs : r.sched \in Schedules
  BY DEF TInv, RunsType, RunType
<1>1. ASSUME UNCHANGED <<rows, runs, fired>> PROVE OnceInv'
  BY <1>0, <1>1, OnceStays
<1>2. CASE Next
  <2>1. ASSUME NEW s \in Schedules, Switches(s) PROVE OnceInv'
    <3>1. RowsOther(s) /\ Present(s) /\ Present(s)' /\ UNCHANGED <<runs, fired>>
      BY <1>0, <2>1, SwitchesType, PresentRow DEF Switches, Present, Row
    <3> QED BY <1>0, <3>1, OnceStays DEF RowsOther
  <2>2. ASSUME NEW c \in calls, Present(c.sched), EnableProgress(c) PROVE OnceInv'
    <3>1. /\ RowsOther(c.sched) /\ Present(c.sched)' /\ c.sched \in Schedules
          /\ UNCHANGED <<runs, fired>>
      BY <1>0, <2>2, EnableRow DEF EnableProgress, Present, Row
    <3> QED BY <1>0, <2>2, <3>1, OnceStays DEF RowsOther
  <2>3. CASE UpdateScheduleProgress
    <3> PICK s \in Schedules : s = job.sched
      BY <2>3, UpdateRow
    <3>1. RowsOther(s) /\ rows'[s] \in Row /\ Present(s) /\ UNCHANGED <<runs, fired>>
      BY <2>3, UpdateRow DEF UpdateScheduleProgress
    <3>2. Present(s)'
      BY <3>1 DEF Present, Row
    <3> QED BY <1>0, <3>1, <3>2, OnceStays DEF RowsOther
  <2> QED BY <1>1, <1>2, <2>1, <2>2, <2>3, CreateOnce, RecordOnce, DeleteOnce, QuietTables, Steps
<1>3. CASE UNCHANGED vars
  BY <1>1, <1>3 DEF vars
<1> QED BY <1>2, <1>3

LEMMA OnceInit == Init => OnceInv
<1> SUFFICES ASSUME Init PROVE OnceInv
  OBVIOUS
<1>1. \A s \in Schedules : ~Present(s) /\ \A m \in Times : fired[s][m] = 0
  BY DEF Init, Present, Absent
<1> QED BY <1>1 DEF Init, OnceInv, OnceOK

\* The invariant of the runs, the operations and the rows they belong to.
THEOREM OnceInvariant == Spec => []OnceInv
<1> QED BY OnceInit, OnceNext, SchedulerInvariant, PTL DEF Spec

\* A moment of a schedule creates at most one operation, over restarts in the middle of a
\* tick and over the rewinding of next_run_at, and its run says so (DispatchScheduledRun).
THEOREM FiresAtMostOnce == Spec => []OneOperationPerMoment
<1>1. OnceInv => OneOperationPerMoment
  BY DEF OnceInv, OnceOK, DispatchedRun, OneOperationPerMoment
<1> QED BY <1>1, OnceInvariant, PTL
\* A deleted schedule creates no operation and leaves no run behind, though a tick may still
\* be working through its moments (ON DELETE CASCADE, the foreign key of schedule_runs).
THEOREM DeletedFiresNothing == Spec => DeletedStaysSilent
<1> DEFINE Silent == \A s \in Schedules :
             rows[s] = Gone => fired'[s] = fired[s] /\ \A r \in runs' : r.sched # s
<1>1. TInv /\ OnceInv /\ OnceInv' /\ [Next]_vars => [Silent]_vars
  <2> SUFFICES ASSUME TInv, OnceInv, OnceInv', Next, NEW s \in Schedules, rows[s] = Gone
               PROVE  fired'[s] = fired[s] /\ \A r \in runs' : r.sched # s
    OBVIOUS
  <2>0. ~Present(s) /\ \A r \in runs : r.sched # s
    <3>1. ~Present(s)
      BY DEF Present, Gone
    <3> QED BY <3>1 DEF OnceInv
  <2>1. CASE fired' = fired /\ runs' \subseteq runs
    BY <2>0, <2>1
  <2>2. ASSUME NEW result \in Results, Records(result)
        PROVE  fired'[s] = fired[s] /\ \A r \in runs' : r.sched # s
    <3>1. /\ job.sched # s /\ NewRun(result).sched = job.sched
          /\ runs' = runs \cup {NewRun(result)}
      BY <2>0, <2>2 DEF Records, NewRun
    <3>2. fired'[s] = fired[s]
      BY <2>2, <3>1 DEF Records, TInv, RunsType
    <3> QED BY <2>0, <3>1, <3>2
  <2>3. ASSUME \/ \E x \in Schedules : Creates(x) \/ Switches(x)
               \/ \E c \in calls : EnableProgress(c) \/ DeleteSchedule(c)
               \/ UpdateScheduleProgress
               \/ Quiet
        PROVE  fired' = fired /\ runs' \subseteq runs
    BY <2>3, QuietTables DEF Creates, Create, Switches, EnableProgress, DeleteSchedule,
                             UpdateScheduleProgress
  <2> QED BY <2>1, <2>2, <2>3, Steps
<1> QED BY <1>1, OnceInvariant, SchedulerInvariant, PTL DEF Spec, DeletedStaysSilent
-----------------------------------------------------------------------------
(* The moment that is run *)

\* No tick finds more moments due than it looks at (maxScheduledMoments).
NeverFarBehind ==
  \A s \in DOMAIN listed : tickNow < listed[s].next + MaxMoments * Period

\* Less than a period has passed since the moment a job picks, and since the one of a run.
LatestInv ==
  /\ pc = "moment" => \A m \in job.pick : tickNow < m + Period
  /\ \A r \in runs : r.result # "missed" => r.at < r.for + Period

LEMMA LatestStays ==
  ASSUME LatestInv, runs' \subseteq runs,
         pc' = "moment" => pc = "moment" /\ tickNow' = tickNow /\ job'.pick = job.pick
  PROVE  LatestInv'
  BY DEF LatestInv

LEMMA LatestNext == TInv /\ NeverFarBehind /\ LatestInv /\ [Next]_vars => LatestInv'
<1> SUFFICES ASSUME TInv, NeverFarBehind, LatestInv, [Next]_vars PROVE LatestInv'
  OBVIOUS
<1>0. TickType
  BY DEF TInv
<1>1. CASE UNCHANGED vars
  BY <1>1, LatestStays DEF vars
<1>2. ASSUME NEW result \in Results, Records(result) PROVE LatestInv'
  <2>1. /\ NewRun(result).for = Current /\ NewRun(result).result = result
        /\ NewRun(result).at = tickNow
    BY <1>0, <1>2, NewRunIs DEF Records
  <2>2. result # "missed" => tickNow < Current + Period
    BY <1>2 DEF LatestInv, Records, AtMoment
  <2>3. job'.pick = job.pick
    BY <1>0, <1>2, MomentDoneIs DEF Records
  <2>4. \A r \in runs' : r.result # "missed" => r.at < r.for + Period
    BY <1>2, <2>1, <2>2 DEF LatestInv, Records
  <2> QED BY <1>2, <2>3, <2>4 DEF LatestInv, Records
<1>3. ASSUME NEW s \in DOMAIN listed, Due(s) PROVE LatestInv'
  <2>1. /\ s \in Schedules /\ listed[s] \in Row /\ listed[s].next <= tickNow
        /\ tickNow \in 0..Horizon /\ job' = JobOf(s, listed[s])
        /\ tickNow' = tickNow /\ runs' = runs
    BY <1>0, <1>3 DEF TickType, Due
  <2>2. tickNow < listed[s].next + MaxMoments * Period
    BY DEF NeverFarBehind
  <2>3. \A m \in job'.pick : tickNow < m + Period
    BY <2>1, <2>2, JobIs
  <2> QED BY <2>1, <2>3 DEF LatestInv
<1>4. CASE AlreadyHandled
  <2>1. job.result \in Results \cup {""} /\ MomentDone(job.result)
    BY <1>0, <1>4 DEF TickType, JobType, AlreadyHandled
  <2>2. job'.pick = job.pick
    BY <1>0, <2>1, MomentDoneIs
  <2> QED BY <1>4, <2>2, LatestStays DEF AlreadyHandled
<1>5. ASSUME \/ \E s \in Schedules : Creates(s) \/ Switches(s)
             \/ \E c \in calls : EnableProgress(c) \/ DeleteSchedule(c)
             \/ UpdateScheduleProgress
             \/ Quiet /\ ~AlreadyHandled /\ ~\E s \in DOMAIN listed : Due(s)
      PROVE  LatestInv'
  <2>1. runs' \subseteq runs
    BY <1>5, QuietTables DEF Creates, Create, Switches, EnableProgress, DeleteSchedule,
                             UpdateScheduleProgress
  <2>2. pc' = "moment" => pc = "moment" /\ tickNow' = tickNow /\ job' = job
    BY <1>5 DEF Creates, Create, Switches, EnableProgress, DeleteSchedule, goroutine,
                UpdateScheduleProgress, Quiet, EnableRead, DeleteRead, EnableSwitch, Arm, Tick,
                TickDone, ScheduleGone, NotDue, Submitted, OperationEnds, Clock, Exit, Start
  <2> QED BY <2>1, <2>2, LatestStays
<1> QED BY <1>1, <1>2, <1>3, <1>4, <1>5, Steps

\* What a tick runs, on time or catching up, is the latest moment that was due, as long as no
\* tick finds a schedule more than MaxMoments behind (chooseDispatchedMoments, DueMoments).
THEOREM TickRunsTheLatest == Spec /\ []NeverFarBehind => []RunsTheLatestMoment
<1>1. Init => LatestInv
  BY DEF Init, LatestInv
<1>2. TInv /\ LatestInv => RunsTheLatestMoment
  <2> SUFFICES ASSUME TInv, LatestInv, NEW r \in runs, r.result # "missed"
               PROVE  r.for + Period > r.at
    BY DEF RunsTheLatestMoment
  <2>1. r.at < r.for + Period
    BY DEF LatestInv
  <2>2. r.for \in Times /\ r.at \in 0..Horizon
    BY DEF TInv, RunsType, RunType
  <2>3. r.for \in Nat /\ r.at \in Nat /\ Period \in Nat
    BY <2>2, TimesAre, LimitAssumption, PeriodAssumption
  <2> QED BY <2>1, <2>3
<1> QED BY <1>1, <1>2, LatestNext, SchedulerInvariant, PTL DEF Spec
-----------------------------------------------------------------------------
(* No moment is lost *)

\* The schedule has a run of every moment it accounts for that is before a time.
Told(s, upto) == \A m \in Times : Grid(m) /\ m >= since[s] /\ m < upto => Recorded(s, m)
Cron(s) == Present(s) /\ rows[s].trigger = "cron"

\* So it is of the moment a row waits for, and of the moment of every run it has, ...
RowTold(s) ==
  Cron(s) => /\ Grid(rows[s].next) /\ Told(s, rows[s].next)
             /\ \A r \in runs : r.sched = s => Told(s, r.for)
\* ... also for the row as a tick listed it, however old that is; ...
ListedTold(s) ==
  /\ rows[s] # Absent
  /\ Present(s) => listed[s].trigger = rows[s].trigger
  /\ Cron(s) => Grid(listed[s].next) /\ Told(s, listed[s].next)
\* ... what a job has not done it has on its list; ...
JobTold(s) ==
  /\ rows[s] # Absent
  /\ Cron(s) =>
       /\ Grid(job.next) /\ \A m \in job.left : m < job.next
       /\ \A m \in Times : Grid(m) /\ m >= since[s] /\ m < job.next =>
            m \in job.left \/ Recorded(s, m)
\* ... and an enable request moves the row to a moment of the schedule.
CallTold(c) ==
  /\ rows[c.sched] # Absent
  /\ Cron(c.sched) /\ c.what = "enable" => Grid(c.next)
ToldInv ==
  /\ \A s \in Schedules : RowTold(s)
  /\ \A s \in DOMAIN listed : ListedTold(s)
  /\ pc = "moment" => JobTold(job.sched)
  /\ \A c \in calls : CallTold(c)

\* What a step does to a schedule that is there or was: it does not come back, it stays of
\* its kind, accounts for no earlier moments and keeps its runs.
Ages(s) ==
  rows[s] # Absent =>
    /\ rows'[s] # Absent
    /\ Present(s)' => /\ Present(s) /\ rows'[s].trigger = rows[s].trigger
                      /\ since'[s] >= since[s]
                      /\ \A m : Recorded(s, m) => Recorded(s, m)'

LEMMA AgesHold ==
  ASSUME TInv, TInv', [Next]_vars, NEW s \in Schedules
  PROVE  Ages(s)
<1>0. RowsType /\ RowsType' /\ since[s] \in Nat /\ since[s] >= since[s]
  BY DEF TInv, RowsType
<1>1. ASSUME rows'[s] = rows[s], since'[s] = since[s], \A r \in runs : r.sched = s => r \in runs'
      PROVE  Ages(s)
  BY <1>0, <1>1 DEF Ages, Present, Recorded
<1>2. ASSUME rows'[s] \in Row, Present(s), rows'[s].trigger = rows[s].trigger,
             since'[s] >= since[s], runs' = runs
      PROVE  Ages(s)
  <2>1. rows'[s] # Absent
    BY <1>0, <1>2, PresentRow
  <2> QED BY <1>2, <2>1 DEF Ages, Recorded
<1>3. ASSUME NEW x \in Schedules, Creates(x) PROVE Ages(s)
  <2>1. /\ RowsOther(x) /\ rows[x] = Absent /\ (\A y \in Schedules \ {x} : since'[y] = since[y])
        /\ runs' = runs
    BY <1>3, CreateRow DEF Creates, Create
  <2>2. CASE s = x
    BY <2>1, <2>2 DEF Ages
  <2>3. CASE s # x
    BY <1>1, <2>1, <2>3 DEF RowsOther
  <2> QED BY <2>2, <2>3
<1>4. ASSUME NEW x \in Schedules, Switches(x) PROVE Ages(s)
  <2>1. /\ RowsOther(x) /\ rows'[x] \in Row /\ rows'[x].trigger = rows[x].trigger
        /\ since' = since /\ runs' = runs /\ Present(x)
    BY <1>4, SwitchesType DEF Switches
  <2> QED BY <1>0, <1>1, <1>2, <2>1 DEF RowsOther
<1>5. ASSUME NEW c \in calls, Present(c.sched), EnableProgress(c) PROVE Ages(s)
  <2>1. /\ RowsOther(c.sched) /\ rows'[c.sched] \in Row
        /\ rows'[c.sched].trigger = rows[c.sched].trigger
        /\ since'[c.sched] >= since[c.sched] /\ runs' = runs
        /\ \A x \in Schedules \ {c.sched} : since'[x] = since[x]
    BY <1>5, EnableRow DEF EnableProgress
  <2>2. CASE s = c.sched
    BY <1>2, <1>5, <2>1, <2>2
  <2>3. CASE s # c.sched
    BY <1>1, <2>1, <2>3 DEF RowsOther
  <2> QED BY <2>2, <2>3
<1>6. ASSUME NEW c \in calls, Present(c.sched), DeleteSchedule(c) PROVE Ages(s)
  <2>1. /\ RowsOther(c.sched) /\ rows'[c.sched] = Gone /\ since' = since
        /\ runs' = {r \in runs : r.sched # c.sched}
    BY <1>6, DeleteRow
  <2>2. CASE s = c.sched
    BY <1>0, <2>1, <2>2, PresentRow DEF Ages, Present, Gone, Absent
  <2>3. CASE s # c.sched
    BY <1>1, <2>1, <2>3 DEF RowsOther
  <2> QED BY <2>2, <2>3
<1>7. ASSUME NEW result \in Results, Records(result) PROVE Ages(s)
  BY <1>1, <1>7 DEF Records
<1>8. CASE UpdateScheduleProgress
  <2>1. /\ RowsOther(job.sched) /\ rows'[job.sched] \in Row /\ Present(job.sched)
        /\ rows'[job.sched].trigger = rows[job.sched].trigger
        /\ since' = since /\ runs' = runs
    BY <1>8, UpdateRow DEF UpdateScheduleProgress
  <2> QED BY <1>0, <1>1, <1>2, <2>1 DEF RowsOther
<1>9. CASE Quiet \/ UNCHANGED vars
  BY <1>1, <1>9, QuietTables DEF vars
<1> QED BY <1>3, <1>4, <1>5, <1>6, <1>7, <1>8, <1>9, Steps

LEMMA ToldAges ==
  ASSUME TInv, TInv', [Next]_vars, NEW s \in Schedules, rows[s] # Absent, Cron(s)'
  PROVE  /\ Cron(s) /\ rows'[s].trigger = rows[s].trigger
         /\ \A m \in Times : m >= since'[s] => m >= since[s]
         /\ \A m : Recorded(s, m) => Recorded(s, m)'
         /\ \A u : Told(s, u) => Told(s, u)'
<1>1. /\ Present(s) /\ rows'[s].trigger = rows[s].trigger /\ since'[s] >= since[s]
      /\ \A m : Recorded(s, m) => Recorded(s, m)'
  BY AgesHold DEF Ages, Cron
<1>2. since[s] \in Nat /\ since'[s] \in Nat /\ \A m \in Times : m \in Nat
  BY TimesAre DEF TInv, RowsType
<1>3. \A m \in Times : m >= since'[s] => m >= since[s]
  BY <1>1, <1>2
<1>4. ASSUME NEW u, Told(s, u) PROVE Told(s, u)'
  BY <1>1, <1>3, <1>4 DEF Told
<1> QED BY <1>1, <1>3, <1>4 DEF Cron

\* A row that a tick listed stays true to the table while that grows older; ...
LEMMA ListedStays ==
  ASSUME TInv, TInv', [Next]_vars, NEW s \in Schedules, s \in DOMAIN listed, ListedTold(s),
         s \in DOMAIN listed', listed'[s] = listed[s]
  PROVE  ListedTold(s)'
<1>1. rows'[s] # Absent /\ (Present(s)' => Present(s) /\ rows'[s].trigger = rows[s].trigger)
  BY AgesHold DEF Ages, ListedTold
<1>2. ASSUME Cron(s)' PROVE (Grid(listed[s].next) /\ Told(s, listed[s].next))'
  <2> PICK n : n = listed[s].next
    OBVIOUS
  <2>1. Cron(s) /\ (Told(s, n) => Told(s, n)')
    BY <1>2, ToldAges DEF ListedTold
  <2>2. Told(s, n)'
    BY <2>1 DEF ListedTold
  <2> QED BY <2>1, <2>2 DEF ListedTold, Told
<1> QED BY <1>1, <1>2 DEF ListedTold

LEMMA ListedNext ==
  ASSUME TInv, TInv', ToldInv, [Next]_vars
  PROVE  \A s \in DOMAIN listed' : ListedTold(s)'
<1>0. RowsType /\ DOMAIN listed \subseteq Schedules /\ \A s \in DOMAIN listed : ListedTold(s)
  BY DEF TInv, TickType, ToldInv
<1>1. CASE Tick
  <2> SUFFICES ASSUME NEW s \in EnabledRows PROVE ListedTold(s)'
    BY <1>1 DEF Tick
  <2>1. /\ s \in Schedules /\ Present(s) /\ rows[s] # Absent
        /\ UNCHANGED <<rows, runs, since>> /\ listed'[s] = rows[s]
    BY <1>0, <1>1, PresentRow DEF EnabledRows, Tick
  <2>2. RowTold(s)
    BY <2>1 DEF ToldInv
  <2>3. Cron(s)' => Grid(rows[s].next) /\ Told(s, rows[s].next)
    BY <2>1, <2>2 DEF RowTold, Cron, Present
  <2> QED BY <2>1, <2>3 DEF ListedTold, Cron, Present, Told, Recorded
<1>2. ASSUME NEW x \in DOMAIN listed, NotDue(x) \/ Due(x), NEW s \in DOMAIN listed'
      PROVE  ListedTold(s)'
  <2>1. s \in DOMAIN listed /\ listed'[s] = listed[s]
    BY <1>2 DEF NotDue, Due, Without
  <2> QED BY <1>0, <1>2, <2>1, ListedStays
<1>3. CASE Exit
  <2>1. DOMAIN listed' = {}
    BY <1>3 DEF Exit
  <2> QED BY <2>1
<1>4. ASSUME listed' = listed PROVE \A s \in DOMAIN listed' : ListedTold(s)'
  BY <1>0, <1>4, ListedStays
<1>5. ASSUME Next, ~Tick, ~Exit, ~\E x \in DOMAIN listed : NotDue(x) \/ Due(x)
      PROVE  listed' = listed
  <2>1. ASSUME Quiet PROVE listed' = listed
    BY <1>5, <2>1 DEF Quiet, EnableRead, DeleteRead, EnableProgress, EnableSwitch, DeleteSchedule,
       goroutine, Arm, TickDone, AlreadyHandled, ScheduleGone, Submitted, OperationEnds, Clock, Start
  <2>2. ASSUME ~Quiet PROVE listed' = listed
    BY <1>5, <2>2, Steps DEF Creates, Create, Switches, EnableProgress, DeleteSchedule, goroutine,
       Records, UpdateScheduleProgress
  <2> QED BY <2>1, <2>2
<1> QED BY <1>1, <1>2, <1>3, <1>4, <1>5 DEF vars

\* ... so does a job that does not go on, ...
LEMMA JobStays ==
  ASSUME TInv, TInv', ToldInv, [Next]_vars, pc = "moment", job'.sched = job.sched,
         job'.next = job.next, job'.left \subseteq job.left,
         \A m \in job.left \ job'.left : Recorded(job.sched, m)'
  PROVE  JobTold(job.sched)'
<1> PICK s \in Schedules : s = job.sched
  BY DEF TInv, TickType
<1>0. JobTold(s)
  BY DEF ToldInv
<1>1. rows'[s] # Absent
  BY <1>0, AgesHold DEF Ages, JobTold
<1>2. ASSUME Cron(s)'
      PROVE  /\ Grid(job'.next) /\ \A m \in job'.left : m < job'.next
             /\ \A m \in Times : Grid(m) /\ m >= since'[s] /\ m < job'.next =>
                  m \in job'.left \/ Recorded(s, m)'
  <2>1. /\ Cron(s) /\ \A m \in Times : m >= since'[s] => m >= since[s]
        /\ \A m : Recorded(s, m) => Recorded(s, m)'
    BY <1>0, <1>2, ToldAges DEF JobTold
  <2> QED BY <1>0, <2>1 DEF JobTold
<1> QED BY <1>1, <1>2 DEF JobTold

\* ... and a job that begins has every moment on its list that the row does not account for.
LEMMA JobBegins ==
  ASSUME TInv, TInv', ToldInv, NeverFarBehind, NEW s \in DOMAIN listed, Due(s)
  PROVE  JobTold(job.sched)'
<1>1. /\ s \in Schedules /\ listed[s] \in Row /\ listed[s].next <= tickNow
      /\ tickNow \in 0..Horizon /\ job' = JobOf(s, listed[s])
      /\ UNCHANGED <<rows, runs, since>> /\ ListedTold(s)
  BY DEF Due, TInv, TickType, ToldInv
<1>2. tickNow < listed[s].next + MaxMoments * Period
  BY DEF NeverFarBehind
<1> PICK new \in JobType : new = JobOf(s, listed[s])
  BY <1>1, JobIs
<1>3. /\ new.sched = s /\ \A m \in new.left : m < new.next
      /\ listed[s].trigger = "cron" => Grid(new.next)
      /\ listed[s].trigger = "cron" /\ Grid(listed[s].next) =>
           \A m \in Nat : Grid(m) /\ listed[s].next <= m /\ m < new.next => m \in new.left
  BY <1>1, <1>2, JobIs
<1>4. ASSUME Cron(s)
      PROVE  /\ Grid(new.next) /\ \A m \in new.left : m < new.next
             /\ \A m \in Times : Grid(m) /\ m >= since[s] /\ m < new.next =>
                  m \in new.left \/ Recorded(s, m)
  <2>1. listed[s].trigger = "cron" /\ Grid(listed[s].next) /\ Told(s, listed[s].next)
    BY <1>1, <1>4 DEF ListedTold, Cron
  <2>2. \A m \in new.left : m < new.next
    BY <1>3
  <2>3. ASSUME NEW m \in Times, Grid(m), m >= since[s], m < new.next
        PROVE  m \in new.left \/ Recorded(s, m)
    <3>1. m \in Nat /\ listed[s].next \in Nat
      BY <1>1, TimesAre DEF Row
    <3>2. CASE m < listed[s].next
      BY <2>1, <2>3, <3>2 DEF Told
    <3>3. CASE listed[s].next <= m
      BY <1>3, <2>1, <2>3, <3>1, <3>3
    <3> QED BY <3>1, <3>2, <3>3
  <2> QED BY <1>3, <2>1, <2>2, <2>3
<1> QED BY <1>1, <1>3, <1>4 DEF JobTold, ListedTold, Cron, Present, Recorded

LEMMA JobNext ==
  ASSUME TInv, TInv', ToldInv, NeverFarBehind, [Next]_vars, pc' = "moment"
  PROVE  JobTold(job.sched)'
<1>0. TickType
  BY DEF TInv
<1>1. ASSUME NEW s \in DOMAIN listed, Due(s) PROVE JobTold(job.sched)'
  BY <1>1, JobBegins
<1>2. CASE AlreadyHandled
  <2>1. job.result \in Results \cup {""} /\ MomentDone(job.result)
    BY <1>0, <1>2 DEF TickType, JobType, AlreadyHandled
  <2>2. job'.sched = job.sched /\ job'.next = job.next /\ job'.left = job.left \ {Current}
    BY <1>0, <2>1, MomentDoneIs
  <2>3. pc = "moment" /\ runs' = runs /\ Recorded(job.sched, Current)
    BY <1>2 DEF AlreadyHandled, AtMoment
  <2>4. \A m \in job.left \ job'.left : Recorded(job.sched, m)'
    BY <2>2, <2>3 DEF Recorded
  <2> QED BY <2>2, <2>3, <2>4, JobStays
<1>3. ASSUME NEW result \in Results, Records(result) PROVE JobTold(job.sched)'
  <2>1. job'.sched = job.sched /\ job'.next = job.next /\ job'.left = job.left \ {Current}
    BY <1>0, <1>3, MomentDoneIs DEF Records
  <2>2. /\ pc = "moment" /\ NewRun(result) \in runs'
        /\ NewRun(result).sched = job.sched /\ NewRun(result).for = Current
    BY <1>0, <1>3, NewRunIs DEF Records, AtMoment
  <2>3. \A m \in job.left \ job'.left : Recorded(job.sched, m)'
    BY <2>1, <2>2 DEF Recorded
  <2> QED BY <2>1, <2>2, <2>3, JobStays
<1>4. ASSUME pc = "moment", job' = job PROVE JobTold(job.sched)'
  BY <1>4, JobStays
<1>5. ASSUME Next, ~AlreadyHandled, ~\E s \in DOMAIN listed : Due(s),
             ~\E result \in Results : Records(result)
      PROVE  pc = "moment" /\ job' = job
  <2>1. ASSUME Quiet PROVE pc = "moment" /\ job' = job
    BY <1>5, <2>1 DEF Quiet, EnableRead, DeleteRead, EnableProgress, EnableSwitch, DeleteSchedule,
       goroutine, Arm, Tick, TickDone, ScheduleGone, NotDue, Submitted, OperationEnds, Clock, Exit,
       Start
  <2>2. ASSUME ~Quiet PROVE pc = "moment" /\ job' = job
    BY <1>5, <2>2, Steps DEF Creates, Create, Switches, EnableProgress, DeleteSchedule, goroutine,
       UpdateScheduleProgress
  <2> QED BY <2>1, <2>2
<1> QED BY <1>1, <1>2, <1>3, <1>4, <1>5 DEF vars

\* A request that began goes on as it began, or is new.
LEMMA CallsOf ==
  ASSUME TInv, [Next]_vars, NEW d \in calls', ~(d \in calls)
  PROVE  \/ d.what # "enable" /\ \E c \in calls : d.sched = c.sched
         \/ d.what # "enable" /\ Present(d.sched) /\ rows' = rows
         \/ /\ d.sched \in Schedules /\ Present(d.sched) /\ rows' = rows
            /\ d.next = NextMoment(rows[d.sched].trigger, now)
<1>1. ASSUME NEW s \in Schedules, EnableRead(s) \/ DeleteRead(s)
      PROVE  \/ d.what # "enable" /\ Present(d.sched) /\ rows' = rows
             \/ /\ d.sched \in Schedules /\ Present(d.sched) /\ rows' = rows
                /\ d.next = NextMoment(rows[d.sched].trigger, now)
  <2>1. CASE EnableRead(s)
    <3>1. d = [sched |-> s, what |-> "enable", next |-> NextMoment(rows[s].trigger, now),
               result |-> rows[s].result]
      BY <2>1 DEF EnableRead
    <3>2. d.sched = s /\ d.next = NextMoment(rows[s].trigger, now)
      BY <3>1
    <3> QED BY <2>1, <3>2 DEF EnableRead
  <2>2. CASE DeleteRead(s)
    <3>1. d = [sched |-> s, what |-> "delete", next |-> 0, result |-> ""]
      BY <2>2 DEF DeleteRead
    <3>2. d.sched = s /\ d.what # "enable"
      BY <3>1
    <3> QED BY <2>2, <3>2 DEF DeleteRead
  <2> QED BY <1>1, <2>1, <2>2
<1>2. ASSUME NEW c \in calls, EnableProgress(c)
      PROVE  d.what # "enable" /\ \E e \in calls : d.sched = e.sched
  <2>1. c \in CallType
    BY DEF TInv, RestType
  <2>2. d = [c EXCEPT !.what = "switchOn"]
    BY <1>2 DEF EnableProgress
  <2>3. d.what = "switchOn" /\ d.sched = c.sched
    BY <2>1, <2>2 DEF CallType
  <2> QED BY <2>3
<1>3. ASSUME Next, ~\E s \in Schedules : EnableRead(s) \/ DeleteRead(s),
             ~\E c \in calls : EnableProgress(c)
      PROVE  calls' \subseteq calls
  <2>1. ASSUME Quiet PROVE calls' \subseteq calls
    BY <1>3, <2>1 DEF Quiet, EnableSwitch, DeleteSchedule, Arm, Tick, TickDone, AlreadyHandled,
       ScheduleGone, NotDue, Due, Submitted, OperationEnds, Clock, Exit, Start
  <2>2. ASSUME ~Quiet PROVE calls' \subseteq calls
    <3>1. CASE \E s \in Schedules : Creates(s)
      BY <3>1 DEF Creates, Create
    <3>2. CASE Request \/ Answer
      BY <1>3, <3>1, <3>2 DEF Request, Answer, Creates, Disable, EnableSwitch, DeleteSchedule
    <3>3. CASE Goroutine
      BY <2>2, <3>3 DEF Goroutine, Quiet, RecordMissedRun, DispatchScheduledRun,
         UpdateScheduleProgress
    <3> QED BY <1>3, <2>2, <3>2, <3>3 DEF Next, Quiet
  <2> QED BY <2>1, <2>2
<1> QED BY <1>1, <1>2, <1>3 DEF vars

LEMMA CallNext ==
  ASSUME TInv, TInv', ToldInv, [Next]_vars, NEW d \in calls'
  PROVE  CallTold(d)'
<1>0. /\ RowsType /\ d.sched \in Schedules /\ now \in 0..Horizon
      /\ \A c \in calls : c.sched \in Schedules /\ CallTold(c)
  BY DEF TInv, RestType, CallType, ToldInv
<1>1. ASSUME rows[d.sched] # Absent PROVE rows'[d.sched] # Absent
  BY <1>0, <1>1, AgesHold DEF Ages
<1>2. CASE d \in calls
  <2>1. Cron(d.sched)' => Cron(d.sched)
    BY <1>0, <1>2, ToldAges DEF CallTold
  <2> QED BY <1>0, <1>1, <1>2, <2>1 DEF CallTold
<1>3. CASE d.what # "enable" /\ \E c \in calls : d.sched = c.sched
  BY <1>0, <1>1, <1>3 DEF CallTold
<1>4. CASE d.what # "enable" /\ Present(d.sched) /\ rows' = rows
  BY <1>0, <1>4, PresentRow DEF CallTold
<1>5. CASE /\ Present(d.sched) /\ rows' = rows
           /\ d.next = NextMoment(rows[d.sched].trigger, now)
  <2>1. rows[d.sched] # Absent /\ rows[d.sched] \in Row /\ now \in Nat
    BY <1>0, <1>5, PresentRow, LimitAssumption
  <2>2. rows[d.sched].trigger \in {"cron", "interval"}
    BY <2>1 DEF Row
  <2>3. rows[d.sched].trigger = "cron" => Grid(d.next)
    BY <1>5, <2>1, <2>2, NextMomentIs
  <2> QED BY <1>5, <2>1, <2>3 DEF CallTold, Cron
<1> QED BY <1>2, <1>3, <1>4, <1>5, CallsOf

\* A row whose next moment stays, and its runs with it.
LEMMA RowStays ==
  ASSUME TInv, TInv', ToldInv, [Next]_vars, NEW s \in Schedules, Cron(s)',
         rows[s] # Absent, rows'[s].next = rows[s].next,
         \A r \in runs' : r.sched = s => r \in runs
  PROVE  RowTold(s)'
<1>1. Cron(s) /\ \A u : Told(s, u) => Told(s, u)'
  BY ToldAges
<1>2. Grid(rows[s].next) /\ Told(s, rows[s].next) /\ \A r \in runs : r.sched = s => Told(s, r.for)
  BY <1>1 DEF ToldInv, RowTold
<1> PICK n : n = rows[s].next
  OBVIOUS
<1>3. Told(s, n)'
  BY <1>1, <1>2
<1>4. Grid(rows[s].next)' /\ Told(s, rows[s].next)'
  BY <1>2, <1>3 DEF Told
<1>5. ASSUME NEW r \in runs', r.sched = s PROVE Told(s, r.for)'
  BY <1>1, <1>2, <1>5
<1> QED BY <1>4, <1>5 DEF RowTold

\* A row whose next moment moves to one before which nothing is missing.
LEMMA RowMoves ==
  ASSUME TInv, TInv', ToldInv, [Next]_vars, NEW s \in Schedules, Cron(s)',
         rows[s] # Absent, runs' = runs, NEW n, rows'[s].next = n, Grid(n), Told(s, n)'
  PROVE  RowTold(s)'
<1>1. Cron(s) /\ \A u : Told(s, u) => Told(s, u)'
  BY ToldAges
<1>2. \A r \in runs : r.sched = s => Told(s, r.for)
  BY <1>1 DEF ToldInv, RowTold
<1>3. Grid(rows[s].next)' /\ Told(s, rows[s].next)'
  BY DEF Told
<1>4. ASSUME NEW r \in runs', r.sched = s PROVE Told(s, r.for)'
  BY <1>1, <1>2, <1>4
<1> QED BY <1>3, <1>4 DEF RowTold

LEMMA RowCreated ==
  ASSUME TInv, TInv', OnceInv, NEW s \in Schedules, Creates(s)
  PROVE  RowTold(s)'
<1>1. /\ rows[s] = Absent /\ rows'[s] \in Row /\ since'[s] = rows'[s].next /\ runs' = runs
      /\ rows'[s].trigger = "cron" => Grid(rows'[s].next)
  BY CreateRow DEF Creates, Create
<1>2. \A r \in runs' : r.sched # s
  BY <1>1, PresentRow DEF OnceInv, TInv
<1>3. rows'[s].next \in Times /\ rows'[s].next \in Nat
  BY <1>1, TimesAre DEF Row
<1>4. \A m \in Times : m \in Nat
  BY TimesAre
<1>5. Told(s, rows[s].next)'
  BY <1>1, <1>3, <1>4 DEF Told
<1> QED BY <1>1, <1>2, <1>5 DEF RowTold, Cron

LEMMA RowRecorded ==
  ASSUME TInv, TInv', ToldInv, [Next]_vars, NEW result \in Results, Records(result),
         NEW s \in Schedules, Cron(s)', rows[s] # Absent
  PROVE  RowTold(s)'
<1>0. TickType /\ rows' = rows /\ runs' = runs \cup {NewRun(result)}
  BY DEF TInv, Records
<1>1. CASE s # job.sched
  <2>1. \A r \in runs' : r.sched = s => r \in runs
    BY <1>0, <1>1, NewRunIs DEF Records
  <2> QED BY <1>0, <2>1, RowStays
<1>2. CASE s = job.sched
  <2>1. /\ NewRun(result).for = Current /\ pc = "moment" /\ Current \in job.left
        /\ Current \in Times /\ \A m \in job.left : Current <= m
    BY <1>0, NewRunIs, CurrentIs DEF Records
  <2>2. Cron(s) /\ \A u : Told(s, u) => Told(s, u)'
    BY ToldAges
  <2>3. JobTold(s)
    BY <1>2, <2>1 DEF ToldInv
  <2>4. Told(s, Current)
    <3> SUFFICES ASSUME NEW m \in Times, Grid(m), m >= since[s], m < Current
                 PROVE  Recorded(s, m)
      BY DEF Told
    <3>1. m \in Nat /\ Current \in Nat /\ job.next \in Nat
      BY <1>0, <2>1, TimesAre DEF TickType, JobType
    <3>2. ~(m \in job.left)
      BY <2>1, <3>1
    <3>3. Current < job.next
      BY <2>1, <2>2, <2>3 DEF JobTold
    <3>4. m < job.next
      BY <3>1, <3>3
    <3> QED BY <2>2, <2>3, <3>2, <3>4 DEF JobTold
  <2> PICK u : u = Current
    OBVIOUS
  <2>5. Told(s, u)'
    BY <2>2, <2>4
  <2>6. RowTold(s)
    BY DEF ToldInv
  <2>7. ASSUME NEW r \in runs', r.sched = s PROVE Told(s, r.for)'
    <3>1. CASE r \in runs
      BY <2>2, <2>6, <2>7, <3>1 DEF RowTold
    <3>2. CASE r = NewRun(result)
      BY <2>1, <2>5, <3>2
    <3> QED BY <1>0, <3>1, <3>2
  <2> PICK n : n = rows[s].next
    OBVIOUS
  <2>8. Grid(n) /\ Told(s, n)' /\ rows'[s].next = n
    BY <1>0, <2>2, <2>6 DEF RowTold
  <2> QED BY <2>7, <2>8 DEF RowTold, Told
<1> QED BY <1>1, <1>2

LEMMA RowNext ==
  ASSUME TInv, TInv', OnceInv, ToldInv, [Next]_vars, NEW s \in Schedules
  PROVE  RowTold(s)'
<1> SUFFICES ASSUME Cron(s)' PROVE RowTold(s)'
  BY DEF RowTold
<1>1. CASE rows[s] = Absent
  <2>0. rows'[s] # rows[s] /\ ~Present(s)
    BY <1>1 DEF Cron, Present, Absent
  <2>1. CASE Creates(s)
    BY <2>1, RowCreated
  <2>2. CASE UNCHANGED rows
    BY <2>0, <2>2
  <2>3. ASSUME NEW x \in Schedules, x # s, RowsOther(x) PROVE FALSE
    BY <2>0, <2>3 DEF RowsOther
  <2>4. ASSUME NEW x \in Schedules, Creates(x) PROVE RowTold(s)'
    BY <2>1, <2>3, <2>4, CreateRow DEF Creates
  <2>5. ASSUME NEW x \in Schedules, Switches(x) PROVE RowTold(s)'
    BY <2>0, <2>3, <2>5, SwitchesType DEF Switches
  <2>6. ASSUME NEW c \in calls, Present(c.sched), EnableProgress(c) \/ DeleteSchedule(c)
        PROVE  RowTold(s)'
    BY <2>0, <2>3, <2>6, EnableRow, DeleteRow
  <2>7. CASE UpdateScheduleProgress
    BY <2>0, <2>3, <2>7, UpdateRow
  <2>8. CASE Quiet \/ (\E result \in Results : Records(result)) \/ UNCHANGED vars
    BY <2>2, <2>8, QuietTables DEF Records, vars
  <2> QED BY <2>4, <2>5, <2>6, <2>7, <2>8, Steps
<1>2. CASE rows[s] # Absent
  <2>1. ASSUME rows'[s] = rows[s], \A r \in runs' : r.sched = s => r \in runs
        PROVE  RowTold(s)'
    BY <1>2, <2>1, RowStays
  <2>2. ASSUME NEW x \in Schedules, RowsOther(x), runs' \subseteq runs, x # s PROVE RowTold(s)'
    BY <2>1, <2>2 DEF RowsOther
  <2>3. ASSUME NEW x \in Schedules, Creates(x) PROVE RowTold(s)'
    BY <1>2, <2>2, <2>3, CreateRow DEF Creates, Create
  <2>4. ASSUME NEW x \in Schedules, Switches(x) PROVE RowTold(s)'
    <3>1. RowsOther(x) /\ rows'[x].next = rows[x].next /\ runs' = runs
      BY <2>4, SwitchesType DEF Switches
    <3> QED BY <1>2, <2>2, <3>1, RowStays
  <2>5. ASSUME NEW c \in calls, Present(c.sched), EnableProgress(c) PROVE RowTold(s)'
    <3>1. /\ RowsOther(c.sched) /\ c.sched \in Schedules /\ rows'[c.sched].next = c.next
          /\ since'[c.sched] >= c.next /\ runs' = runs
      BY <2>5, EnableRow DEF EnableProgress
    <3>2. CASE s = c.sched
      <4> PICK n \in Times : n = c.next
        BY DEF TInv, RestType, CallType
      <4>1. Cron(s) /\ c.what = "enable"
        BY <1>2, <2>5, ToldAges DEF EnableProgress
      <4>2. Grid(n)
        BY <3>2, <4>1 DEF ToldInv, CallTold
      <4>3. \A m \in Times : since'[s] >= n /\ m >= since'[s] => ~(m < n)
        <5>1. since'[s] \in Nat /\ n \in Nat /\ \A m \in Times : m \in Nat
          BY TimesAre DEF TInv, RowsType
        <5> QED BY <5>1
      <4>4. Told(s, n)'
        BY <3>1, <3>2, <4>3 DEF Told
      <4> QED BY <1>2, <3>1, <3>2, <4>2, <4>4, RowMoves
    <3> QED BY <2>2, <3>1, <3>2
  <2>6. ASSUME NEW c \in calls, Present(c.sched), DeleteSchedule(c) PROVE RowTold(s)'
    <3>1. RowsOther(c.sched) /\ c.sched \in Schedules /\ rows'[c.sched] = Gone /\ runs' \subseteq runs
      BY <2>6, DeleteRow
    <3>2. s # c.sched
      BY <3>1 DEF Cron, Present, Gone
    <3> QED BY <2>2, <3>1, <3>2
  <2>7. ASSUME NEW result \in Results, Records(result) PROVE RowTold(s)'
    BY <1>2, <2>7, RowRecorded
  <2>8. CASE UpdateScheduleProgress
    <3>1. /\ RowsOther(job.sched) /\ job.sched \in Schedules /\ job.left = {} /\ pc = "moment"
          /\ rows'[job.sched].next = job.next /\ runs' = runs
      BY <2>8, UpdateRow DEF UpdateScheduleProgress
    <3>2. CASE s = job.sched
      <4> PICK n : n = job.next
        OBVIOUS
      <4>1. Cron(s) /\ \A u : Told(s, u) => Told(s, u)'
        BY <1>2, ToldAges
      <4>2. JobTold(s)
        BY <3>1, <3>2 DEF ToldInv
      <4>3. Grid(n) /\ Told(s, n)
        BY <3>1, <4>1, <4>2 DEF JobTold, Told
      <4>4. Told(s, n)'
        BY <4>1, <4>3
      <4> QED BY <1>2, <3>1, <3>2, <4>3, <4>4, RowMoves
    <3> QED BY <2>2, <3>1, <3>2
  <2>9. CASE Quiet \/ UNCHANGED vars
    BY <2>1, <2>9, QuietTables DEF vars
  <2> QED BY <2>3, <2>4, <2>5, <2>6, <2>7, <2>8, <2>9, Steps
<1> QED BY <1>1, <1>2

LEMMA ToldNext ==
  TInv /\ TInv' /\ OnceInv /\ NeverFarBehind /\ ToldInv /\ [Next]_vars => ToldInv'
<1> SUFFICES ASSUME TInv, TInv', OnceInv, NeverFarBehind, ToldInv, [Next]_vars PROVE ToldInv'
  OBVIOUS
<1>1. \A s \in Schedules : RowTold(s)'
  BY RowNext
<1>2. \A s \in DOMAIN listed' : ListedTold(s)'
  BY ListedNext
<1>3. pc' = "moment" => JobTold(job.sched)'
  BY JobNext
<1>4. \A c \in calls' : CallTold(c)'
  BY CallNext
<1> QED BY <1>1, <1>2, <1>3, <1>4 DEF ToldInv

\* A cron schedule accounts for every moment before it moves past it, and in order, as long
\* as no tick finds it more than MaxMoments behind (processSchedule, UpdateScheduleProgress).
THEOREM EveryMomentIsRecorded == Spec /\ []NeverFarBehind => []NoMomentLost
<1>1. Init => ToldInv
  <2> SUFFICES ASSUME Init PROVE ToldInv
    OBVIOUS
  <2>1. \A s \in Schedules : ~Present(s)
    BY DEF Init, Present, Absent
  <2> QED BY <2>1 DEF Init, ToldInv, RowTold, Cron
<1>2. TInv /\ ToldInv => NoMomentLost
  <2> SUFFICES ASSUME TInv, ToldInv, NEW s \in Schedules, Cron(s), NEW m \in Times,
                      Grid(m), m >= since[s],
                      m < rows[s].next \/ \E r \in runs : r.sched = s /\ r.for > m
               PROVE  Recorded(s, m)
    BY DEF NoMomentLost, Cron, Grid
  <2>1. RowTold(s)
    BY DEF ToldInv
  <2>2. CASE m < rows[s].next
    BY <2>1, <2>2 DEF RowTold, Told
  <2>3. ASSUME NEW r \in runs, r.sched = s, r.for > m PROVE Recorded(s, m)
    <3>1. m \in Nat /\ r.for \in Nat
      BY TimesAre DEF TInv, RunsType, RunType
    <3>2. m < r.for
      BY <2>3, <3>1
    <3> QED BY <2>1, <2>3, <3>2 DEF RowTold, Told
  <2> QED BY <2>2, <2>3
<1> QED BY <1>1, <1>2, ToldNext, SchedulerInvariant, OnceInvariant, PTL DEF Spec

\* While the clock has not run for MaxMoments periods no schedule can be further behind than
\* that, and both hold without the condition: so it is in the instance of scheduler_dispatch.
THEOREM NotFarBehindAtFirst ==
  ASSUME Horizon < MaxMoments * Period
  PROVE  Spec => [](RunsTheLatestMoment /\ NoMomentLost)
<1>1. TInv => NeverFarBehind
  <2> SUFFICES ASSUME TInv, NEW s \in DOMAIN listed
               PROVE  tickNow < listed[s].next + MaxMoments * Period
    BY DEF NeverFarBehind
  <2>1. tickNow \in 0..Horizon /\ listed[s].next \in Nat
    BY TimesAre DEF TInv, TickType, Row
  <2>2. MaxMoments * Period \in Nat /\ Horizon \in Nat
    BY LimitAssumption, PeriodAssumption
  <2> QED BY <2>1, <2>2
<1> QED BY <1>1, SchedulerInvariant, TickRunsTheLatest, EveryMomentIsRecorded, PTL
=============================================================================
