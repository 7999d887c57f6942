------------------------------ MODULE Scheduler ------------------------------
(***************************************************************************)
(* The scheduler loop of every server replica (scheduler.go): it reads the *)
(* database time, lists the due (monitor, location) rows, and for each of  *)
(* them, in one transaction, inserts the latest run that is due and        *)
(* advances monitors.next_run_at past it.                                  *)
(***************************************************************************)
EXTENDS RunTable

CONSTANTS
  Replica,           \* the server replicas, each with one scheduler loop
  DueLimit           \* rows listed per tick (100)

ASSUME SchedulerAssumption ==
  /\ DueLimit \in Nat \ {0}
  /\ \A m \in Monitor, t \in Time : t % Interval[m] = 0 => t \in Slots

VARIABLES
  nextRun,           \* monitors.next_run_at
  tickAt,            \* per replica: the DatabaseNow of its tick
  due                \* per replica: the listed rows it has yet to enqueue

schedVars == <<nextRun, tickAt, due>>

NoTick == -1
DueRow == [place : Assigned, next : Nat]

SchedulerTypeOK ==
  /\ nextRun \in [Monitor -> Nat]
  /\ tickAt \in [Replica -> Time \union {NoTick}]
  /\ due \in [Replica -> SUBSET DueRow]
  /\ \A i \in Replica : tickAt[i] = NoTick => due[i] = {}

SchedulerInit ==
  /\ nextRun = [m \in Monitor |-> 0]    \* every monitor is due when created
  /\ tickAt = [i \in Replica |-> NoTick]
  /\ due = [i \in Replica |-> {}]

-----------------------------------------------------------------------------
\* The skipped intervals are counted as lag, not replayed.
SkippedIntervals(next, interval, t) == (t - next) \div interval

\* Mutant: the latest run is due now, off the grid.
LatestDueNow(next, interval, t) == t

LatestDue(next, interval, t) ==
  next + SkippedIntervals(next, interval, t) * interval

BeginTick(i) ==
  /\ tickAt[i] = NoTick
  /\ tickAt' = [tickAt EXCEPT ![i] = now]
  /\ UNCHANGED <<nextRun, due>>

DueRows(t) == {d \in [place : Assigned, next : 0 .. t] :
                 nextRun[d.place[1]] = d.next}

\* ORDER BY next_run_at, ... LIMIT: the earliest rows, ties arbitrary.
ListDue(i) ==
  /\ tickAt[i] # NoTick
  /\ due[i] = {}
  /\ \E listed \in SUBSET DueRows(tickAt[i]) :
       /\ \/ listed = DueRows(tickAt[i]) /\ Cardinality(listed) <= DueLimit
          \/ Cardinality(listed) = DueLimit
       /\ \A d \in listed, e \in DueRows(tickAt[i]) \ listed : d.next <= e.next
       /\ due' = [due EXCEPT ![i] = listed]
       /\ tickAt' = IF listed = {} THEN [tickAt EXCEPT ![i] = NoTick] ELSE tickAt
  /\ UNCHANGED nextRun

DueRun(i, d) ==
  [monitor |-> d.place[1], location |-> d.place[2],
   at |-> LatestDue(d.next, Interval[d.place[1]], tickAt[i])]

\* Mutants: without its guard; past one run more; with the guard inverted.
AdvanceAlways(m, next) == nextRun' = [nextRun EXCEPT ![m] = next]
AdvanceTwice(m, next) ==
  nextRun' = [nextRun EXCEPT ![m] = IF @ < next THEN next + Interval[m] ELSE @]
AdvanceBackOnly(m, next) ==
  nextRun' = [nextRun EXCEPT ![m] = IF @ > next THEN next ELSE @]

\* WHERE next_run_at < the new value.
AdvanceNextRun(m, next) ==
  nextRun' = [nextRun EXCEPT ![m] = IF @ < next THEN next ELSE @]

Enqueue(i, d) ==
  /\ d \in due[i]
  /\ \A e \in due[i] : d.next <= e.next
  /\ InsertRun(DueRun(i, d))
  /\ AdvanceNextRun(d.place[1], DueRun(i, d).at + Interval[d.place[1]])
  /\ due' = [due EXCEPT ![i] = @ \ {d}]
  /\ tickAt' = [tickAt EXCEPT ![i] = IF due[i] = {d} THEN NoTick ELSE @]

\* A failed statement ends the tick; so does a crash of the replica.
AbortTick(i) ==
  /\ tickAt[i] # NoTick
  /\ tickAt' = [tickAt EXCEPT ![i] = NoTick]
  /\ due' = [due EXCEPT ![i] = {}]
  /\ UNCHANGED nextRun

-----------------------------------------------------------------------------
(***************************************************************************)
(* The scheduler alone: replicas tick while the clock runs.                *)
(***************************************************************************)
schedulerVars == <<now, runVars, schedVars>>

ScheduleStart == RunInit /\ SchedulerInit

ScheduleStep ==
  \/ Tick /\ UNCHANGED <<runVars, schedVars>>
  \/ /\ UNCHANGED <<now, results, claimAt, grants>>
     /\ \E i \in Replica :
          \/ (BeginTick(i) \/ ListDue(i) \/ AbortTick(i)) /\ UNCHANGED runs
          \/ \E d \in due[i] : Enqueue(i, d)

\* Each replica keeps ticking (a one-second ticker), the clock runs, and the
\* transactions of a tick do not fail for ever.
ScheduleFairness ==
  /\ WF_now(Tick /\ UNCHANGED <<runVars, schedVars>>)
  /\ \A i \in Replica :
       /\ WF_schedulerVars(UNCHANGED <<now, runVars>> /\ BeginTick(i))
       /\ SF_schedulerVars(UNCHANGED <<now, runVars>> /\ ListDue(i))
       /\ SF_schedulerVars(/\ UNCHANGED <<now, results, claimAt, grants>>
                           /\ \E d \in due[i] : Enqueue(i, d))

ScheduleSpec ==
  /\ ScheduleStart
  /\ [][ScheduleStep]_schedulerVars
  /\ ScheduleFairness

-----------------------------------------------------------------------------
(***************************************************************************)
(* Properties.                                                             *)
(***************************************************************************)
\* Every run lies on the grid of its monitor, is not in the future, and lies
\* before the next run the monitor will get (boundedSchedule, and the guard of
\* AdvanceMonitorSchedule when two replicas race).
RunsOnGrid ==
  \A r \in Run : runs[r].status # "absent" =>
    /\ r.at % Interval[r.monitor] = 0
    /\ r.at <= now
    /\ r.at < nextRun[r.monitor]

\* next_run_at never moves back, however old the time a slow replica computed
\* with.
ScheduleNeverRewinds ==
  [][\A m \in Monitor : nextRun'[m] >= nextRun[m]]_schedulerVars

\* Catch-up drops a slot only in favour of a later run of the same place: the
\* schedule of a place with one location never advances past a slot for which
\* nothing was enqueued, whatever replica crashed or lost the race.
DroppedOnlyForLater ==
  \A r \in Run :
    /\ r.at % Interval[r.monitor] = 0
    /\ r.at < nextRun[r.monitor]
    /\ runs[r].status = "absent"
    => \E q \in Run : /\ q.monitor = r.monitor /\ q.location = r.location
                      /\ q.at > r.at /\ runs[q].status # "absent"

\* A due monitor is eventually scheduled, although replicas crash and race.
DueIsScheduled ==
  \A m \in Monitor, t \in Time :
    nextRun[m] = t /\ t <= now ~> nextRun[m] > t
=============================================================================
