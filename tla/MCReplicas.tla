----------------------------- MODULE MCReplicas -----------------------------
(***************************************************************************)
(* Server replicas at one PostgreSQL database: two scheduler loops on two  *)
(* monitors of different intervals, and the sessions that ingest and sweep *)
(* one location.  They share no row.  The initial state chooses which of   *)
(* them moves.                                                             *)
(***************************************************************************)
EXTENDS Scheduler, ReadCommitted

CONSTANTS m1, m2, l1, k1, s1, s2
Server == {s1, s2}     \* each with a scheduler loop and a session
MCAssigned == {<<m1, l1>>, <<m2, l1>>}
MCAgentLocation == [a \in Agent |-> l1]
MCAgentKinds == [a \in Agent |-> {k1}]
MCMonitorKind == [m \in Monitor |-> k1]
MCInterval == [m \in Monitor |-> IF m = m1 THEN 1 ELSE 2]
MCSlots == Time
MCThresholds == [failures |-> 2, recoveries |-> 1]

VARIABLE focus     \* "scheduling" or "projecting"

\* While the sessions move, the clock has stopped and every run is enqueued;
\* while the schedulers move, no probe will pass and no session begins.
AllScheduled ==
  /\ now = MaxTime
  /\ runs = [r \in Run |-> IF r.at % Interval[r.monitor] = 0
                          THEN [AbsentRow EXCEPT !.status = "available"] ELSE AbsentRow]
  /\ results = [r \in Run |-> NoResult]
  /\ claimAt = [a \in Agent |-> NoRead]
  /\ grants = {}
  /\ nextRun = [m \in Monitor |-> (MaxTime \div Interval[m] + 1) * Interval[m]]
  /\ tickAt = [i \in Replica |-> NoTick]
  /\ due = [i \in Replica |-> {}]

\* How many results pass is enough: their order of arrival is arbitrary, and
\* their numbers are compared for equality only.
ReplicasInit ==
  /\ Init /\ \E n \in 0 .. Cardinality(ProbeResult) : passing = 1 .. n
  /\ \/ focus = "scheduling" /\ ScheduleStart /\ passing = {}
     \/ focus = "projecting" /\ AllScheduled

ReplicasNext ==
  /\ UNCHANGED focus
  /\ \/ focus = "scheduling" /\ ScheduleStep /\ UNCHANGED vars
     \/ focus = "projecting" /\ Next /\ UNCHANGED schedulerVars

\* The fairness of Scheduler and of ReadCommitted, each where it moves.  A
\* server's transactions do not fail for ever, those of its scheduler nor those
\* of its session; only one of them ever moves.
replicasVars == <<focus, schedulerVars, vars>>
Scheduling(A) == focus = "scheduling" /\ A

ReplicasFairness ==
  /\ WF_now(Scheduling(Tick /\ UNCHANGED <<runVars, schedVars>>))
  /\ \A i \in Server :
       /\ WF_schedulerVars(Scheduling(UNCHANGED <<now, runVars>> /\ BeginTick(i)))
       /\ SF_schedulerVars(Scheduling(UNCHANGED <<now, runVars>> /\ ListDue(i)))
       /\ SF_replicasVars(
            \/ Scheduling(/\ UNCHANGED <<focus, vars, now, results, claimAt, grants>>
                          /\ \E d \in due[i] : Enqueue(i, d))
            \/ Statement(i) /\ UNCHANGED <<focus, schedulerVars>>)

ReplicasSpec == ReplicasInit /\ [][ReplicasNext]_replicasVars /\ ReplicasFairness
=============================================================================
