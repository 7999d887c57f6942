----------------------------- MODULE Projection -----------------------------
(***************************************************************************)
(* The location_health, monitor_health, incidents and incident_events      *)
(* tables, the projection a result or a stale deadline makes on them in    *)
(* one transaction (projectAggregateAndIncident), and the staleness worker *)
(* of every server replica.                                                *)
(*                                                                         *)
(* Transactions are steps: this is the profile of SQLite and local Turso,  *)
(* whose handle has one connection, so that transactions run one at a time *)
(* while the reads made outside of them interleave.                        *)
(***************************************************************************)
EXTENDS Deployment, Health

CONSTANTS
  Required,              \* those with required = TRUE
  ProbeTimeout,          \* per monitor
  Thresholds,            \* per monitor: [failures |-> .., recoveries |-> ..]
  Sweeper                \* the staleness worker of each replica

ASSUME ProjectionAssumption ==
  /\ Required \subseteq Assigned
  /\ ProbeTimeout \in [Monitor -> Nat]
  /\ Thresholds \in [Monitor -> [failures : Counter \ {0},
                                 recoveries : Counter \ {0}]]

VARIABLES
  locations,   \* location_health, by <<monitor, location>>
  monitors,    \* monitor_health.state
  incidents,   \* the active incident of each monitor, if any
  lastEvent,   \* the incident_events row appended last, per monitor
  sweepAt,     \* per sweeper: the DatabaseNow of its tick
  overdue      \* per sweeper: the ListStale rows it has yet to claim

healthVars == <<locations, monitors, incidents, lastEvent>>
sweepVars == <<sweepAt, overdue>>

NoSweep == -1
NoEvent == [previous |-> "none", state |-> "none"]
Event == [previous : Unhealthy \union {"none"},
          state : Unhealthy \union {"up"}] \union {NoEvent}
Candidate == [place : Assigned, staleAt : Nat]

ProjectionTypeOK ==
  /\ now \in Time
  /\ locations \in [Assigned -> LocationHealth]
  /\ monitors \in [Monitor -> MonitorState]
  /\ incidents \in [Monitor -> Incident]
  /\ lastEvent \in [Monitor -> Event]
  /\ sweepAt \in [Sweeper -> Time \union {NoSweep}]
  /\ overdue \in [Sweeper -> SUBSET Candidate]

\* CreateMonitor writes both pending rows in the transaction of the monitor.
ProjectionInit ==
  /\ locations = [p \in Assigned |-> PendingLocation]
  /\ monitors = [m \in Monitor |-> "pending"]
  /\ incidents = [m \in Monitor |-> NoIncident]
  /\ lastEvent = [m \in Monitor |-> NoEvent]
  /\ sweepAt = [s \in Sweeper |-> NoSweep]
  /\ overdue = [s \in Sweeper |-> {}]

-----------------------------------------------------------------------------
RequiredOf(m) == {p \in Required : p[1] = m}

\* Mutant: the rollup is read before the location is written.
RollupBeforeWrite(table, m) ==
  RollupRequired({locations[p].state : p \in RequiredOf(m)})

Rollup(table, m) == RollupRequired({table[p].state : p \in RequiredOf(m)})

\* Mutant: the previous state is left out.
EventWithoutPrevious(active, aggregate) ==
  [previous |-> "none", state |-> aggregate]

EventOf(active, aggregate) == [previous |-> active.state, state |-> aggregate]

\* projectAggregateAndIncident, once the location rows of m are `table`.
Project(m, table, openUnknown) ==
  LET aggregate == Rollup(table, m)
      active == incidents[m]
      quiet == active = NoIncident /\ aggregate = "unknown" /\ ~openUnknown
      action == IF quiet THEN "none" ELSE IncidentAction(active, aggregate)
  IN /\ locations' = table
     /\ monitors' = [monitors EXCEPT ![m] = aggregate]
     /\ IF action = "none"
        THEN UNCHANGED <<incidents, lastEvent>>
        ELSE /\ incidents' = [incidents EXCEPT ![m] =
                                IncidentAfter(active, aggregate)]
             /\ lastEvent' = [lastEvent EXCEPT ![m] = EventOf(active, aggregate)]

Deadline(m, finished) ==
  finished + 2 * Interval[m] + ProbeTimeout[m] + LeaseDuration

\* The health part of ingest: an accepted result of place p.
ProjectResult(p, passed, finished) ==
  LET observed == ApplyProbe(locations[p], passed, Thresholds[p[1]]) IN
  Project(p[1],
          [locations EXCEPT ![p] =
             [observed EXCEPT !.staleAt = Deadline(p[1], finished)]],
          FALSE)

-----------------------------------------------------------------------------
\* MarkDue reads the database time, lists the overdue rows with it, and then
\* claims them one transaction at a time, the earliest deadline first.
BeginSweep(s) ==
  /\ sweepAt[s] = NoSweep
  /\ sweepAt' = [sweepAt EXCEPT ![s] = now]
  /\ UNCHANGED <<overdue, healthVars>>

ListStale(t) ==
  {c \in [place : Assigned, staleAt : 0 .. t] :
     locations[c.place].staleAt = c.staleAt}

ListOverdue(s) ==
  /\ sweepAt[s] # NoSweep
  /\ overdue[s] = {}
  /\ ListStale(sweepAt[s]) # {}
  /\ overdue' = [overdue EXCEPT ![s] = ListStale(sweepAt[s])]
  /\ UNCHANGED <<sweepAt, healthVars>>

ListNothing(s) ==
  /\ sweepAt[s] # NoSweep
  /\ overdue[s] = {}
  /\ ListStale(sweepAt[s]) = {}
  /\ sweepAt' = [sweepAt EXCEPT ![s] = NoSweep]
  /\ UNCHANGED <<overdue, healthVars>>

\* The tick ends with its last row.
Visited(s, c) ==
  /\ overdue' = [overdue EXCEPT ![s] = @ \ {c}]
  /\ sweepAt' = [sweepAt EXCEPT ![s] = IF overdue[s] = {c} THEN NoSweep ELSE @]

\* Mutant: the row is not compared again.
StillStaleUnchecked(s, c) == locations[c.place].staleAt # NoDeadline

\* WHERE stale_at = the deadline that was listed AND stale_at <= now.
StillStale(s, c) ==
  locations[c.place].staleAt = c.staleAt /\ c.staleAt <= sweepAt[s]

\* Mutants: staleness is projected like a result, and opens no incident; the
\* deadline that passed is not cleared.
MarkStaleQuietly(p) ==
  Project(p[1], [locations EXCEPT ![p] = StaleLocation], FALSE)
MarkStaleStillArmed(p) ==
  Project(p[1], [locations EXCEPT ![p] = [StaleLocation EXCEPT !.staleAt =
                                            locations[p].staleAt]], TRUE)

MarkStale(p) == Project(p[1], [locations EXCEPT ![p] = StaleLocation], TRUE)

ClaimStale(s, c) ==
  /\ c \in overdue[s]
  /\ \A d \in overdue[s] : c.staleAt <= d.staleAt
  /\ Visited(s, c)
  /\ IF StillStale(s, c)
     THEN MarkStale(c.place)
     ELSE UNCHANGED healthVars

\* A failed transaction ends the tick; so does a crash of the replica.
AbortSweep(s) ==
  /\ sweepAt[s] # NoSweep
  /\ sweepAt' = [sweepAt EXCEPT ![s] = NoSweep]
  /\ overdue' = [overdue EXCEPT ![s] = {}]
  /\ UNCHANGED healthVars

Sweep(s) == \/ BeginSweep(s) \/ ListOverdue(s) \/ ListNothing(s)
            \/ \E c \in overdue[s] : ClaimStale(s, c)

-----------------------------------------------------------------------------
(***************************************************************************)
(* The projection alone, fed with any accepted results.  A result is       *)
(* accepted when its probe ended at most Skew after the server's clock.    *)
(***************************************************************************)
CONSTANT Skew

ASSUME SkewAssumption == Skew \in Nat

Observe(p, passed, finished) ==
  finished <= now + Skew /\ ProjectResult(p, passed, finished)

ProjectionStep ==
  \/ Tick /\ UNCHANGED <<healthVars, sweepVars>>
  \/ /\ UNCHANGED now
     /\ \/ \E s \in Sweeper : Sweep(s) \/ AbortSweep(s)
        \/ \E p \in Assigned, passed \in BOOLEAN, f \in Time :
             Observe(p, passed, f) /\ UNCHANGED sweepVars

projectionVars == <<now, healthVars, sweepVars>>

ProjectionStart == now = 0 /\ ProjectionInit

ProjectionSpec == ProjectionStart /\ [][ProjectionStep]_projectionVars
-----------------------------------------------------------------------------
(***************************************************************************)
(* Properties.                                                             *)
(***************************************************************************)
\* The stored health of a monitor is the rollup of its required locations,
\* except while nothing was ever projected for it and it is still pending
\* (projection.go recomputes it in every transaction that writes a location).
MonitorMatchesLocations ==
  \A m \in Monitor :
    \/ monitors[m] = Rollup(locations, m)
    \/ /\ monitors[m] = "pending"
       /\ \A p \in Assigned : p[1] = m => locations[p] = PendingLocation

\* The active incident shows the state and the severity the monitor has now,
\* and a monitor that is down or degraded always has one (projection.go and
\* DecideIncident must agree on every transition).
IncidentMatchesMonitor ==
  \A m \in Monitor :
    IF incidents[m] = NoIncident
    THEN monitors[m] \in {"pending", "up", "unknown"}
    ELSE incidents[m] = IncidentAt(monitors[m])

\* An agent that goes silent never goes unnoticed: while a required location
\* is unknown the monitor has an active incident, although ingestion itself
\* opens none for unknown (the openUnknown flag of projectAggregateAndIncident).
LostLocationHasIncident ==
  \A p \in Required :
    locations[p].state = "unknown" => incidents[p[1]] # NoIncident

\* A location whose counters hold anything has a deadline, so that silence
\* after it is noticed; one that never reported or was marked stale has none
\* (ingest sets StaleAt, ClaimStale clears it with the counters).
DeadlineArmed ==
  \A p \in Assigned :
    locations[p].staleAt = NoDeadline
      <=> locations[p] \in {PendingLocation, StaleLocation}

\* The event log agrees with the incident table: the last event of a monitor
\* carries the state of its active incident, or closed the last one.
LastEventMatchesIncident ==
  \A m \in Monitor :
    lastEvent[m].state = IF incidents[m] # NoIncident THEN incidents[m].state
                         ELSE IF lastEvent[m] = NoEvent THEN "none" ELSE "up"

\* A location is marked unknown only when its deadline has passed, even though
\* the row may have been refreshed since the sweep listed it (ClaimStale
\* compares stale_at again).
StaleOnlyWhenOverdue ==
  [][\A p \in Assigned :
       locations[p].state # "unknown" /\ locations'[p].state = "unknown"
         => locations[p].staleAt \in 0 .. now]_projectionVars

\* Events form one chain per monitor: each continues from the state the
\* previous one left, and none repeats it (no transition is notified twice).
EventsChain ==
  [][\A m \in Monitor : lastEvent'[m] # lastEvent[m] =>
       /\ lastEvent'[m].state # lastEvent'[m].previous
       /\ IF lastEvent[m].state \in {"none", "up"}
          THEN lastEvent'[m].previous = "none"
          ELSE lastEvent'[m].previous = lastEvent[m].state]_projectionVars

\* What the design says of the pending state and of optional locations: an
\* incident means that some required location has reported.
OptionalNeverNotifies ==
  \A m \in Monitor : incidents[m] # NoIncident =>
    \E p \in RequiredOf(m) : locations[p].state # "pending"
=============================================================================
