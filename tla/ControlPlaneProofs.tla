------------------------- MODULE ControlPlaneProofs -------------------------
(***************************************************************************)
(* Proofs about the health projection with the staleness worker, about the *)
(* scheduler, and about the server they are parts of, for any monitors,    *)
(* intervals and durations, any number of locations, sweepers and replicas.*)
(*                                                                         *)
(* ProjectionInv is inductive.  Its parts lean on each other: what a step  *)
(* writes into an incident depends on the one that is there, and so on     *)
(* what the monitor was; the event depends on the incident.                *)
(*                                                                         *)
(* ScheduleInv is inductive.  A replica works with a time and a list that  *)
(* are both old: what it needs of them is that the time is of the past,    *)
(* and that a listed next_run_at is on the grid and not after that time.   *)
(*                                                                         *)
(* The server keeps what its parts promise: ControlPlane implements        *)
(* RunTable and Projection, whose theorems carry over, and it keeps the    *)
(* invariant of Scheduler.  What only the composition can promise is that  *)
(* the stored results and the health of a place belong together.           *)
(***************************************************************************)
EXTENDS ControlPlane, WorkerProofs, Lemmas

-----------------------------------------------------------------------------
(***************************************************************************)
(* The health projection.                                                  *)
(***************************************************************************)
\* A sweep compares with a time that was read, so no later than now.
SweepsPast == \A s \in Sweeper : sweepAt[s] <= now

ProjectionInv ==
  /\ ProjectionTypeOK
  /\ SweepsPast
  /\ MonitorMatchesLocations
  /\ IncidentMatchesMonitor
  /\ LostLocationHasIncident
  /\ DeadlineArmed
  /\ LastEventMatchesIncident

-----------------------------------------------------------------------------
LEMMA PlaceOfMonitor ==
  ASSUME NEW p \in Assigned
  PROVE  p[1] \in Monitor
BY DeploymentAssumption

\* A rollup is never pending, and is unknown when a required location is.
LEMMA RollupValues ==
  ASSUME NEW table, NEW m
  PROVE  /\ Rollup(table, m) \in {"up", "down", "degraded", "unknown"}
         /\ \A p \in RequiredOf(m) : table[p].state = "unknown"
              => Rollup(table, m) = "unknown"
BY DEF Rollup, RollupRequired

\* The rollup of a monitor reads its required places only.
LEMMA RollupOfSameStates ==
  ASSUME NEW m, NEW table, NEW changed,
         \A q \in RequiredOf(m) : changed[q] = table[q]
  PROVE  Rollup(changed, m) = Rollup(table, m)
<1>1. {changed[q].state : q \in RequiredOf(m)} = {table[q].state : q \in RequiredOf(m)}
  OBVIOUS
<1>2. QED
  BY <1>1 DEF Rollup

-----------------------------------------------------------------------------
\* What a projection does to the incident of its monitor, and what it logs.
Kept(m, aggregate, openUnknown) ==
  /\ UNCHANGED <<incidents, lastEvent>>
  /\ incidents[m] = NoIncident =>
       aggregate = "up" \/ (aggregate = "unknown" /\ ~openUnknown)
  /\ incidents[m] # NoIncident => incidents[m] = IncidentAt(aggregate)

Raised(m, aggregate) ==
  /\ aggregate \in Unhealthy
  /\ incidents[m] # IncidentAt(aggregate)
  /\ incidents' = [incidents EXCEPT ![m] = IncidentAt(aggregate)]
  /\ lastEvent' = [lastEvent EXCEPT ![m] =
                     [previous |-> incidents[m].state, state |-> aggregate]]

Recovered(m, aggregate) ==
  /\ aggregate = "up"
  /\ incidents[m] # NoIncident
  /\ incidents' = [incidents EXCEPT ![m] = NoIncident]
  /\ lastEvent' = [lastEvent EXCEPT ![m] =
                     [previous |-> incidents[m].state, state |-> "up"]]

LEMMA ProjectEffect ==
  ASSUME NEW m \in Monitor, NEW table, NEW openUnknown \in BOOLEAN,
         Project(m, table, openUnknown)
  PROVE  /\ locations' = table
         /\ monitors' = [monitors EXCEPT ![m] = Rollup(table, m)]
         /\ \/ Kept(m, Rollup(table, m), openUnknown)
            \/ Raised(m, Rollup(table, m))
            \/ Recovered(m, Rollup(table, m))
<1> DEFINE aggregate == Rollup(table, m)
<1> DEFINE active == incidents[m]
<1>1. aggregate \in {"up", "down", "degraded", "unknown"}
  BY RollupValues
<1>2. locations' = table /\ monitors' = [monitors EXCEPT ![m] = aggregate]
  BY DEF Project
<1>3. CASE active = NoIncident /\ aggregate = "unknown" /\ ~openUnknown
  <2>1. UNCHANGED <<incidents, lastEvent>>
    BY <1>3 DEF Project
  <2>2. Kept(m, aggregate, openUnknown)
    BY <1>3, <2>1 DEF Kept
  <2>3. QED
    BY <1>2, <2>2
<1>4. CASE ~(active = NoIncident /\ aggregate = "unknown" /\ ~openUnknown)
  <2> DEFINE action == IncidentAction(active, aggregate)
  <2>1. /\ action = "none" => UNCHANGED <<incidents, lastEvent>>
        /\ action # "none" =>
             /\ incidents' = [incidents EXCEPT ![m] = IncidentAfter(active, aggregate)]
             /\ lastEvent' = [lastEvent EXCEPT ![m] =
                                [previous |-> active.state, state |-> aggregate]]
    BY <1>4 DEF Project, EventOf
  <2> HIDE DEF aggregate
  <2>2. CASE active = NoIncident /\ aggregate \in Unhealthy
    <3>1. action = "open"
      BY <2>2 DEF IncidentAction
    <3>2. IncidentAfter(active, aggregate) = IncidentAt(aggregate)
      BY <3>1 DEF IncidentAfter
    <3>3. Raised(m, aggregate)
      BY <2>1, <2>2, <3>1, <3>2, IncidentIsNotNoIncident DEF Raised
    <3>4. QED
      BY <1>2, <3>3 DEF aggregate
  <2>3. CASE active = NoIncident /\ aggregate \notin Unhealthy
    <3>1. action = "none" /\ aggregate = "up"
      BY <1>1, <2>3 DEF IncidentAction, Unhealthy, aggregate
    <3>2. Kept(m, aggregate, openUnknown)
      BY <2>1, <2>3, <3>1 DEF Kept
    <3>3. QED
      BY <1>2, <3>2 DEF aggregate
  <2>4. CASE active # NoIncident /\ aggregate = "up"
    <3>1. action = "recover" /\ IncidentAfter(active, aggregate) = NoIncident
      BY <2>4 DEF IncidentAction, IncidentAfter
    <3>2. Recovered(m, aggregate)
      BY <2>1, <2>4, <3>1 DEF Recovered
    <3>3. QED
      BY <1>2, <3>2 DEF aggregate
  <2>5. CASE active # NoIncident /\ aggregate # "up" /\ active = IncidentAt(aggregate)
    <3>1. action = "none"
      BY <2>5 DEF IncidentAction
    <3>2. Kept(m, aggregate, openUnknown)
      BY <2>1, <2>5, <3>1 DEF Kept
    <3>3. QED
      BY <1>2, <3>2 DEF aggregate
  <2>6. CASE active # NoIncident /\ aggregate # "up" /\ active # IncidentAt(aggregate)
    <3>1. aggregate \in Unhealthy
      BY <1>1, <2>6 DEF Unhealthy, aggregate
    <3>2. action = "change"
      BY <2>6, <3>1 DEF IncidentAction
    <3>3. IncidentAfter(active, aggregate) = IncidentAt(aggregate)
      BY <3>2 DEF IncidentAfter
    <3>4. Raised(m, aggregate)
      BY <2>1, <2>6, <3>1, <3>2, <3>3 DEF Raised
    <3>5. QED
      BY <1>2, <3>4 DEF aggregate
  <2>7. QED
    BY <2>2, <2>3, <2>4, <2>5, <2>6
<1>5. QED
  BY <1>3, <1>4

-----------------------------------------------------------------------------
\* Every projection of a well-formed row preserves the parts of the invariant
\* that relate locations, monitors, incidents and events.  Only staleness may
\* write an unknown state, and it projects with openUnknown.
LEMMA ProjectKeeps ==
  ASSUME ProjectionInv, NEW p \in Assigned, NEW row \in LocationHealth,
         NEW openUnknown \in BOOLEAN,
         row.state = "unknown" => locations[p].state = "unknown" \/ openUnknown,
         row.staleAt = NoDeadline <=> row \in {PendingLocation, StaleLocation},
         Project(p[1], [locations EXCEPT ![p] = row], openUnknown)
  PROVE  /\ locations' \in [Assigned -> LocationHealth]
         /\ monitors' \in [Monitor -> MonitorState]
         /\ incidents' \in [Monitor -> Incident]
         /\ lastEvent' \in [Monitor -> Event]
         /\ MonitorMatchesLocations'
         /\ IncidentMatchesMonitor'
         /\ LostLocationHasIncident'
         /\ DeadlineArmed'
         /\ LastEventMatchesIncident'
<1> DEFINE m == p[1]
<1> DEFINE table == [locations EXCEPT ![p] = row]
<1> DEFINE aggregate == Rollup(table, m)
<1>1. m \in Monitor
  BY PlaceOfMonitor
<1>2. /\ locations \in [Assigned -> LocationHealth]
      /\ monitors \in [Monitor -> MonitorState]
      /\ incidents \in [Monitor -> Incident]
      /\ lastEvent \in [Monitor -> Event]
  BY DEF ProjectionInv, ProjectionTypeOK
<1>3. /\ locations' = table
      /\ monitors' = [monitors EXCEPT ![m] = aggregate]
      /\ \/ Kept(m, aggregate, openUnknown)
         \/ Raised(m, aggregate)
         \/ Recovered(m, aggregate)
  BY <1>1, ProjectEffect
<1>4. aggregate \in {"up", "down", "degraded", "unknown"}
  BY RollupValues
<1>5. \A q \in Assigned : locations'[q] = IF q = p THEN row ELSE locations[q]
  BY <1>2, <1>3
<1>6. \A n \in Monitor : n # m => Rollup(locations', n) = Rollup(locations, n)
  <2> SUFFICES ASSUME NEW n \in Monitor, n # m
               PROVE  Rollup(locations', n) = Rollup(locations, n)
    OBVIOUS
  <2>1. \A q \in RequiredOf(n) : locations'[q] = locations[q]
    BY <1>5, ProjectionAssumption DEF RequiredOf, m
  <2>2. QED
    BY <2>1, RollupOfSameStates
<1>7. \A n \in Monitor : n # m => /\ monitors'[n] = monitors[n]
                                  /\ incidents'[n] = incidents[n]
                                  /\ lastEvent'[n] = lastEvent[n]
  BY <1>2, <1>3 DEF Kept, Raised, Recovered
<1>8. monitors'[m] = aggregate /\ aggregate = Rollup(locations', m)
  BY <1>1, <1>2, <1>3
<1>9. \/ /\ incidents'[m] = incidents[m] /\ lastEvent'[m] = lastEvent[m]
         /\ incidents[m] = NoIncident =>
              aggregate = "up" \/ (aggregate = "unknown" /\ ~openUnknown)
         /\ incidents[m] # NoIncident => incidents[m] = IncidentAt(aggregate)
      \/ /\ incidents'[m] = IncidentAt(aggregate) /\ aggregate \in Unhealthy
         /\ lastEvent'[m] = [previous |-> incidents[m].state, state |-> aggregate]
      \/ /\ incidents'[m] = NoIncident /\ aggregate = "up"
         /\ incidents[m] # NoIncident
         /\ lastEvent'[m] = [previous |-> incidents[m].state, state |-> "up"]
  BY <1>1, <1>2, <1>3 DEF Kept, Raised, Recovered
<1> HIDE DEF m, table, aggregate
<1>10. locations' \in [Assigned -> LocationHealth]
  BY <1>2, <1>3 DEF table
<1>11. monitors' \in [Monitor -> MonitorState]
  BY <1>1, <1>2, <1>3, <1>4 DEF MonitorState, LocationState
<1>12. incidents' \in [Monitor -> Incident]
  BY <1>1, <1>2, <1>3, IncidentIsNotNoIncident
     DEF Kept, Raised, Recovered, Incident
<1>13. lastEvent' \in [Monitor -> Event]
  <2>1. incidents[m].state \in Unhealthy \union {"none"}
    BY <1>1, <1>2 DEF Incident, NoIncident
  <2>2. QED
    BY <1>1, <1>2, <1>3, <2>1 DEF Kept, Raised, Recovered, Event
<1>14. MonitorMatchesLocations'
  <2> SUFFICES ASSUME NEW n \in Monitor
               PROVE  \/ monitors'[n] = Rollup(locations', n)
                      \/ /\ monitors'[n] = "pending"
                         /\ \A q \in Assigned : q[1] = n =>
                              locations'[q] = PendingLocation
    BY DEF MonitorMatchesLocations, Rollup, RequiredOf
  <2>1. CASE n = m
    BY <1>8, <2>1
  <2>2. CASE n # m
    <3>1. \A q \in Assigned : q[1] = n => locations'[q] = locations[q]
      BY <1>5, <2>2 DEF m
    <3>2. QED
      BY <1>6, <1>7, <2>2, <3>1 DEF ProjectionInv, MonitorMatchesLocations
  <2>3. QED
    BY <2>1, <2>2
<1>15. IncidentMatchesMonitor'
  <2> SUFFICES ASSUME NEW n \in Monitor
               PROVE  IF incidents'[n] = NoIncident
                      THEN monitors'[n] \in {"pending", "up", "unknown"}
                      ELSE incidents'[n] = IncidentAt(monitors'[n])
    BY DEF IncidentMatchesMonitor, IncidentAt, SeverityFor
  <2>1. CASE n = m
    BY <1>8, <1>9, <2>1, IncidentIsNotNoIncident
  <2>2. CASE n # m
    BY <1>7, <2>2 DEF ProjectionInv, IncidentMatchesMonitor
  <2>3. QED
    BY <2>1, <2>2
<1>16. LostLocationHasIncident'
  <2> SUFFICES ASSUME NEW q \in Required, locations'[q].state = "unknown"
               PROVE  incidents'[q[1]] # NoIncident
    BY DEF LostLocationHasIncident
  <2>1. q \in Assigned /\ q[1] \in Monitor
    BY ProjectionAssumption, PlaceOfMonitor
  <2>2. CASE q[1] # m
    <3>1. locations'[q] = locations[q]
      BY <1>5, <2>1, <2>2 DEF m
    <3>2. QED
      BY <1>7, <2>1, <2>2, <3>1 DEF ProjectionInv, LostLocationHasIncident
  <2>3. CASE q[1] = m
    <3>1. aggregate = "unknown"
      BY <1>8, <2>3, RollupValues DEF RequiredOf
    <3>2. openUnknown \/ incidents[m] # NoIncident
      BY <1>5, <2>1, <2>3 DEF ProjectionInv, LostLocationHasIncident
    <3>3. QED
      BY <1>9, <2>3, <3>1, <3>2, IncidentIsNotNoIncident
  <2>4. QED
    BY <2>2, <2>3
<1>17. DeadlineArmed'
  BY <1>5 DEF ProjectionInv, DeadlineArmed
<1>18. LastEventMatchesIncident'
  <2> SUFFICES ASSUME NEW n \in Monitor
               PROVE  lastEvent'[n].state =
                        IF incidents'[n] # NoIncident THEN incidents'[n].state
                        ELSE IF lastEvent'[n] = NoEvent THEN "none" ELSE "up"
    BY DEF LastEventMatchesIncident
  <2>1. CASE n = m
    BY <1>1, <1>9, <2>1, IncidentIsNotNoIncident
       DEF ProjectionInv, LastEventMatchesIncident, IncidentAt, NoEvent
  <2>2. CASE n # m
    BY <1>7, <2>2 DEF ProjectionInv, LastEventMatchesIncident
  <2>3. QED
    BY <2>1, <2>2
<1>19. QED
  BY <1>10, <1>11, <1>12, <1>13, <1>14, <1>15, <1>16, <1>17, <1>18

-----------------------------------------------------------------------------
LEMMA ProjectionInvInit == ProjectionStart => ProjectionInv
<1> SUFFICES ASSUME ProjectionStart PROVE ProjectionInv
  OBVIOUS
<1>1. PendingLocation \in LocationHealth
  BY CounterAssumption
     DEF PendingLocation, LocationHealth, LocationState, Counter, NoDeadline
<1>2. ProjectionTypeOK
  BY <1>1, DeploymentAssumption
     DEF ProjectionStart, ProjectionInit, ProjectionTypeOK, Time, MonitorState, LocationState,
         Incident, Event
<1>3. SweepsPast
  BY DEF ProjectionStart, ProjectionInit, SweepsPast, NoSweep
<1>4. MonitorMatchesLocations
  BY DEF ProjectionStart, ProjectionInit, MonitorMatchesLocations
<1>5. IncidentMatchesMonitor
  BY DEF ProjectionStart, ProjectionInit, IncidentMatchesMonitor
<1>6. LostLocationHasIncident
  BY ProjectionAssumption
     DEF ProjectionStart, ProjectionInit, LostLocationHasIncident, PendingLocation
<1>7. DeadlineArmed
  BY DEF ProjectionStart, ProjectionInit, DeadlineArmed, PendingLocation
<1>8. LastEventMatchesIncident
  BY DEF ProjectionStart, ProjectionInit, LastEventMatchesIncident, NoEvent
<1>9. QED
  BY <1>2, <1>3, <1>4, <1>5, <1>6, <1>7, <1>8 DEF ProjectionInv

\* A result: its row is well-formed, is not unknown unless it was, and has a
\* deadline.
LEMMA ObserveKeeps ==
  ASSUME ProjectionInv, NEW p \in Assigned, NEW passed \in BOOLEAN,
         NEW f \in Time, Observe(p, passed, f), UNCHANGED <<now, sweepVars>>
  PROVE  /\ ProjectionInv'
         /\ \A q \in Assigned :
              locations'[q].state = "unknown" => locations[q].state = "unknown"
<1> DEFINE observed == ApplyProbe(locations[p], passed, Thresholds[p[1]])
<1> DEFINE deadline == Deadline(p[1], f)
<1> DEFINE row == [observed EXCEPT !.staleAt = deadline]
<1>1. locations \in [Assigned -> LocationHealth]
  BY DEF ProjectionInv, ProjectionTypeOK
<1>2. /\ observed \in LocationHealth
      /\ observed.state = "unknown" => locations[p].state = "unknown"
  BY <1>1, ApplyProbeType
<1>3. deadline \in Nat
  <2>1. Interval[p[1]] \in Nat /\ ProbeTimeout[p[1]] \in Nat /\ f \in Nat
    BY PlaceOfMonitor, DeploymentAssumption, ProjectionAssumption DEF Time
  <2>2. QED
    BY <2>1, DeploymentAssumption DEF Deadline
<1>4. Project(p[1], [locations EXCEPT ![p] = row], FALSE)
  BY DEF Observe, ProjectResult
<1> HIDE DEF observed, deadline
<1>5. row \in LocationHealth /\ row.state = observed.state /\ row.staleAt = deadline
  BY <1>2, <1>3 DEF LocationHealth
<1>6. row.staleAt # NoDeadline /\ row \notin {PendingLocation, StaleLocation}
  BY <1>3, <1>5 DEF NoDeadline, PendingLocation, StaleLocation
<1> HIDE DEF row
<1>7. /\ locations' \in [Assigned -> LocationHealth]
      /\ monitors' \in [Monitor -> MonitorState]
      /\ incidents' \in [Monitor -> Incident]
      /\ lastEvent' \in [Monitor -> Event]
      /\ MonitorMatchesLocations' /\ IncidentMatchesMonitor'
      /\ LostLocationHasIncident' /\ DeadlineArmed' /\ LastEventMatchesIncident'
  BY <1>2, <1>4, <1>5, <1>6, ProjectKeeps
<1>8. ProjectionTypeOK' /\ SweepsPast'
  BY <1>7 DEF ProjectionInv, ProjectionTypeOK, SweepsPast, sweepVars
<1>9. \A q \in Assigned :
        locations'[q].state = "unknown" => locations[q].state = "unknown"
  <2>1. locations' = [locations EXCEPT ![p] = row]
    BY <1>4, PlaceOfMonitor, ProjectEffect
  <2>2. QED
    BY <1>1, <1>2, <1>5, <2>1
<1>10. QED
  BY <1>7, <1>8, <1>9 DEF ProjectionInv

\* What a sweep may do to the health tables: nothing, or mark one place stale
\* whose deadline has passed.
LEMMA SweepClaimEffect ==
  ASSUME ProjectionInv, NEW s \in Sweeper, NEW c \in overdue[s], ClaimStale(s, c)
  PROVE  /\ c.place \in Assigned
         /\ sweepAt' \in [Sweeper -> Time \union {NoSweep}]
         /\ \A z \in Sweeper : sweepAt'[z] \in {sweepAt[z], NoSweep}
         /\ overdue' \in [Sweeper -> SUBSET Candidate]
         /\ \/ UNCHANGED healthVars
            \/ /\ MarkStale(c.place)
               /\ locations[c.place].staleAt \in 0 .. now
<1>1. /\ sweepAt \in [Sweeper -> Time \union {NoSweep}]
      /\ overdue \in [Sweeper -> SUBSET Candidate]
  BY DEF ProjectionInv, ProjectionTypeOK
<1>2. c.place \in Assigned /\ c.staleAt \in Nat
  BY <1>1 DEF Candidate
<1>3. /\ overdue' = [overdue EXCEPT ![s] = @ \ {c}]
      /\ sweepAt' = [sweepAt EXCEPT ![s] = IF overdue[s] = {c} THEN NoSweep ELSE @]
  BY DEF ClaimStale, Visited
<1>4. overdue' \in [Sweeper -> SUBSET Candidate]
  BY <1>1, <1>3
<1>5. /\ sweepAt' \in [Sweeper -> Time \union {NoSweep}]
      /\ \A z \in Sweeper : sweepAt'[z] \in {sweepAt[z], NoSweep}
  BY <1>1, <1>3
<1>6. CASE StillStale(s, c)
  <2>1. c.staleAt <= now /\ locations[c.place].staleAt = c.staleAt
    BY <1>1, <1>2, <1>6
       DEF StillStale, ProjectionInv, ProjectionTypeOK, SweepsPast, Time, NoSweep
  <2>2. locations[c.place].staleAt \in 0 .. now
    BY <1>2, <2>1 DEF ProjectionInv, ProjectionTypeOK, Time
  <2>3. QED
    BY <1>2, <1>4, <1>5, <1>6, <2>2 DEF ClaimStale
<1>7. CASE ~StillStale(s, c)
  BY <1>2, <1>4, <1>5, <1>7 DEF ClaimStale
<1>8. QED
  BY <1>6, <1>7

LEMMA MarkStaleKeeps ==
  ASSUME ProjectionInv, NEW p \in Assigned, MarkStale(p), UNCHANGED now,
         sweepAt' \in [Sweeper -> Time \union {NoSweep}],
         \A z \in Sweeper : sweepAt'[z] \in {sweepAt[z], NoSweep},
         overdue' \in [Sweeper -> SUBSET Candidate]
  PROVE  /\ ProjectionInv'
         /\ locations' = [locations EXCEPT ![p] = StaleLocation]
<1>1. Project(p[1], [locations EXCEPT ![p] = StaleLocation], TRUE)
  BY DEF MarkStale
<1>2. StaleLocation.staleAt = NoDeadline
  BY DEF StaleLocation
<1>3. /\ locations' \in [Assigned -> LocationHealth]
      /\ monitors' \in [Monitor -> MonitorState]
      /\ incidents' \in [Monitor -> Incident]
      /\ lastEvent' \in [Monitor -> Event]
      /\ MonitorMatchesLocations' /\ IncidentMatchesMonitor'
      /\ LostLocationHasIncident' /\ DeadlineArmed' /\ LastEventMatchesIncident'
  BY <1>1, <1>2, StaleLocationType, ProjectKeeps
<1>4. locations' = [locations EXCEPT ![p] = StaleLocation]
  BY <1>1, PlaceOfMonitor, ProjectEffect
<1>5. SweepsPast'
  BY DEF ProjectionInv, SweepsPast, ProjectionTypeOK, Time, NoSweep
<1>6. ProjectionTypeOK'
  BY <1>3 DEF ProjectionInv, ProjectionTypeOK
<1>7. QED
  BY <1>3, <1>4, <1>5, <1>6 DEF ProjectionInv

\* A step that leaves the health tables alone.
LEMMA SweepBookkeeping ==
  ASSUME ProjectionInv, UNCHANGED healthVars,
         now' \in Time, now <= now',
         sweepAt' \in [Sweeper -> Time \union {NoSweep}],
         \A z \in Sweeper : sweepAt'[z] <= now',
         overdue' \in [Sweeper -> SUBSET Candidate]
  PROVE  ProjectionInv'
<1>1. MonitorMatchesLocations' /\ IncidentMatchesMonitor'
  BY DEF healthVars, ProjectionInv, MonitorMatchesLocations, IncidentMatchesMonitor,
         Rollup
<1>2. LostLocationHasIncident' /\ DeadlineArmed' /\ LastEventMatchesIncident'
  BY DEF healthVars, ProjectionInv, LostLocationHasIncident, DeadlineArmed,
         LastEventMatchesIncident
<1>3. ProjectionTypeOK' /\ SweepsPast'
  BY DEF healthVars, ProjectionInv, ProjectionTypeOK, SweepsPast
<1>4. QED
  BY <1>1, <1>2, <1>3 DEF ProjectionInv

LEMMA ProjectionInvStep ==
  ASSUME ProjectionInv, [ProjectionStep]_projectionVars
  PROVE  ProjectionInv'
<1>1. CASE Tick /\ UNCHANGED <<healthVars, sweepVars>>
  <2>1. now' \in Time /\ now <= now' /\ \A s \in Sweeper : sweepAt[s] <= now'
    BY <1>1, DeploymentAssumption
       DEF Tick, Time, NoSweep, ProjectionInv, ProjectionTypeOK, SweepsPast
  <2>2. QED
    BY <1>1, <2>1, SweepBookkeeping DEF ProjectionInv, ProjectionTypeOK, sweepVars
<1>2. CASE \E s \in Sweeper :
             (BeginSweep(s) \/ ListOverdue(s) \/ ListNothing(s) \/ AbortSweep(s))
             /\ UNCHANGED now
  <2>1. PICK s \in Sweeper :
          (BeginSweep(s) \/ ListOverdue(s) \/ ListNothing(s) \/ AbortSweep(s))
          /\ UNCHANGED now
    BY <1>2
  <2>2. /\ now \in Time
        /\ sweepAt \in [Sweeper -> Time \union {NoSweep}]
        /\ overdue \in [Sweeper -> SUBSET Candidate]
        /\ \A z \in Sweeper : sweepAt[z] <= now
    BY DEF ProjectionInv, ProjectionTypeOK, SweepsPast
  <2>3. UNCHANGED healthVars /\ now' = now /\ now <= now'
    BY <2>1, <2>2
       DEF BeginSweep, ListOverdue, ListNothing, AbortSweep, Time
  <2>4. /\ sweepAt' \in [Sweeper -> Time \union {NoSweep}]
        /\ \A z \in Sweeper : sweepAt'[z] <= now'
    BY <2>1, <2>2 DEF BeginSweep, ListOverdue, ListNothing, AbortSweep, Time, NoSweep
  <2>5. overdue' \in [Sweeper -> SUBSET Candidate]
    <3>1. \A t \in Time : ListStale(t) \subseteq Candidate
      BY DEF ListStale, Candidate, Time
    <3>2. CASE ListOverdue(s)
      <4>1. sweepAt[s] \in Time
        BY <2>2, <3>2 DEF ListOverdue
      <4>2. QED
        BY <2>2, <3>1, <3>2, <4>1 DEF ListOverdue
    <3>3. CASE BeginSweep(s) \/ ListNothing(s) \/ AbortSweep(s)
      BY <2>2, <3>3 DEF BeginSweep, ListNothing, AbortSweep
    <3>4. QED
      BY <2>1, <3>2, <3>3
  <2>6. QED
    BY <2>2, <2>3, <2>4, <2>5, SweepBookkeeping
<1>3. CASE \E s \in Sweeper : \E c \in overdue[s] : ClaimStale(s, c) /\ UNCHANGED now
  <2>1. PICK s \in Sweeper : \E c \in overdue[s] : ClaimStale(s, c) /\ UNCHANGED now
    BY <1>3
  <2> PICK c \in overdue[s] : ClaimStale(s, c) /\ UNCHANGED now
    BY <2>1
  <2>2. /\ c.place \in Assigned
        /\ sweepAt' \in [Sweeper -> Time \union {NoSweep}]
        /\ \A z \in Sweeper : sweepAt'[z] \in {sweepAt[z], NoSweep}
        /\ overdue' \in [Sweeper -> SUBSET Candidate]
        /\ UNCHANGED healthVars \/ MarkStale(c.place)
    BY <2>1, SweepClaimEffect
  <2>3. CASE MarkStale(c.place)
    BY <2>1, <2>2, <2>3, MarkStaleKeeps
  <2>4. CASE UNCHANGED healthVars
    <3>1. now' \in Time /\ now <= now' /\ \A z \in Sweeper : sweepAt'[z] <= now'
      BY <2>1, <2>2 DEF ProjectionInv, ProjectionTypeOK, SweepsPast, Time, NoSweep
    <3>2. QED
      BY <2>2, <2>4, <3>1, SweepBookkeeping
  <2>5. QED
    BY <2>2, <2>3, <2>4
<1>4. CASE \E p \in Assigned, passed \in BOOLEAN, f \in Time :
             Observe(p, passed, f) /\ UNCHANGED <<now, sweepVars>>
  BY <1>4, ObserveKeeps
<1>5. CASE UNCHANGED projectionVars
  <2>1. now' = now /\ now \in Time /\ now <= now
    BY <1>5 DEF projectionVars, ProjectionInv, ProjectionTypeOK, Time
  <2>2. QED
    BY <1>5, <2>1, SweepBookkeeping
       DEF projectionVars, sweepVars, ProjectionInv, ProjectionTypeOK, SweepsPast
<1>6. QED
  BY <1>1, <1>2, <1>3, <1>4, <1>5 DEF ProjectionStep, Sweep

\* ProjectionInv holds in every reachable state.
THEOREM ProjectionInvariance == ProjectionSpec => []ProjectionInv
<1>1. ProjectionStart => ProjectionInv
  BY ProjectionInvInit
<1>2. ProjectionInv /\ [ProjectionStep]_projectionVars => ProjectionInv'
  BY ProjectionInvStep
<1>3. QED
  BY <1>1, <1>2, PTL DEF ProjectionSpec

\* The tables keep their types: the counters their width, the sweeps their lists.
THEOREM ProjectionTypes == ProjectionSpec => []ProjectionTypeOK
<1>1. ProjectionInv => ProjectionTypeOK
  BY DEF ProjectionInv
<1>2. QED
  BY <1>1, ProjectionInvariance, PTL

\* The stored health of a monitor is the rollup of its required locations
\* (projectAggregateAndIncident), however many there are.
THEOREM ProjectionMonitorMatches == ProjectionSpec => []MonitorMatchesLocations
<1>1. ProjectionInv => MonitorMatchesLocations
  BY DEF ProjectionInv
<1>2. QED
  BY <1>1, ProjectionInvariance, PTL

\* The active incident shows what the monitor is now (DecideIncident).
THEOREM ProjectionIncidentMatches == ProjectionSpec => []IncidentMatchesMonitor
<1>1. ProjectionInv => IncidentMatchesMonitor
  BY DEF ProjectionInv
<1>2. QED
  BY <1>1, ProjectionInvariance, PTL

\* A required location that went silent always has an incident (the openUnknown
\* flag that only the staleness worker sets).
THEOREM ProjectionLostHasIncident == ProjectionSpec => []LostLocationHasIncident
<1>1. ProjectionInv => LostLocationHasIncident
  BY DEF ProjectionInv
<1>2. QED
  BY <1>1, ProjectionInvariance, PTL

\* A location has a deadline exactly while it holds an observation (ingest arms
\* it, ClaimStale clears it with the counters).
THEOREM ProjectionDeadlineArmed == ProjectionSpec => []DeadlineArmed
<1>1. ProjectionInv => DeadlineArmed
  BY DEF ProjectionInv
<1>2. QED
  BY <1>1, ProjectionInvariance, PTL

\* The event log agrees with the incident table.
THEOREM ProjectionEventMatches == ProjectionSpec => []LastEventMatchesIncident
<1>1. ProjectionInv => LastEventMatchesIncident
  BY DEF ProjectionInv
<1>2. QED
  BY <1>1, ProjectionInvariance, PTL

-----------------------------------------------------------------------------
\* A step that does not touch the health tables wipes no row and logs no event.
LEMMA ProjectionStepCases ==
  ASSUME ProjectionInv, [ProjectionStep]_projectionVars
  PROVE  \/ UNCHANGED healthVars
         \/ \E s \in Sweeper : \E c \in overdue[s] : ClaimStale(s, c)
         \/ /\ UNCHANGED <<now, sweepVars>>
            /\ \E p \in Assigned, passed \in BOOLEAN, f \in Time :
                 Observe(p, passed, f)
BY DEF ProjectionStep, Sweep, BeginSweep, ListOverdue, ListNothing, AbortSweep,
       projectionVars

LEMMA StepMarksOnlyOverdue ==
  ASSUME ProjectionInv, [ProjectionStep]_projectionVars,
         NEW p \in Assigned,
         locations[p].state # "unknown", locations'[p].state = "unknown"
  PROVE  locations[p].staleAt \in 0 .. now
<1>1. CASE UNCHANGED healthVars
  BY <1>1 DEF healthVars
<1>2. CASE \E s \in Sweeper : \E c \in overdue[s] : ClaimStale(s, c)
  <2>1. PICK s \in Sweeper : \E c \in overdue[s] : ClaimStale(s, c)
    BY <1>2
  <2> PICK c \in overdue[s] : ClaimStale(s, c)
    BY <2>1
  <2>2. /\ c.place \in Assigned
        /\ MarkStale(c.place) /\ locations[c.place].staleAt \in 0 .. now
    BY <2>1, SweepClaimEffect DEF healthVars
  <2>3. locations' = [locations EXCEPT ![c.place] = StaleLocation]
    BY <2>2, PlaceOfMonitor, ProjectEffect DEF MarkStale
  <2>4. p = c.place
    BY <2>3 DEF ProjectionInv, ProjectionTypeOK
  <2>5. QED
    BY <2>2, <2>4
<1>3. CASE /\ UNCHANGED <<now, sweepVars>>
           /\ \E q \in Assigned, passed \in BOOLEAN, f \in Time :
                Observe(q, passed, f)
  BY <1>3, ObserveKeeps
<1>4. QED
  BY <1>1, <1>2, <1>3, ProjectionStepCases

\* A row that was refreshed after a sweep listed it is never wiped out.
THEOREM ProjectionStaleOnlyWhenOverdue == ProjectionSpec => StaleOnlyWhenOverdue
<1>1. ProjectionInv /\ [ProjectionStep]_projectionVars =>
        [\A p \in Assigned :
           locations[p].state # "unknown" /\ locations'[p].state = "unknown"
             => locations[p].staleAt \in 0 .. now]_projectionVars
  BY StepMarksOnlyOverdue
<1>2. QED
  BY <1>1, ProjectionInvariance, PTL DEF ProjectionSpec, StaleOnlyWhenOverdue

-----------------------------------------------------------------------------
Chained(m) ==
  lastEvent'[m] # lastEvent[m] =>
    /\ lastEvent'[m].state # lastEvent'[m].previous
    /\ IF lastEvent[m].state \in {"none", "up"}
       THEN lastEvent'[m].previous = "none"
       ELSE lastEvent'[m].previous = lastEvent[m].state

\* One projection appends at most one event, and it continues the last one.
LEMMA ProjectChains ==
  ASSUME ProjectionInv, NEW n \in Monitor, NEW table, NEW openUnknown \in BOOLEAN,
         Project(n, table, openUnknown), NEW m \in Monitor
  PROVE  Chained(m)
<1> DEFINE aggregate == Rollup(table, n)
<1>1. /\ monitors \in [Monitor -> MonitorState]
      /\ incidents \in [Monitor -> Incident]
      /\ lastEvent \in [Monitor -> Event]
  BY DEF ProjectionInv, ProjectionTypeOK
<1>2. \/ Kept(n, aggregate, openUnknown)
      \/ Raised(n, aggregate)
      \/ Recovered(n, aggregate)
  BY ProjectEffect
<1>3. lastEvent[n].state = IF incidents[n] # NoIncident THEN incidents[n].state
                           ELSE IF lastEvent[n] = NoEvent THEN "none" ELSE "up"
  BY DEF ProjectionInv, LastEventMatchesIncident
<1>4. incidents[n] # NoIncident =>
        /\ incidents[n] = IncidentAt(monitors[n])
        /\ incidents[n].state = monitors[n]
        /\ incidents[n].state \in Unhealthy
  BY <1>1 DEF ProjectionInv, IncidentMatchesMonitor, IncidentAt, Incident
<1>5. incidents[n] = NoIncident => incidents[n].state = "none"
  BY DEF NoIncident
<1> HIDE DEF aggregate
<1>6. CASE m # n \/ Kept(n, aggregate, openUnknown)
  BY <1>1, <1>2, <1>6 DEF Kept, Raised, Recovered, Chained
<1>7. CASE m = n /\ Raised(n, aggregate)
  <2>1. /\ lastEvent'[n] = [previous |-> incidents[n].state, state |-> aggregate]
        /\ aggregate \in Unhealthy
    BY <1>1, <1>7 DEF Raised
  <2>2. incidents[n].state # aggregate
    BY <1>4, <1>5, <1>7, <2>1 DEF Raised, Unhealthy
  <2>3. QED
    BY <1>3, <1>4, <1>5, <1>7, <2>1, <2>2 DEF Chained, Unhealthy
<1>8. CASE m = n /\ Recovered(n, aggregate)
  <2>1. /\ lastEvent'[n] = [previous |-> incidents[n].state, state |-> "up"]
        /\ incidents[n] # NoIncident
    BY <1>1, <1>8 DEF Recovered
  <2>2. QED
    BY <1>3, <1>4, <1>8, <2>1 DEF Chained, Unhealthy
<1>9. QED
  BY <1>2, <1>6, <1>7, <1>8

LEMMA StepChains ==
  ASSUME ProjectionInv, [ProjectionStep]_projectionVars, NEW m \in Monitor
  PROVE  Chained(m)
<1>1. CASE UNCHANGED healthVars
  BY <1>1 DEF healthVars, Chained
<1>2. CASE \E s \in Sweeper : \E c \in overdue[s] : ClaimStale(s, c)
  <2>1. PICK s \in Sweeper : \E c \in overdue[s] : ClaimStale(s, c)
    BY <1>2
  <2> PICK c \in overdue[s] : ClaimStale(s, c)
    BY <2>1
  <2>2. c.place \in Assigned /\ (UNCHANGED healthVars \/ MarkStale(c.place))
    BY <2>1, SweepClaimEffect
  <2>3. CASE MarkStale(c.place)
    BY <2>2, <2>3, PlaceOfMonitor, ProjectChains DEF MarkStale
  <2>4. QED
    BY <1>1, <2>2, <2>3
<1>3. CASE /\ UNCHANGED <<now, sweepVars>>
           /\ \E q \in Assigned, passed \in BOOLEAN, f \in Time :
                Observe(q, passed, f)
  BY <1>3, PlaceOfMonitor, ProjectChains DEF Observe, ProjectResult
<1>4. QED
  BY <1>1, <1>2, <1>3, ProjectionStepCases

\* No transition is notified twice and none is skipped: every event continues
\* from the state the last one left.
THEOREM ProjectionEventsChain == ProjectionSpec => EventsChain
<1>1. ProjectionInv /\ [ProjectionStep]_projectionVars =>
        [\A m \in Monitor : lastEvent'[m] # lastEvent[m] =>
           /\ lastEvent'[m].state # lastEvent'[m].previous
           /\ IF lastEvent[m].state \in {"none", "up"}
              THEN lastEvent'[m].previous = "none"
              ELSE lastEvent'[m].previous = lastEvent[m].state]_projectionVars
  BY StepChains DEF Chained
<1>2. QED
  BY <1>1, ProjectionInvariance, PTL DEF ProjectionSpec, EventsChain

-----------------------------------------------------------------------------
(***************************************************************************)
(* The scheduler and the server.                                           *)
(***************************************************************************)
\* A tick computes with a time that was read.
TicksPast == \A i \in Replica : tickAt[i] <= now

\* next_run_at is on the grid of the monitor's interval.
NextOnGrid == \A m \in Monitor : nextRun[m] % Interval[m] = 0

\* So is what a replica listed, which was due at the time of its tick.
DueOnGrid ==
  \A i \in Replica : \A d \in due[i] :
    d.next % Interval[d.place[1]] = 0 /\ d.next <= tickAt[i]

\* The slot before next_run_at has its run, at some location.
LatestEnqueued ==
  \A m \in Monitor : nextRun[m] # 0 =>
    \E r \in Run : /\ r.monitor = m
                   /\ r.at + Interval[m] = nextRun[m]
                   /\ runs[r].status # "absent"

ScheduleInv ==
  /\ now \in Time
  /\ runs \in [Run -> Row]
  /\ SchedulerTypeOK
  /\ TicksPast
  /\ NextOnGrid
  /\ DueOnGrid
  /\ RunsOnGrid
  /\ LatestEnqueued

-----------------------------------------------------------------------------
\* Facts of integer division by an interval.
LEMMA DivBounds ==
  ASSUME NEW d \in Nat, NEW n \in Nat \ {0}
  PROVE  d \div n \in Nat /\ (d \div n) * n \in Nat /\ (d \div n) * n <= d
OBVIOUS

LEMMA MultipleOnGrid ==
  ASSUME NEW k \in Nat, NEW n \in Nat \ {0}
  PROVE  (k * n) % n = 0
OBVIOUS

LEMMA OnGridIsMultiple ==
  ASSUME NEW t \in Nat, NEW n \in Nat \ {0}, t % n = 0
  PROVE  t = (t \div n) * n
OBVIOUS

LEMMA GridPlusMultiple ==
  ASSUME NEW t \in Nat, NEW n \in Nat \ {0}, t % n = 0, NEW k \in Nat
  PROVE  t + k * n \in Nat /\ (t + k * n) % n = 0
<1> DEFINE q == t \div n
<1>1. q \in Nat /\ t = q * n
  BY DivBounds, OnGridIsMultiple
<1> HIDE DEF q
<1>2. t + k * n = (q + k) * n /\ q + k \in Nat
  BY <1>1
<1>3. ((q + k) * n) % n = 0
  BY <1>2, MultipleOnGrid
<1>4. QED
  BY <1>2, <1>3

\* Two times of one grid are apart by an interval.
LEMMA GridDistance ==
  ASSUME NEW s \in Nat, NEW t \in Nat, NEW n \in Nat \ {0},
         s % n = 0, t % n = 0, s < t
  PROVE  s + n <= t
<1>1. s = (s \div n) * n /\ t = (t \div n) * n
  BY OnGridIsMultiple
<1>2. s \div n \in Nat /\ t \div n \in Nat
  BY DivBounds
<1> DEFINE a == s \div n
<1> DEFINE b == t \div n
<1> HIDE DEF a, b
<1>3. a \in Nat /\ b \in Nat /\ s = a * n /\ t = b * n
  BY <1>1, <1>2 DEF a, b
<1>4. a < b
  BY <1>3
<1>5. a + 1 <= b
  BY <1>3, <1>4
<1>6. (a + 1) * n <= b * n
  BY <1>3, <1>5
<1>7. QED
  BY <1>3, <1>6

\* boundedSchedule picks the latest time of the grid that is due.
LEMMA LatestDueOnGrid ==
  ASSUME NEW next \in Nat, NEW n \in Nat \ {0}, NEW t \in Nat,
         next % n = 0, next <= t
  PROVE  /\ LatestDue(next, n, t) \in Nat
         /\ LatestDue(next, n, t) % n = 0
         /\ LatestDue(next, n, t) <= t
<1> DEFINE k == (t - next) \div n
<1>1. t - next \in Nat
  OBVIOUS
<1>2. k \in Nat /\ k * n \in Nat /\ k * n <= t - next
  BY <1>1, DivBounds
<1>3. LatestDue(next, n, t) = next + k * n
  BY DEF LatestDue, SkippedIntervals
<1> HIDE DEF k
<1>4. QED
  BY <1>2, <1>3, GridPlusMultiple

-----------------------------------------------------------------------------
LEMMA IntervalType ==
  ASSUME NEW m \in Monitor
  PROVE  Interval[m] \in Nat \ {0}
BY DeploymentAssumption

LEMMA RunType ==
  ASSUME NEW r \in Run
  PROVE  r.monitor \in Monitor /\ r.at \in Time /\ r.at \in Nat
<1>1. r.monitor \in Monitor /\ r.at \in Slots
  BY DEF Run
<1>2. r.at \in Time
  BY <1>1, RunTableAssumption
<1>3. QED
  BY <1>1, <1>2 DEF Time

LEMMA InsertEffect ==
  ASSUME NEW r \in Run, runs \in [Run -> Row], InsertRun(r)
  PROVE  /\ runs' \in [Run -> Row]
         /\ \A q \in Run :
              runs'[q].status = "absent" <=> q # r /\ runs[q].status = "absent"
<1>1. CASE runs[r].status = "absent"
  BY <1>1 DEF InsertRun, Row
<1>2. CASE runs[r].status # "absent"
  BY <1>2 DEF InsertRun, Row
<1>3. QED
  BY <1>1, <1>2

\* What one transaction of a tick inserts and advances.
LEMMA EnqueueEffect ==
  ASSUME ScheduleInv, NEW i \in Replica, NEW d \in due[i], Enqueue(i, d)
  PROVE  \E r \in Run :
           /\ InsertRun(r)
           /\ r.monitor = d.place[1] /\ r.location = d.place[2]
           /\ r.at <= now
           /\ r.at % Interval[r.monitor] = 0
           /\ nextRun' = [nextRun EXCEPT ![r.monitor] =
                            IF @ < r.at + Interval[r.monitor]
                            THEN r.at + Interval[r.monitor] ELSE @]
<1> DEFINE m == d.place[1]
<1> DEFINE r == DueRun(i, d)
<1>1. /\ d.place \in Assigned /\ d.next \in Nat
      /\ tickAt[i] \in Time /\ tickAt[i] <= now
      /\ now \in Time
  <2>1. due[i] # {}
    OBVIOUS
  <2>2. QED
    BY <2>1 DEF ScheduleInv, SchedulerTypeOK, DueRow, TicksPast
<1>2. m \in Monitor /\ d.place[2] \in Location /\ d.place = <<m, d.place[2]>>
  BY <1>1, DeploymentAssumption
<1>3. Interval[m] \in Nat \ {0}
  BY <1>2, IntervalType
<1>4. d.next % Interval[m] = 0 /\ d.next <= tickAt[i]
  BY DEF ScheduleInv, DueOnGrid
<1>5. /\ r.at \in Nat
      /\ r.at % Interval[m] = 0
      /\ r.at <= tickAt[i]
  <2> DEFINE latest == LatestDue(d.next, Interval[m], tickAt[i])
  <2>1. tickAt[i] \in Nat
    BY <1>1 DEF Time
  <2>2. latest \in Nat /\ latest % Interval[m] = 0 /\ latest <= tickAt[i]
    BY <1>1, <1>3, <1>4, <2>1, LatestDueOnGrid
  <2>3. r.at = latest
    BY DEF DueRun
  <2>4. QED
    BY <2>2, <2>3
<1>6. r.at \in Time
  <2> HIDE DEF r
  <2>1. QED
    BY <1>1, <1>5, DeploymentAssumption DEF Time
<1>7. r \in Run
  BY <1>1, <1>2, <1>5, <1>6, SchedulerAssumption DEF DueRun, Run
<1>8. r.monitor = m /\ r.location = d.place[2]
  BY DEF DueRun
<1>9. r.at <= now
  BY <1>1, <1>5 DEF Time
<1>10. /\ InsertRun(r)
       /\ nextRun' = [nextRun EXCEPT ![m] = IF @ < r.at + Interval[m]
                                            THEN r.at + Interval[m] ELSE @]
  BY DEF Enqueue, AdvanceNextRun
<1> HIDE DEF r, m
<1>11. QED
  BY <1>5, <1>7, <1>8, <1>9, <1>10 DEF m

\* It leaves the replica with less of its list, or with none.
LEMMA EnqueueBookkeeping ==
  ASSUME ScheduleInv, NEW i \in Replica, NEW d \in due[i], Enqueue(i, d)
  PROVE  /\ tickAt' \in [Replica -> Time \union {NoTick}]
         /\ due' \in [Replica -> SUBSET DueRow]
         /\ \A j \in Replica : /\ due'[j] \subseteq due[j]
                               /\ due'[j] # {} => tickAt'[j] = tickAt[j]
                               /\ tickAt'[j] = NoTick => due'[j] = {}
                               /\ tickAt'[j] \in {tickAt[j], NoTick}
<1>1. /\ tickAt \in [Replica -> Time \union {NoTick}]
      /\ due \in [Replica -> SUBSET DueRow]
      /\ \A j \in Replica : tickAt[j] = NoTick => due[j] = {}
  BY DEF ScheduleInv, SchedulerTypeOK
<1>2. /\ due' = [due EXCEPT ![i] = @ \ {d}]
      /\ tickAt' = [tickAt EXCEPT ![i] = IF due[i] = {d} THEN NoTick ELSE @]
  BY DEF Enqueue
<1>3. /\ tickAt' \in [Replica -> Time \union {NoTick}]
      /\ due' \in [Replica -> SUBSET DueRow]
  BY <1>1, <1>2
<1>4. ASSUME NEW j \in Replica
      PROVE  /\ due'[j] \subseteq due[j]
             /\ due'[j] # {} => tickAt'[j] = tickAt[j]
             /\ tickAt'[j] = NoTick => due'[j] = {}
             /\ tickAt'[j] \in {tickAt[j], NoTick}
  <2>1. CASE j # i
    BY <1>1, <1>2, <2>1
  <2>2. CASE j = i /\ due[i] = {d}
    BY <1>1, <1>2, <2>2
  <2>3. CASE j = i /\ due[i] # {d}
    BY <1>1, <1>2, <2>3
  <2>4. QED
    BY <2>1, <2>2, <2>3
<1>5. QED
  BY <1>3, <1>4

-----------------------------------------------------------------------------
LEMMA ScheduleInvInit == RunInit /\ SchedulerInit => ScheduleInv
<1> SUFFICES ASSUME RunInit, SchedulerInit PROVE ScheduleInv
  OBVIOUS
<1>1. now \in Time /\ runs \in [Run -> Row]
  BY DeploymentAssumption DEF RunInit, AbsentRow, Row, Time
<1>2. SchedulerTypeOK /\ TicksPast /\ DueOnGrid
  BY DEF RunInit, SchedulerInit, SchedulerTypeOK, TicksPast, DueOnGrid, NoTick
<1>3. NextOnGrid
  <2> SUFFICES ASSUME NEW m \in Monitor PROVE nextRun[m] % Interval[m] = 0
    BY DEF NextOnGrid
  <2>1. (0 * Interval[m]) % Interval[m] = 0 /\ 0 * Interval[m] = 0
    BY IntervalType, MultipleOnGrid
  <2>2. QED
    BY <2>1 DEF SchedulerInit
<1>4. RunsOnGrid /\ LatestEnqueued
  BY DEF RunInit, SchedulerInit, RunsOnGrid, LatestEnqueued, AbsentRow
<1>5. QED
  BY <1>1, <1>2, <1>3, <1>4 DEF ScheduleInv

\* Whatever the other services and the clock do: they enqueue no run and
\* remove none.
LEMMA ScheduleInvOthers ==
  ASSUME ScheduleInv, UNCHANGED schedVars, now' \in Time, now <= now',
         runs' \in [Run -> Row],
         \A r \in Run : runs'[r].status = "absent" <=> runs[r].status = "absent"
  PROVE  ScheduleInv'
<1>1. SchedulerTypeOK' /\ NextOnGrid' /\ DueOnGrid'
  BY DEF ScheduleInv, schedVars, SchedulerTypeOK, NextOnGrid, DueOnGrid
<1>2. TicksPast'
  BY DEF ScheduleInv, schedVars, SchedulerTypeOK, TicksPast, Time, NoTick
<1>3. RunsOnGrid'
  <2> SUFFICES ASSUME NEW r \in Run, runs'[r].status # "absent"
               PROVE  /\ r.at % Interval[r.monitor] = 0
                      /\ r.at <= now'
                      /\ r.at < nextRun'[r.monitor]
    BY DEF RunsOnGrid
  <2>1. /\ r.at % Interval[r.monitor] = 0 /\ r.at <= now
        /\ r.at < nextRun[r.monitor]
    BY DEF ScheduleInv, RunsOnGrid
  <2>2. QED
    BY <2>1, RunType DEF ScheduleInv, Time, schedVars
<1>4. LatestEnqueued'
  BY DEF ScheduleInv, LatestEnqueued, schedVars
<1>5. QED
  BY <1>1, <1>2, <1>3, <1>4 DEF ScheduleInv

\* The statements of a tick that write nothing.
LEMMA ScheduleInvReads ==
  ASSUME ScheduleInv, NEW i \in Replica,
         BeginTick(i) \/ ListDue(i) \/ AbortTick(i), UNCHANGED <<now, runs>>
  PROVE  ScheduleInv'
<1>1. /\ now \in Time
      /\ nextRun \in [Monitor -> Nat]
      /\ tickAt \in [Replica -> Time \union {NoTick}]
      /\ due \in [Replica -> SUBSET DueRow]
      /\ \A j \in Replica : tickAt[j] = NoTick => due[j] = {}
  BY DEF ScheduleInv, SchedulerTypeOK
<1>2. nextRun' = nextRun
  BY DEF BeginTick, ListDue, AbortTick
<1>3. SchedulerTypeOK' /\ TicksPast' /\ DueOnGrid'
  <2>1. CASE BeginTick(i)
    <3>1. SchedulerTypeOK'
      BY <1>1, <2>1 DEF BeginTick, SchedulerTypeOK, Time, NoTick
    <3>2. TicksPast'
      BY <1>1, <2>1 DEF BeginTick, TicksPast, ScheduleInv, Time
    <3>3. DueOnGrid'
      BY <1>1, <2>1 DEF BeginTick, DueOnGrid, ScheduleInv
    <3>4. QED
      BY <3>1, <3>2, <3>3
  <2>2. CASE ListDue(i)
    <3>1. PICK listed \in SUBSET DueRows(tickAt[i]) :
            /\ due' = [due EXCEPT ![i] = listed]
            /\ tickAt' = IF listed = {} THEN [tickAt EXCEPT ![i] = NoTick] ELSE tickAt
      BY <2>2 DEF ListDue
    <3>2. tickAt[i] \in Time
      BY <1>1, <2>2 DEF ListDue
    <3>3. \A d \in listed :
            /\ d \in DueRow
            /\ d.next % Interval[d.place[1]] = 0
            /\ d.next <= tickAt[i]
      <4> SUFFICES ASSUME NEW d \in listed
                   PROVE  /\ d \in DueRow
                          /\ d.next % Interval[d.place[1]] = 0
                          /\ d.next <= tickAt[i]
        OBVIOUS
      <4>1. /\ d \in [place : Assigned, next : 0 .. tickAt[i]]
            /\ nextRun[d.place[1]] = d.next
        BY <3>1 DEF DueRows
      <4>2. d.place[1] \in Monitor
        BY <4>1, DeploymentAssumption
      <4>3. QED
        BY <3>2, <4>1, <4>2 DEF ScheduleInv, NextOnGrid, DueRow, Time
    <3>4. SchedulerTypeOK'
      BY <1>1, <1>2, <2>2, <3>1, <3>2, <3>3 DEF ListDue, SchedulerTypeOK, Time, NoTick
    <3>5. TicksPast'
      BY <1>1, <3>1 DEF ScheduleInv, TicksPast, Time, NoTick
    <3>6. DueOnGrid'
      BY <1>1, <3>1, <3>3 DEF ScheduleInv, DueOnGrid
    <3>7. QED
      BY <3>4, <3>5, <3>6
  <2>3. CASE AbortTick(i)
    <3>1. SchedulerTypeOK'
      BY <1>1, <2>3 DEF AbortTick, SchedulerTypeOK
    <3>2. TicksPast'
      BY <1>1, <2>3 DEF AbortTick, TicksPast, ScheduleInv, Time, NoTick
    <3>3. DueOnGrid'
      BY <1>1, <2>3 DEF AbortTick, DueOnGrid, ScheduleInv
    <3>4. QED
      BY <3>1, <3>2, <3>3
  <2>4. QED
    BY <2>1, <2>2, <2>3
<1>4. NextOnGrid' /\ RunsOnGrid' /\ LatestEnqueued'
  BY <1>2 DEF ScheduleInv, NextOnGrid, RunsOnGrid, LatestEnqueued
<1>5. QED
  BY <1>1, <1>3, <1>4 DEF ScheduleInv

\* One transaction of a tick.
LEMMA ScheduleInvEnqueue ==
  ASSUME ScheduleInv, NEW i \in Replica, NEW d \in due[i], Enqueue(i, d),
         UNCHANGED now
  PROVE  ScheduleInv'
<1>1. PICK r \in Run :
        /\ InsertRun(r)
        /\ r.at <= now
        /\ r.at % Interval[r.monitor] = 0
        /\ nextRun' = [nextRun EXCEPT ![r.monitor] =
                         IF @ < r.at + Interval[r.monitor]
                         THEN r.at + Interval[r.monitor] ELSE @]
  BY EnqueueEffect
<1> DEFINE m == r.monitor
<1> DEFINE after == r.at + Interval[m]
<1>2. m \in Monitor /\ r.at \in Nat /\ Interval[m] \in Nat \ {0}
  BY RunType, IntervalType
<1>3. /\ nextRun \in [Monitor -> Nat]
      /\ due \in [Replica -> SUBSET DueRow]
      /\ now \in Time
  BY DEF ScheduleInv, SchedulerTypeOK
<1>4. after \in Nat /\ r.at < after
  BY <1>2
<1>5. after % Interval[m] = 0
  <2>1. r.at + 1 * Interval[m] = after
    BY <1>2
  <2>2. (r.at + 1 * Interval[m]) % Interval[m] = 0
    BY <1>1, <1>2, GridPlusMultiple
  <2>3. QED
    BY <2>1, <2>2
<1>6. nextRun' = [nextRun EXCEPT ![m] = IF @ < after THEN after ELSE @]
  BY <1>1
<1> HIDE DEF after, m
<1>7. /\ nextRun' \in [Monitor -> Nat]
      /\ \A n \in Monitor : nextRun[n] <= nextRun'[n]
      /\ \A n \in Monitor : nextRun'[n] = nextRun[n] \/ (n = m /\ nextRun'[n] = after)
      /\ after <= nextRun'[m]
  BY <1>2, <1>3, <1>4, <1>6
<1>8. /\ runs' \in [Run -> Row]
      /\ \A q \in Run :
           runs'[q].status = "absent" <=> q # r /\ runs[q].status = "absent"
  BY <1>1, InsertEffect DEF ScheduleInv
<1>9. /\ tickAt' \in [Replica -> Time \union {NoTick}]
      /\ due' \in [Replica -> SUBSET DueRow]
      /\ \A j \in Replica : /\ due'[j] \subseteq due[j]
                            /\ due'[j] # {} => tickAt'[j] = tickAt[j]
                            /\ tickAt'[j] = NoTick => due'[j] = {}
                            /\ tickAt'[j] \in {tickAt[j], NoTick}
  BY EnqueueBookkeeping
<1>10. SchedulerTypeOK'
  BY <1>7, <1>9 DEF SchedulerTypeOK
<1>11. TicksPast'
  BY <1>3, <1>9 DEF ScheduleInv, TicksPast, Time, NoTick
<1>12. NextOnGrid'
  BY <1>5, <1>7 DEF ScheduleInv, NextOnGrid
<1>13. DueOnGrid'
  BY <1>9 DEF ScheduleInv, DueOnGrid
<1>14. RunsOnGrid'
  <2> SUFFICES ASSUME NEW q \in Run, runs'[q].status # "absent"
               PROVE  /\ q.at % Interval[q.monitor] = 0
                      /\ q.at <= now'
                      /\ q.at < nextRun'[q.monitor]
    BY DEF RunsOnGrid
  <2>1. CASE q = r
    BY <1>1, <1>2, <1>3, <1>4, <1>7, <2>1 DEF m, Time
  <2>2. CASE q # r
    <3>1. /\ q.at % Interval[q.monitor] = 0
          /\ q.at <= now
          /\ q.at < nextRun[q.monitor]
      BY <1>8, <2>2 DEF ScheduleInv, RunsOnGrid
    <3>2. q.monitor \in Monitor /\ q.at \in Nat
      BY RunType
    <3>3. q.at < nextRun'[q.monitor]
      BY <1>3, <1>7, <3>1, <3>2
    <3>4. QED
      BY <3>1, <3>3
  <2>3. QED
    BY <2>1, <2>2
<1>15. LatestEnqueued'
  <2> SUFFICES ASSUME NEW n \in Monitor, nextRun'[n] # 0
               PROVE  \E q \in Run : /\ q.monitor = n
                                     /\ q.at + Interval[n] = nextRun'[n]
                                     /\ runs'[q].status # "absent"
    BY DEF LatestEnqueued
  <2>1. CASE nextRun'[n] = nextRun[n]
    BY <1>8, <2>1 DEF ScheduleInv, LatestEnqueued
  <2>2. CASE n = m /\ nextRun'[n] = after
    BY <1>8, <2>2 DEF m, after
  <2>3. QED
    BY <1>7, <2>1, <2>2
<1>16. QED
  BY <1>3, <1>8, <1>10, <1>11, <1>12, <1>13, <1>14, <1>15 DEF ScheduleInv

LEMMA ScheduleInvStep ==
  ASSUME ScheduleInv, [ScheduleStep]_schedulerVars
  PROVE  ScheduleInv'
<1>1. CASE Tick /\ UNCHANGED <<runVars, schedVars>>
  <2>1. now' \in Time /\ now <= now'
    BY <1>1, DeploymentAssumption DEF Tick, Time, ScheduleInv
  <2>2. QED
    BY <1>1, <2>1, ScheduleInvOthers DEF ScheduleInv, runVars
<1>2. CASE \E i \in Replica :
             (BeginTick(i) \/ ListDue(i) \/ AbortTick(i)) /\ UNCHANGED <<now, runs>>
  BY <1>2, ScheduleInvReads
<1>3. CASE \E i \in Replica : \E d \in due[i] : Enqueue(i, d) /\ UNCHANGED now
  BY <1>3, ScheduleInvEnqueue
<1>4. CASE UNCHANGED schedulerVars
  <2>1. now' \in Time /\ now <= now'
    BY <1>4 DEF schedulerVars, ScheduleInv, Time
  <2>2. QED
    BY <1>4, <2>1, ScheduleInvOthers DEF schedulerVars, runVars, ScheduleInv
<1>5. QED
  BY <1>1, <1>2, <1>3, <1>4 DEF ScheduleStep

\* ScheduleInv holds in every reachable state.
THEOREM ScheduleInvariance == ScheduleSpec => []ScheduleInv
<1>1. ScheduleStart => ScheduleInv
  BY ScheduleInvInit DEF ScheduleStart
<1>2. ScheduleInv /\ [ScheduleStep]_schedulerVars => ScheduleInv'
  BY ScheduleInvStep
<1>3. QED
  BY <1>1, <1>2, PTL DEF ScheduleSpec

\* The schedule, the ticks and their lists keep their types.
THEOREM ScheduleTypes == ScheduleSpec => []SchedulerTypeOK
<1>1. ScheduleInv => SchedulerTypeOK
  BY DEF ScheduleInv
<1>2. QED
  BY <1>1, ScheduleInvariance, PTL

\* Every run is on the grid of its monitor, in the past, and before the next
\* run (boundedSchedule and the guard of AdvanceMonitorSchedule).
THEOREM ScheduleRunsOnGrid == ScheduleSpec => []RunsOnGrid
<1>1. ScheduleInv => RunsOnGrid
  BY DEF ScheduleInv
<1>2. QED
  BY <1>1, ScheduleInvariance, PTL

-----------------------------------------------------------------------------
\* CreateMonitor assigns one location to a monitor.
OneLocation == \A p, q \in Assigned : p[1] = q[1] => p = q

LEMMA DroppedForLater == ASSUME OneLocation, ScheduleInv PROVE DroppedOnlyForLater
<1> SUFFICES ASSUME NEW r \in Run,
                    r.at % Interval[r.monitor] = 0,
                    r.at < nextRun[r.monitor],
                    runs[r].status = "absent"
             PROVE  \E q \in Run : /\ q.monitor = r.monitor /\ q.location = r.location
                                   /\ q.at > r.at /\ runs[q].status # "absent"
  BY DEF DroppedOnlyForLater
<1> DEFINE m == r.monitor
<1>1. m \in Monitor /\ r.at \in Nat /\ nextRun[m] \in Nat /\ Interval[m] \in Nat \ {0}
  BY RunType, IntervalType DEF ScheduleInv, SchedulerTypeOK
<1>2. PICK q \in Run : /\ q.monitor = m
                       /\ q.at + Interval[m] = nextRun[m]
                       /\ runs[q].status # "absent"
  BY <1>1 DEF ScheduleInv, LatestEnqueued
<1>3. q.at \in Nat
  BY RunType
<1>4. r.at + Interval[m] <= nextRun[m]
  BY <1>1, GridDistance DEF ScheduleInv, NextOnGrid
<1>5. r.at <= q.at
  BY <1>1, <1>2, <1>3, <1>4
<1>6. q.location = r.location
  <2>1. <<q.monitor, q.location>> \in Assigned /\ <<r.monitor, r.location>> \in Assigned
    BY DEF Run
  <2>2. <<q.monitor, q.location>> = <<r.monitor, r.location>>
    BY <1>2, <2>1 DEF OneLocation
  <2>3. QED
    BY <2>2
<1>7. q.at # r.at
  <2>1. q # r
    BY <1>2
  <2>2. /\ q = [monitor |-> q.monitor, location |-> q.location, at |-> q.at]
        /\ r = [monitor |-> r.monitor, location |-> r.location, at |-> r.at]
    BY DEF Run
  <2>3. QED
    BY <1>2, <1>6, <2>1, <2>2
<1>8. QED
  BY <1>1, <1>2, <1>3, <1>5, <1>6, <1>7

\* With one location per monitor no slot is lost except to catch-up, however
\* many replicas tick, lose races or crash between the rows of a list.
THEOREM ScheduleDroppedOnlyForLater ==
  ASSUME OneLocation
  PROVE  ScheduleSpec => []DroppedOnlyForLater
<1>1. ScheduleInv => DroppedOnlyForLater
  BY DroppedForLater
<1>2. QED
  BY <1>1, ScheduleInvariance, PTL

-----------------------------------------------------------------------------
LEMMA StepNeverRewinds ==
  ASSUME ScheduleInv, [ScheduleStep]_schedulerVars, NEW m \in Monitor
  PROVE  nextRun'[m] >= nextRun[m]
<1>1. nextRun \in [Monitor -> Nat]
  BY DEF ScheduleInv, SchedulerTypeOK
<1>2. CASE nextRun' = nextRun
  BY <1>1, <1>2
<1>3. CASE \E i \in Replica : \E d \in due[i] : Enqueue(i, d)
  <2>1. PICK r \in Run :
          nextRun' = [nextRun EXCEPT ![r.monitor] =
                        IF @ < r.at + Interval[r.monitor]
                        THEN r.at + Interval[r.monitor] ELSE @]
    BY <1>3, EnqueueEffect
  <2>2. r.at + Interval[r.monitor] \in Nat
    BY RunType, IntervalType
  <2>3. QED
    BY <1>1, <2>1, <2>2
<1>4. QED
  BY <1>2, <1>3
     DEF ScheduleStep, schedulerVars, schedVars, BeginTick, ListDue, AbortTick

\* next_run_at never moves back, whatever old time a slow replica computes with.
THEOREM ScheduleNeverBack == ScheduleSpec => ScheduleNeverRewinds
<1>1. ScheduleInv /\ [ScheduleStep]_schedulerVars =>
        [\A m \in Monitor : nextRun'[m] >= nextRun[m]]_schedulerVars
  BY StepNeverRewinds
<1>2. QED
  BY <1>1, ScheduleInvariance, PTL DEF ScheduleSpec, ScheduleNeverRewinds

-----------------------------------------------------------------------------
(***************************************************************************)
(* The server.                                                             *)
(***************************************************************************)
ControlInv ==
  /\ RunInv
  /\ ScheduleInv
  /\ ProjectionInv
  /\ PendingUntilFirstResult
  /\ DeadlineFromResult

-----------------------------------------------------------------------------
LEMMA PlaceIsAssigned ==
  ASSUME NEW r \in Run
  PROVE  PlaceOf(r) \in Assigned
BY DEF Run, PlaceOf

\* What one ingested result writes, in the terms of the parts.
LEMMA UploadEffect ==
  ASSUME RunInv, UploadStep
  PROVE  \E g \in grants, passed \in BOOLEAN, f \in Time :
           /\ AcceptResult(g.agent, g.run, g.attempt, f)
           /\ ProjectResult(PlaceOf(g.run), passed, f)
           /\ f <= now
           /\ g.run \in Run
           /\ UNCHANGED <<now, schedVars, sweepVars>>
<1>1. PICK g \in grants, passed \in BOOLEAN, f \in Time :
        f \in now - UploadDelay .. now /\ Ingest(g, passed, f)
  BY DEF UploadStep
<1>2. f <= now
  BY <1>1, UploadDelayAssumption DEF RunInv, RunTypeOK, Time
<1>3. g.run \in Run
  BY DEF RunInv, RunTypeOK, Grant
<1>4. QED
  BY <1>1, <1>2, <1>3 DEF UploadStep, Ingest

\* Every step of the server is a step of the run tables, or does not touch them.
LEMMA ControlRunStep ==
  ASSUME RunInv, ScheduleInv, [ControlNext]_controlVars
  PROVE  [RunStep]_<<now, runVars>>
<1>1. CASE Tick /\ UNCHANGED <<runVars, schedVars, healthVars, sweepVars>>
  BY <1>1 DEF RunStep
<1>2. CASE \E i \in Replica : SchedulerStep(i)
  <2>1. PICK i \in Replica : SchedulerStep(i)
    BY <1>2
  <2>2. CASE \E d \in due[i] : Enqueue(i, d)
    <3>1. /\ \E r \in Run : InsertRun(r) /\ r.at <= now
          /\ (\E d \in due[i] : Enqueue(i, d)) => UNCHANGED now
      BY <2>1, <2>2, EnqueueEffect DEF SchedulerStep
    <3>2. CASE UNCHANGED <<results, claimAt, grants>>
      BY <2>2, <3>1, <3>2 DEF RunStep
    <3>3. CASE UNCHANGED runVars
      BY <2>2, <3>1, <3>3
    <3>4. QED
      BY <2>1, <3>2, <3>3 DEF SchedulerStep
  <2>3. QED
    BY <2>1, <2>2 DEF SchedulerStep
<1>3. CASE \E a \in Agent : LeaseStep(a)
  BY <1>3 DEF LeaseStep, RunStep
<1>4. CASE UploadStep
  BY <1>4, UploadEffect DEF RunStep
<1>5. CASE \E s \in Sweeper : SweepStep(s)
  BY <1>5 DEF SweepStep
<1>6. CASE UNCHANGED controlVars
  BY <1>6 DEF controlVars
<1>7. QED
  BY <1>1, <1>2, <1>3, <1>4, <1>5, <1>6 DEF ControlNext

\* Every step is a step of the projection, or does not touch the health tables.
LEMMA ControlProjectionStep ==
  ASSUME RunInv, [ControlNext]_controlVars
  PROVE  [ProjectionStep]_projectionVars
<1>1. CASE Tick /\ UNCHANGED <<runVars, schedVars, healthVars, sweepVars>>
  BY <1>1 DEF ProjectionStep
<1>2. CASE (\E i \in Replica : SchedulerStep(i)) \/ (\E a \in Agent : LeaseStep(a))
  BY <1>2 DEF SchedulerStep, LeaseStep, projectionVars
<1>3. CASE UploadStep
  <2>1. PICK g \in grants, passed \in BOOLEAN, f \in Time :
          /\ ProjectResult(PlaceOf(g.run), passed, f)
          /\ f <= now
          /\ g.run \in Run
          /\ UNCHANGED <<now, sweepVars>>
    BY <1>3, UploadEffect
  <2>2. f <= now + Skew
    BY <2>1, SkewAssumption, DeploymentAssumption DEF RunInv, RunTypeOK, Time
  <2>3. Observe(PlaceOf(g.run), passed, f)
    BY <2>1, <2>2 DEF Observe
  <2>4. QED
    BY <2>1, <2>3, PlaceIsAssigned DEF ProjectionStep
<1>4. CASE \E s \in Sweeper : SweepStep(s)
  BY <1>4 DEF SweepStep, ProjectionStep
<1>5. CASE UNCHANGED controlVars
  BY <1>5 DEF controlVars, projectionVars
<1>6. QED
  BY <1>1, <1>2, <1>3, <1>4, <1>5 DEF ControlNext

\* The other services keep what the scheduler relies on.
LEMMA ControlScheduleStep ==
  ASSUME RunInv, ScheduleInv, [ControlNext]_controlVars
  PROVE  ScheduleInv'
<1>1. CASE \E i \in Replica : SchedulerStep(i)
  <2>1. PICK i \in Replica : SchedulerStep(i)
    BY <1>1
  <2>2. CASE \E d \in due[i] : Enqueue(i, d)
    BY <2>1, <2>2, ScheduleInvEnqueue DEF SchedulerStep
  <2>3. CASE (BeginTick(i) \/ ListDue(i) \/ AbortTick(i)) /\ UNCHANGED runVars
    BY <2>1, <2>3, ScheduleInvReads DEF SchedulerStep, runVars
  <2>4. QED
    BY <2>1, <2>2, <2>3 DEF SchedulerStep
<1>2. CASE ~\E i \in Replica : SchedulerStep(i)
  <2>1. runs' \in [Run -> Row] /\ now' \in Time
    BY ControlRunStep, RunInvStep DEF RunInv, RunTypeOK
  <2>2. UNCHANGED schedVars
    BY <1>2 DEF ControlNext, controlVars, LeaseStep, UploadStep, SweepStep
  <2>3. now <= now'
    BY <1>2, DeploymentAssumption
       DEF ControlNext, controlVars, LeaseStep, UploadStep, SweepStep, Tick,
           RunInv, RunTypeOK, Time
  <2>4. \A r \in Run : runs'[r].status = "absent" <=> runs[r].status = "absent"
    <3>1. CASE UNCHANGED runs
      BY <3>1
    <3>2. CASE \E a \in Agent, r \in Run : Claim(a, r)
      <4>1. PICK a \in Agent, r \in Run : Claim(a, r)
        BY <3>2
      <4>2. /\ runs[r].status \in {"available", "leased"}
            /\ runs' = [runs EXCEPT ![r] =
                          [status |-> "leased", agent |-> a,
                           attempt |-> runs[r].attempt + 1,
                           expires |-> claimAt[a] + LeaseDuration]]
        BY <4>1, ClaimEffect
      <4>3. QED
        BY <4>2 DEF RunInv, RunTypeOK
    <3>3. CASE UploadStep
      <4>1. PICK g \in grants, f \in Time :
              AcceptResult(g.agent, g.run, g.attempt, f)
        BY <3>3, UploadEffect
      <4>2. /\ runs[g.run].status = "leased"
            /\ runs' = [runs EXCEPT ![g.run].status = "resolved"]
        BY <4>1, AcceptEffect
      <4>3. QED
        BY <4>2 DEF RunInv, RunTypeOK, Row
    <3>4. QED
      BY <1>2, <3>1, <3>2, <3>3
         DEF ControlNext, controlVars, runVars, LeaseStep, SweepStep,
             ReadClaimTime, ClaimNothing, CancelClaim
  <2>5. QED
    BY <2>1, <2>2, <2>3, <2>4, ScheduleInvOthers
<1>3. QED
  BY <1>1, <1>2

-----------------------------------------------------------------------------
\* A sweep marks stale only a place that has reported.
LEMMA SweepEffect ==
  ASSUME ProjectionInv, NEW s \in Sweeper, SweepStep(s)
  PROVE  \/ UNCHANGED locations
         \/ \E p \in Assigned :
              /\ locations[p] # PendingLocation
              /\ locations' = [locations EXCEPT ![p] = StaleLocation]
<1>1. CASE \E c \in overdue[s] : ClaimStale(s, c)
  <2>1. PICK c \in overdue[s] : ClaimStale(s, c)
    BY <1>1
  <2>2. /\ c.place \in Assigned
        /\ \/ UNCHANGED healthVars
           \/ MarkStale(c.place) /\ locations[c.place].staleAt \in 0 .. now
    BY <2>1, SweepClaimEffect
  <2>3. CASE MarkStale(c.place) /\ locations[c.place].staleAt \in 0 .. now
    <3>1. locations' = [locations EXCEPT ![c.place] = StaleLocation]
      BY <2>2, <2>3, PlaceOfMonitor, ProjectEffect DEF MarkStale
    <3>2. locations[c.place] # PendingLocation
      BY <2>3 DEF PendingLocation, NoDeadline
    <3>3. QED
      BY <2>2, <3>1, <3>2
  <2>4. QED
    BY <2>2, <2>3 DEF healthVars
<1>2. CASE ~\E c \in overdue[s] : ClaimStale(s, c)
  BY <1>2 DEF SweepStep, Sweep, BeginSweep, ListOverdue, ListNothing, AbortSweep,
              healthVars
<1>3. QED
  BY <1>1, <1>2

\* An upload stores one result, of a run that had none, and gives its place the
\* deadline of that result.
LEMMA UploadStores ==
  ASSUME RunInv, ProjectionInv, UploadStep
  PROVE  \E r \in Run, x \in Result :
           /\ ~ResultExists(r)
           /\ results' = [results EXCEPT ![r] = x]
           /\ \E row \in LocationHealth :
                /\ locations' = [locations EXCEPT ![PlaceOf(r)] = row]
                /\ row.staleAt = Deadline(r.monitor, x.finished)
                /\ row.staleAt # NoDeadline
<1>1. PICK g \in grants, passed \in BOOLEAN, f \in Time :
        /\ AcceptResult(g.agent, g.run, g.attempt, f)
        /\ ProjectResult(PlaceOf(g.run), passed, f)
        /\ g.run \in Run
  BY UploadEffect
<1> DEFINE r == g.run
<1> DEFINE x == [agent |-> g.agent, attempt |-> g.attempt, finished |-> f]
<1> DEFINE p == PlaceOf(r)
<1> DEFINE observed == ApplyProbe(locations[p], passed, Thresholds[p[1]])
<1> DEFINE row == [observed EXCEPT !.staleAt = Deadline(p[1], f)]
<1>2. /\ g.agent \in Agent /\ r \in Run /\ g.attempt \in Nat
      /\ results[r] = NoResult
      /\ results' = [results EXCEPT ![r] = x]
  BY <1>1, AcceptEffect
<1>3. x \in Result
  BY <1>2 DEF Result
<1>4. p \in Assigned /\ p[1] = r.monitor /\ p[1] \in Monitor
  BY <1>1, PlaceIsAssigned, PlaceOfMonitor DEF PlaceOf
<1>5. Deadline(p[1], f) \in Nat
  <2>1. Interval[p[1]] \in Nat /\ ProbeTimeout[p[1]] \in Nat /\ f \in Nat
    BY <1>4, DeploymentAssumption, ProjectionAssumption DEF Time
  <2>2. QED
    BY <2>1, DeploymentAssumption DEF Deadline
<1>6. observed \in LocationHealth
  BY <1>4, ApplyProbeType DEF ProjectionInv, ProjectionTypeOK
<1>7. Project(p[1], [locations EXCEPT ![p] = row], FALSE)
  BY <1>1 DEF ProjectResult
<1> HIDE DEF observed
<1>8. row \in LocationHealth /\ row.staleAt = Deadline(p[1], f)
  BY <1>5, <1>6 DEF LocationHealth
<1> HIDE DEF row
<1>9. locations' = [locations EXCEPT ![p] = row]
  BY <1>4, <1>7, ProjectEffect
<1>10. row.staleAt # NoDeadline /\ row.staleAt = Deadline(r.monitor, x.finished)
  BY <1>4, <1>5, <1>8 DEF NoDeadline
<1> HIDE DEF x, p, r
<1>11. ~ResultExists(r)
  BY <1>2 DEF ResultExists
<1>12. QED
  BY <1>2, <1>3, <1>8, <1>9, <1>10, <1>11 DEF p

\* The stored results and the health of a place belong together after every
\* step: the insert of a result and its projection are one transaction.
LEMMA ControlResultsStep ==
  ASSUME ControlInv, [ControlNext]_controlVars
  PROVE  PendingUntilFirstResult' /\ DeadlineFromResult'
<1>1. /\ locations \in [Assigned -> LocationHealth]
      /\ results \in [Run -> Result \union {NoResult}]
  BY DEF ControlInv, ProjectionInv, ProjectionTypeOK, RunInv, RunTypeOK
<1>2. CASE UploadStep
  <2>1. PICK r \in Run, x \in Result :
          /\ ~ResultExists(r)
          /\ results' = [results EXCEPT ![r] = x]
          /\ \E row \in LocationHealth :
               /\ locations' = [locations EXCEPT ![PlaceOf(r)] = row]
               /\ row.staleAt = Deadline(r.monitor, x.finished)
               /\ row.staleAt # NoDeadline
    BY <1>2, UploadStores DEF ControlInv
  <2>2. PICK row \in LocationHealth :
          /\ locations' = [locations EXCEPT ![PlaceOf(r)] = row]
          /\ row.staleAt = Deadline(r.monitor, x.finished)
          /\ row.staleAt # NoDeadline
    BY <2>1
  <2>3. x # NoResult
    BY ResultIsNotNoResult
  <2>4. PlaceOf(r) \in Assigned /\ PlaceOf(r)[1] = r.monitor
    BY PlaceIsAssigned DEF PlaceOf
  <2>5. \A q \in Run : results'[q] = IF q = r THEN x ELSE results[q]
    BY <1>1, <2>1
  <2>6. \A p \in Assigned : locations'[p] = IF p = PlaceOf(r) THEN row ELSE locations[p]
    BY <1>1, <2>2
  <2>7. \A p \in Assigned : \A q \in Run :
          q \in ResultsOf(p)' <=> (q \in ResultsOf(p) \/ (q = r /\ p = PlaceOf(r)))
    BY <2>3, <2>5 DEF ResultsOf, ResultExists, PlaceOf
  <2>8. row # PendingLocation
    BY <2>2 DEF PendingLocation
  <2>9. PendingUntilFirstResult'
    <3> SUFFICES ASSUME NEW p \in Assigned
                 PROVE  locations'[p] = PendingLocation <=> ResultsOf(p)' = {}
      BY DEF PendingUntilFirstResult
    <3>1. CASE p = PlaceOf(r)
      BY <2>6, <2>7, <2>8, <3>1
    <3>2. CASE p # PlaceOf(r)
      <4>1. ResultsOf(p)' = ResultsOf(p)
        BY <2>7, <3>2 DEF ResultsOf
      <4>2. QED
        BY <2>6, <3>2, <4>1 DEF ControlInv, PendingUntilFirstResult
    <3>3. QED
      BY <3>1, <3>2
  <2>10. DeadlineFromResult'
    <3> SUFFICES ASSUME NEW p \in Assigned, locations'[p].staleAt # NoDeadline
                 PROVE  \E q \in ResultsOf(p)' :
                          locations'[p].staleAt = Deadline(p[1], results'[q].finished)
      BY DEF DeadlineFromResult, Deadline
    <3>1. CASE p = PlaceOf(r)
      <4>1. r \in ResultsOf(p)' /\ results'[r] = x
        BY <2>5, <2>7, <3>1
      <4>2. locations'[p].staleAt = Deadline(p[1], x.finished)
        BY <2>2, <2>4, <2>6, <3>1
      <4>3. QED
        BY <4>1, <4>2
    <3>2. CASE p # PlaceOf(r)
      <4>1. PICK q \in ResultsOf(p) :
              locations[p].staleAt = Deadline(p[1], results[q].finished)
        BY <2>6, <3>2 DEF ControlInv, DeadlineFromResult
      <4>2. q \in Run /\ q # r
        BY <2>1 DEF ResultsOf
      <4>3. q \in ResultsOf(p)' /\ results'[q] = results[q]
        BY <2>5, <2>7, <4>2
      <4>4. QED
        BY <2>6, <3>2, <4>1, <4>3
    <3>3. QED
      BY <3>1, <3>2
  <2>11. QED
    BY <2>9, <2>10
<1>3. CASE UNCHANGED results /\ UNCHANGED locations
  BY <1>3 DEF ControlInv, PendingUntilFirstResult, DeadlineFromResult, ResultsOf,
              ResultExists
<1>4. CASE \E s \in Sweeper : SweepStep(s)
  <2>1. UNCHANGED results
    BY <1>4 DEF SweepStep, runVars
  <2>2. CASE UNCHANGED locations
    BY <1>3, <2>1, <2>2
  <2>3. CASE \E p \in Assigned :
               /\ locations[p] # PendingLocation
               /\ locations' = [locations EXCEPT ![p] = StaleLocation]
    <3>1. PICK p \in Assigned :
            /\ locations[p] # PendingLocation
            /\ locations' = [locations EXCEPT ![p] = StaleLocation]
      BY <2>3
    <3>2. \A q \in Assigned :
            locations'[q] = IF q = p THEN StaleLocation ELSE locations[q]
      BY <1>1, <3>1
    <3>3. /\ StaleLocation # PendingLocation
          /\ StaleLocation.staleAt = NoDeadline
      BY DEF StaleLocation, PendingLocation
    <3>4. \A q \in Assigned : ResultsOf(q)' = ResultsOf(q)
      BY <2>1 DEF ResultsOf, ResultExists
    <3>5. PendingUntilFirstResult'
      BY <3>1, <3>2, <3>3, <3>4 DEF ControlInv, PendingUntilFirstResult
    <3>6. DeadlineFromResult'
      BY <2>1, <3>2, <3>3, <3>4 DEF ControlInv, DeadlineFromResult, Deadline
    <3>7. QED
      BY <3>5, <3>6
  <2>4. QED
    BY <1>4, <2>2, <2>3, SweepEffect DEF ControlInv
<1>5. CASE \/ Tick /\ UNCHANGED <<runVars, schedVars, healthVars, sweepVars>>
           \/ \E i \in Replica : SchedulerStep(i)
           \/ \E a \in Agent : LeaseStep(a)
           \/ UNCHANGED controlVars
  <2>1. UNCHANGED results /\ UNCHANGED locations
    BY <1>5 DEF runVars, healthVars, SchedulerStep, LeaseStep, controlVars,
                ReadClaimTime, ClaimNothing, CancelClaim, Claim
  <2>2. QED
    BY <1>3, <2>1
<1>6. QED
  BY <1>2, <1>4, <1>5 DEF ControlNext

-----------------------------------------------------------------------------
LEMMA ControlInvInit == ControlInit => ControlInv
<1> SUFFICES ASSUME ControlInit PROVE ControlInv
  OBVIOUS
<1>1. RunInv /\ ScheduleInv
  BY RunInvInit, ScheduleInvInit DEF ControlInit
<1>2. ProjectionInv
  BY ProjectionInvInit DEF ControlInit, ProjectionStart, RunInit
<1>3. PendingUntilFirstResult /\ DeadlineFromResult
  BY DEF ControlInit, RunInit, ProjectionInit, PendingUntilFirstResult,
         DeadlineFromResult, ResultsOf, ResultExists, PendingLocation
<1>4. QED
  BY <1>1, <1>2, <1>3 DEF ControlInv

LEMMA ControlInvStep ==
  ASSUME ControlInv, [ControlNext]_controlVars
  PROVE  ControlInv'
<1>1. RunInv'
  BY ControlRunStep, RunInvStep DEF ControlInv
<1>2. ScheduleInv'
  BY ControlScheduleStep DEF ControlInv
<1>3. ProjectionInv'
  BY ControlProjectionStep, ProjectionInvStep DEF ControlInv
<1>4. QED
  BY <1>1, <1>2, <1>3, ControlResultsStep DEF ControlInv

\* ControlInv holds in every reachable state.
THEOREM ControlInvariance == ControlSpec => []ControlInv
<1>1. ControlInit => ControlInv
  BY ControlInvInit
<1>2. ControlInv /\ [ControlNext]_controlVars => ControlInv'
  BY ControlInvStep
<1>3. QED
  BY <1>1, <1>2, PTL DEF ControlSpec

\* The server implements the run tables: whatever replicas, agents and sweeps
\* do, they change check_runs and probe_results in the steps of RunTable only.
THEOREM ControlImplementsRuns == ControlSpec => RunSpec
<1>1. ControlInit => RunInit
  BY DEF ControlInit
<1>2. ControlInv /\ [ControlNext]_controlVars => [RunStep]_<<now, runVars>>
  BY ControlRunStep DEF ControlInv
<1>3. QED
  BY <1>1, <1>2, ControlInvariance, PTL DEF ControlSpec, RunSpec

\* So each run is opened once, held by one agent at a time and resolved once,
\* by the last holder, in the whole server.
THEOREM ControlKeepsRunPromise == ControlSpec => KeepsRunPromise
BY ControlImplementsRuns, RunTablesKeepPromise, PTL

\* The server implements the projection: it projects accepted results and
\* overdue deadlines, and nothing else touches health, incidents and events.
THEOREM ControlImplementsProjection == ControlSpec => ProjectionSpec
<1>1. ControlInit => ProjectionStart
  BY DEF ControlInit, RunInit, ProjectionStart
<1>2. ControlInv /\ [ControlNext]_controlVars => [ProjectionStep]_projectionVars
  BY ControlProjectionStep DEF ControlInv
<1>3. QED
  BY <1>1, <1>2, ControlInvariance, PTL DEF ControlSpec, ProjectionSpec

\* A place is pending and untouched exactly while it has no stored result.
THEOREM ControlPendingUntilFirstResult == ControlSpec => []PendingUntilFirstResult
<1>1. ControlInv => PendingUntilFirstResult
  BY DEF ControlInv
<1>2. QED
  BY <1>1, ControlInvariance, PTL

\* Any armed deadline is that of a stored result of its place.
THEOREM ControlDeadlineFromResult == ControlSpec => []DeadlineFromResult
<1>1. ControlInv => DeadlineFromResult
  BY DEF ControlInv
<1>2. QED
  BY <1>1, ControlInvariance, PTL
=============================================================================
