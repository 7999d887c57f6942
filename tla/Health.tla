------------------------------- MODULE Health -------------------------------
(***************************************************************************)
(* The pure rules of internal/domain: how one probe outcome moves the      *)
(* health of a monitor at a location, how the required locations roll up   *)
(* into the health of the monitor, and what that does to its incident.     *)
(* Every module that projects results uses these operators.                *)
(***************************************************************************)
EXTENDS Integers

CONSTANT CounterModulus   \* the streak counters are uint16: 2^16 in the code

ASSUME CounterAssumption == CounterModulus \in Nat \ {0, 1}

Counter == 0 .. CounterModulus - 1

\* A location is never "degraded": ApplyProbe and ClaimStale write only the
\* other four, so the "degraded" case of RollupRequired's input cannot occur.
LocationState == {"pending", "up", "down", "unknown"}
MonitorState == LocationState \union {"degraded"}

NoDeadline == -1          \* stale_at IS NULL

\* The row of location_health; the observation time is kept only through the
\* deadline computed from it.
LocationHealth == [state : LocationState, failures : Counter,
                   successes : Counter, staleAt : Nat \union {NoDeadline}]

PendingLocation == [state |-> "pending", failures |-> 0, successes |-> 0,
                    staleAt |-> NoDeadline]

-----------------------------------------------------------------------------

\* Go increments a uint16, which wraps to zero.
Bump(counter) == (counter + 1) % CounterModulus

\* thresholds is [failures |-> .., recoveries |-> ..].
ApplySuccess(health, thresholds) ==
  LET streak == Bump(health.successes) IN
  [health EXCEPT !.successes = streak, !.failures = 0,
                 !.state = IF streak >= thresholds.recoveries THEN "up" ELSE @]

\* Mutant: one failure too many is needed.
ApplyFailureLate(health, thresholds) ==
  LET streak == Bump(health.failures) IN
  [health EXCEPT !.failures = streak, !.successes = 0,
                 !.state = IF streak > thresholds.failures THEN "down" ELSE @]

ApplyFailure(health, thresholds) ==
  LET streak == Bump(health.failures) IN
  [health EXCEPT !.failures = streak, !.successes = 0,
                 !.state = IF streak >= thresholds.failures THEN "down" ELSE @]

ApplyProbe(health, passed, thresholds) ==
  IF passed THEN ApplySuccess(health, thresholds)
            ELSE ApplyFailure(health, thresholds)

\* What ClaimStale writes over the row.
StaleLocation == [state |-> "unknown", failures |-> 0, successes |-> 0,
                  staleAt |-> NoDeadline]

\* states is the set of states of the monitor's required locations.
RollupRequired(states) ==
  IF states = {} \/ states \intersect {"unknown", "pending"} # {}
  THEN "unknown"
  ELSE IF states = {"up"} THEN "up"
  ELSE IF states = {"down"} THEN "down" ELSE "degraded"

-----------------------------------------------------------------------------
Severity == {"warning", "critical"}
Unhealthy == {"down", "degraded", "unknown"}

SeverityFor(health) == IF health = "down" THEN "critical" ELSE "warning"

\* "none" is the absence of an active incident (GetActive returned nil).
NoIncident == [state |-> "none", severity |-> "none"]
Incident == [state : Unhealthy, severity : Severity] \union {NoIncident}

IncidentAt(health) == [state |-> health, severity |-> SeverityFor(health)]

\* Mutant: an open incident never changes.
IncidentActionNeverChanges(active, health) ==
  IF active = NoIncident THEN IF health \in Unhealthy THEN "open" ELSE "none"
  ELSE IF health = "up" THEN "recover" ELSE "none"

\* The action DecideIncident picks, and below it the active incident after it.
IncidentAction(active, health) ==
  IF active = NoIncident
  THEN IF health \in Unhealthy THEN "open" ELSE "none"
  ELSE IF health = "up" THEN "recover"
  ELSE IF health \notin Unhealthy \/ active = IncidentAt(health)
       THEN "none" ELSE "change"

IncidentAfter(active, health) ==
  CASE IncidentAction(active, health) = "none" -> active
    [] IncidentAction(active, health) = "recover" -> NoIncident
    [] OTHER -> IncidentAt(health)
=============================================================================
