---------------------------- MODULE HealthHistory ----------------------------
(***************************************************************************)
(* ApplyProbe and the staleness update against what they are meant to      *)
(* compute: the state of a location is read off its whole history, with    *)
(* streaks of any length, where the code keeps two uint16 counters.        *)
(***************************************************************************)
EXTENDS Health, Sequences, FiniteSetsExt

CONSTANTS
  Rule,          \* the thresholds of the monitor
  MaxHistory     \* bound on the observations

ASSUME HistoryAssumption ==
  /\ Rule \in [failures : Counter \ {0}, recoveries : Counter \ {0}]
  /\ MaxHistory \in Nat

VARIABLES
  health,        \* the location_health row
  history        \* what happened to it: "passed", "failed" or "stale"

historyVars == <<health, history>>

HistoryInit == health = PendingLocation /\ history = <<>>

Happens(event) ==
  Len(history) < MaxHistory /\ history' = Append(history, event)

\* The deadline plays no part here.
HistoryNext ==
  \/ Happens("passed") /\ health' = ApplyProbe(health, TRUE, Rule)
  \/ Happens("failed") /\ health' = ApplyProbe(health, FALSE, Rule)
  \/ Happens("stale") /\ health' = StaleLocation

HistorySpec == HistoryInit /\ [][HistoryNext]_historyVars
-----------------------------------------------------------------------------
(***************************************************************************)
(* Properties.                                                             *)
(***************************************************************************)
\* The last `length` events up to place n are all `event`.
Stretch(n, length, event) ==
  n >= length /\ \A k \in n - length + 1 .. n : history[k] = event

\* The places of the history that decided a state.
Decisive ==
  {n \in 1 .. Len(history) : \/ history[n] = "stale"
                             \/ Stretch(n, Rule.failures, "failed")
                             \/ Stretch(n, Rule.recoveries, "passed")}

\* A location has the state that the last decisive stretch of its history gave
\* it, and shorter stretches change nothing (ApplyProbe's thresholds), although
\* the counters wrap in a longer one.
StateFromHistory ==
  health.state =
    IF Decisive = {} THEN "pending"
    ELSE CASE history[Max(Decisive)] = "passed" -> "up"
           [] history[Max(Decisive)] = "failed" -> "down"
           [] OTHER -> "unknown"

=============================================================================
