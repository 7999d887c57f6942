----------------------------- MODULE Deployment -----------------------------
(***************************************************************************)
(* What every component of the control plane shares: the configured        *)
(* monitors and their locations, and the clock.  The database and the      *)
(* server read the same clock (the profiles with one server share a host). *)
(* One unit of time stands for any common measure of the code's durations. *)
(***************************************************************************)
EXTENDS Integers, FiniteSets

CONSTANTS
  Monitor, Location,
  Assigned,         \* monitor_locations, a set of <<monitor, location>>
  Interval,         \* per monitor
  LeaseDuration,    \* 45 s
  MaxTime           \* bound: the clock stops here

Time == 0 .. MaxTime

ASSUME DeploymentAssumption ==
  /\ Assigned \subseteq Monitor \X Location
  /\ Interval \in [Monitor -> Nat \ {0}]
  /\ LeaseDuration \in Nat \ {0}
  /\ MaxTime \in Nat

VARIABLE now

Tick == now < MaxTime /\ now' = now + 1
=============================================================================
