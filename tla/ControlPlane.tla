---------------------------- MODULE ControlPlane ----------------------------
(***************************************************************************)
(* The server: scheduler, leasing, result ingestion, health projection and *)
(* staleness over one database, with agents that lease work and may upload *)
(* the result of any lease they were ever given, at any time, any number   *)
(* of times, or never.  An agent that crashes is one that never uploads.   *)
(*                                                                         *)
(* UploadBatch runs one transaction per result, so a batch is a sequence   *)
(* of the Ingest steps below with other steps in between.  AgentWorker     *)
(* models the batch and its answer.                                        *)
(***************************************************************************)
EXTENDS Scheduler, Projection

CONSTANT UploadDelay   \* bound: a probe reported now ended at most this long ago

ASSUME UploadDelayAssumption == UploadDelay \in Nat

controlVars == <<now, runVars, schedVars, healthVars, sweepVars>>

ControlInit == RunInit /\ SchedulerInit /\ ProjectionInit

PlaceOf(r) == <<r.monitor, r.location>>

\* Mutant: the deadline is counted from the upload.
IngestAsReceived(g, passed, finished) ==
  /\ AcceptResult(g.agent, g.run, g.attempt, finished)
  /\ ProjectResult(PlaceOf(g.run), passed, now)

\* One transaction of UploadBatch that accepts: result, run, health, incident.
\* A duplicate or a rejected result changes no row.
Ingest(g, passed, finished) ==
  /\ AcceptResult(g.agent, g.run, g.attempt, finished)
  /\ ProjectResult(PlaceOf(g.run), passed, finished)

SchedulerStep(i) ==
  /\ \/ (BeginTick(i) \/ ListDue(i) \/ AbortTick(i)) /\ UNCHANGED runVars
     \/ /\ \E d \in due[i] : Enqueue(i, d)
        /\ UNCHANGED <<results, claimAt, grants>>
  /\ UNCHANGED <<now, healthVars, sweepVars>>

LeaseStep(a) ==
  /\ \/ ReadClaimTime(a) \/ ClaimNothing(a) \/ CancelClaim(a)
     \/ \E r \in Run : Claim(a, r)
  /\ UNCHANGED <<now, schedVars, healthVars, sweepVars>>

UploadStep ==
  /\ \E g \in grants, passed \in BOOLEAN, f \in Time :
       f \in now - UploadDelay .. now /\ Ingest(g, passed, f)
  /\ UNCHANGED <<now, schedVars, sweepVars>>

SweepStep(s) ==
  /\ Sweep(s) \/ AbortSweep(s)
  /\ UNCHANGED <<now, runVars, schedVars>>

ControlNext ==
  \/ Tick /\ UNCHANGED <<runVars, schedVars, healthVars, sweepVars>>
  \/ \E i \in Replica : SchedulerStep(i)
  \/ \E a \in Agent : LeaseStep(a)
  \/ UploadStep
  \/ \E s \in Sweeper : SweepStep(s)

\* The clock runs, each replica keeps ticking, and the statements and
\* transactions of a sweep do not fail for ever.  Agents owe nothing.
ControlFairness ==
  /\ WF_now(Tick /\ UNCHANGED <<runVars, schedVars, healthVars, sweepVars>>)
  /\ \A s \in Sweeper :
       LET alone == UNCHANGED <<now, runVars, schedVars>> IN
       /\ WF_controlVars(BeginSweep(s) /\ alone)
       /\ SF_controlVars((ListOverdue(s) \/ ListNothing(s)) /\ alone)
       /\ SF_controlVars((\E c \in overdue[s] : ClaimStale(s, c)) /\ alone)

ControlSpec == ControlInit /\ [][ControlNext]_controlVars /\ ControlFairness

-----------------------------------------------------------------------------
ResultsOf(p) == {r \in Run : PlaceOf(r) = p /\ ResultExists(r)}

\* Every stored result was projected, and nothing else was: a place is still
\* pending and untouched exactly while it has no result (the one transaction of
\* a result holds its insert and its projection).
PendingUntilFirstResult ==
  \A p \in Assigned : locations[p] = PendingLocation <=> ResultsOf(p) = {}

\* Any armed deadline is that of a stored result of the place.
DeadlineFromResult ==
  \A p \in Assigned : locations[p].staleAt # NoDeadline =>
    \E r \in ResultsOf(p) :
      locations[p].staleAt = Deadline(p[1], results[r].finished)

\* The design: "A location becomes stale when it misses two expected schedules
\* plus the maximum probe/lease timeout".  Ingestion takes the deadline of the
\* result that arrives, also of one older than the last: a location is then
\* stale while it has a result whose own deadline is still to come.
StaleOnlyAfterSilence ==
  [][\A p \in Assigned :
       locations[p].staleAt # NoDeadline /\ locations'[p].staleAt = NoDeadline =>
         \A r \in ResultsOf(p) : Deadline(p[1], results[r].finished) <= now]_controlVars

\* An overdue deadline is eventually acted on: the place reports again or is
\* marked unknown, although replicas fail and results keep arriving (the
\* staleness loop of serve.go over MarkDue).
StaleDetected ==
  \A p \in Assigned, d \in Time :
    locations[p].staleAt = d /\ d <= now ~> locations[p].staleAt # d
=============================================================================
