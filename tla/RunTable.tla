------------------------------ MODULE RunTable ------------------------------
(***************************************************************************)
(* The check_runs and probe_results tables, and the three services that    *)
(* write them: the insert of the scheduler, the claim of LeaseService and  *)
(* the acceptance of a result by ResultService.  The health projection     *)
(* that shares the transaction of a result is in Projection, and           *)
(* ControlPlane composes the two.                                          *)
(*                                                                         *)
(* A run is named by its unique key (monitor, location, scheduled_for).    *)
(* Every claim draws a fresh random token and increments lease_attempt, so *)
(* the attempt number stands for the token, and the pair (run, attempt)    *)
(* for the identifier of the one result an agent makes of that lease.      *)
(***************************************************************************)
EXTENDS Deployment

CONSTANTS
  Agent,
  AgentLocation,    \* the location an agent is enrolled at
  AgentKinds,       \* the probe kinds it leases
  MonitorKind,      \* the probe kind of a monitor
  Grace,            \* 30 s of tolerance around the lease
  Slots,            \* bound: the times at which runs may be scheduled
  NoAgent

ASSUME RunTableAssumption ==
  /\ Grace \in Nat
  /\ Slots \subseteq Time
  /\ AgentLocation \in [Agent -> Location]
  /\ NoAgent \notin Agent

Run == {r \in [monitor : Monitor, location : Location, at : Slots] :
          <<r.monitor, r.location>> \in Assigned}

VARIABLES
  runs,      \* check_runs
  results,   \* probe_results, by run_id (UNIQUE)
  claimAt,   \* per agent: the DatabaseNow its lease request has read
  grants     \* the leases that were ever answered to an agent

runVars == <<runs, results, claimAt, grants>>

NoRead == -1
Row == [status : {"absent", "available", "leased", "resolved"},
        agent : Agent \union {NoAgent}, attempt : Nat, expires : Nat]
AbsentRow == [status |-> "absent", agent |-> NoAgent, attempt |-> 0, expires |-> 0]
Result == [agent : Agent, attempt : Nat, finished : Time]
NoResult == [agent |-> NoAgent, attempt |-> 0, finished |-> 0]
Grant == [agent : Agent, run : Run, attempt : Nat]

RunTypeOK ==
  /\ now \in Time
  /\ runs \in [Run -> Row]
  /\ results \in [Run -> Result \union {NoResult}]
  /\ claimAt \in [Agent -> Time \union {NoRead}]
  /\ grants \subseteq Grant

RunInit ==
  /\ now = 0
  /\ runs = [r \in Run |-> AbsentRow]
  /\ results = [r \in Run |-> NoResult]
  /\ claimAt = [a \in Agent |-> NoRead]
  /\ grants = {}

-----------------------------------------------------------------------------

\* INSERT ... ON CONFLICT (monitor_id, location_id, scheduled_for) DO NOTHING.
InsertRun(r) ==
  runs' = IF runs[r].status = "absent"
          THEN [runs EXCEPT ![r].status = "available"] ELSE runs

-----------------------------------------------------------------------------
\* tryLeaseProbe reads the database time in one statement ...
ReadClaimTime(a) ==
  /\ claimAt[a] = NoRead
  /\ claimAt' = [claimAt EXCEPT ![a] = now]
  /\ UNCHANGED <<runs, results, grants>>

\* Mutants: a lease is taken over early, by the grace that uploads get; any run
\* whose lease is over is free, a resolved one too.
FreeWithinGrace(r, t) ==
  \/ runs[r].status = "available"
  \/ runs[r].status = "leased" /\ runs[r].expires <= t + Grace
FreeEvenResolved(r, t) == runs[r].status # "absent" /\ runs[r].expires <= t

Free(r, t) ==
  \/ runs[r].status = "available"
  \/ runs[r].status = "leased" /\ runs[r].expires <= t

Claimable(a, t) ==
  {r \in Run :
     /\ r.location = AgentLocation[a]
     /\ Free(r, t)
     /\ r.at <= t
     /\ MonitorKind[r.monitor] \in AgentKinds[a]}

\* ORDER BY scheduled_for, id: identifiers are random, so ties are arbitrary.
Oldest(candidates) == {r \in candidates : \A q \in candidates : r.at <= q.at}

NextAttempt(r) == runs[r].attempt + 1
LeaseEnd(t) == t + LeaseDuration

\* ... and claims in another, with the time it read.
Claim(a, r) ==
  /\ claimAt[a] # NoRead
  /\ r \in Oldest(Claimable(a, claimAt[a]))
  /\ runs' = [runs EXCEPT ![r] =
                [status |-> "leased", agent |-> a, attempt |-> NextAttempt(r),
                 expires |-> LeaseEnd(claimAt[a])]]
  /\ grants' = grants \union {[agent |-> a, run |-> r, attempt |-> NextAttempt(r)]}
  /\ claimAt' = [claimAt EXCEPT ![a] = NoRead]
  /\ UNCHANGED results

\* ErrNoWork: the long poll sleeps and tries again, or answers 204.
ClaimNothing(a) ==
  /\ claimAt[a] # NoRead
  /\ Claimable(a, claimAt[a]) = {}
  /\ claimAt' = [claimAt EXCEPT ![a] = NoRead]
  /\ UNCHANGED <<runs, results, grants>>

\* The request is cancelled, or a statement of it fails, before the claim.
CancelClaim(a) ==
  /\ claimAt[a] # NoRead
  /\ claimAt' = [claimAt EXCEPT ![a] = NoRead]
  /\ UNCHANGED <<runs, results, grants>>

-----------------------------------------------------------------------------
ResultExists(r) == results[r] # NoResult

\* Mutant: the token is not compared.
HoldsAnyLease(a, r, attempt) == runs[r].status = "leased" /\ runs[r].agent = a

HoldsLease(a, r, attempt) ==
  runs[r].status = "leased" /\ runs[r].agent = a /\ runs[r].attempt = attempt

\* validateResult and the token comparison of ingest, for the result an agent
\* made of lease `attempt` of run r.  The agent reports when it started and
\* finished; some start no later than the finish must be acceptable.
Acceptable(a, r, attempt, finished) ==
  /\ HoldsLease(a, r, attempt)
  /\ now <= runs[r].expires + Grace
  /\ finished >= r.at - Grace
  /\ finished <= runs[r].expires + Grace

\* How one command of UploadBatch is answered; only "accepted" changes a row.
Reply(a, r, attempt, finished) ==
  IF ResultExists(r) THEN "duplicate"
  ELSE IF Acceptable(a, r, attempt, finished) THEN "accepted" ELSE "rejected"

\* Results.Insert and Runs.Resolve.
AcceptResult(a, r, attempt, finished) ==
  /\ Reply(a, r, attempt, finished) = "accepted"
  /\ results' = [results EXCEPT ![r] =
                   [agent |-> a, attempt |-> attempt, finished |-> finished]]
  /\ runs' = [runs EXCEPT ![r].status = "resolved"]
  /\ UNCHANGED <<claimAt, grants>>

-----------------------------------------------------------------------------
(***************************************************************************)
(* The tables alone, under the steps of any scheduler and any agents.      *)
(***************************************************************************)
RunStep ==
  \/ Tick /\ UNCHANGED runVars
  \/ /\ UNCHANGED now
     /\ \/ \E r \in Run : /\ r.at <= now
                          /\ InsertRun(r)
                          /\ UNCHANGED <<results, claimAt, grants>>
        \/ \E a \in Agent : \/ ReadClaimTime(a)
                            \/ ClaimNothing(a)
                            \/ CancelClaim(a)
                            \/ \E r \in Run : Claim(a, r)
        \/ \E g \in grants, f \in Time :
             AcceptResult(g.agent, g.run, g.attempt, f)

RunSpec == RunInit /\ [][RunStep]_<<now, runVars>>
-----------------------------------------------------------------------------
(***************************************************************************)
(* Properties.                                                             *)
(***************************************************************************)
\* A run is resolved exactly when its one result is stored, and that result
\* came from the agent and the token of the run's last lease, for a probe that
\* ended inside the lease and its grace (results.go: ingest and Resolve's
\* WHERE leased AND agent AND token must agree with the insert).
ResolvedByLastLease ==
  \A r \in Run :
    /\ runs[r].status = "resolved" <=> ResultExists(r)
    /\ ResultExists(r) =>
         /\ results[r].agent = runs[r].agent
         /\ results[r].attempt = runs[r].attempt
         /\ results[r].finished <= runs[r].expires + Grace

\* A lease is taken over only once it has expired on the database clock, even
\* though the claim compares with a time read in an earlier statement
\* (leasing.go: DatabaseNow, then ClaimProbe).
TakeoverOnlyAfterExpiry ==
  [][\A r \in Run :
       runs[r].status = "leased" /\ runs'[r].attempt # runs[r].attempt
         => runs[r].expires <= now]_<<now, runVars>>

\* A resolved run keeps its row and its result: no later upload, claim or
\* scheduler insert reopens it (probe_results.run_id and the run key are
\* unique, the claim reads only available and leased rows).
ResolutionIsFinal ==
  [][\A r \in Run : ResultExists(r) =>
       results'[r] = results[r] /\ runs'[r] = runs[r]]_<<now, runVars>>

\* The tables keep the promise of RunPromise.
Promise == INSTANCE RunPromise WITH
  phase <- [r \in Run |-> runs[r].status],
  ticket <- [r \in Run |-> runs[r].attempt],
  holder <- [r \in Run |-> runs[r].agent],
  winner <- [r \in Run |-> results[r].agent]

\* Each run is opened once, leased one holder at a time, and resolved once, by
\* the last holder (the run's life in the three services and in runs.sql).
KeepsRunPromise == Promise!PromiseSpec
=============================================================================
