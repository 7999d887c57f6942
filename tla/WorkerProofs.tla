---------------------------- MODULE WorkerProofs ----------------------------
(***************************************************************************)
(* Proofs about the run tables, for any monitors, agents and durations,    *)
(* and about the workers that are its agents.                              *)
(*                                                                         *)
(* RunInv is inductive.  To the properties it adds that a lease request    *)
(* holds a time of the past: that is what makes the comparison of a claim  *)
(* with an old time safe.                                                  *)
(*                                                                         *)
(* The run tables keep their promises whatever the workers do, and no      *)
(* worker overfills its queue or, unless it crashes or cannot read its     *)
(* credential, drops a result before one is stored.                        *)
(***************************************************************************)
EXTENDS AgentWorker, SequenceTheorems, TLAPS

\* A claim compares with a time that was read, so no later than now.
ReadsArePast == \A a \in Agent : claimAt[a] <= now

RunInv == RunTypeOK /\ ReadsArePast /\ ResolvedByLastLease

-----------------------------------------------------------------------------
\* A stored result is never mistaken for the absence of one: only the latter
\* names no agent.
LEMMA ResultIsNotNoResult ==
  ASSUME NEW x \in Result
  PROVE  x # NoResult
BY RunTableAssumption DEF Result, NoResult

\* The effect of one claim on the tables, in the terms the proofs need.
LEMMA ClaimEffect ==
  ASSUME RunInv, NEW a \in Agent, NEW r \in Run, Claim(a, r)
  PROVE  /\ claimAt[a] \in Time
         /\ claimAt[a] <= now
         /\ runs[r].status \in {"available", "leased"}
         /\ runs[r].status = "leased" => runs[r].expires <= claimAt[a]
         /\ results[r] = NoResult
         /\ runs' = [runs EXCEPT ![r] =
                       [status |-> "leased", agent |-> a,
                        attempt |-> runs[r].attempt + 1,
                        expires |-> claimAt[a] + LeaseDuration]]
         /\ grants' = grants \union
                        {[agent |-> a, run |-> r, attempt |-> runs[r].attempt + 1]}
         /\ claimAt' = [claimAt EXCEPT ![a] = NoRead]
         /\ results' = results
<1>1. claimAt[a] \in Time /\ claimAt[a] <= now
  BY DEF RunInv, RunTypeOK, ReadsArePast, Claim
<1>2. r \in Claimable(a, claimAt[a])
  BY DEF Claim, Oldest
<1>3. /\ runs[r].status \in {"available", "leased"}
      /\ runs[r].status = "leased" => runs[r].expires <= claimAt[a]
  BY <1>2 DEF Claimable, Free
<1>4. results[r] = NoResult
  BY <1>3 DEF RunInv, ResolvedByLastLease, ResultExists
<1>5. QED
  BY <1>1, <1>3, <1>4 DEF Claim, NextAttempt, LeaseEnd

\* The effect of one accepted result.
LEMMA AcceptEffect ==
  ASSUME RunInv, NEW g \in grants, NEW f \in Time,
         AcceptResult(g.agent, g.run, g.attempt, f)
  PROVE  /\ g.agent \in Agent /\ g.run \in Run /\ g.attempt \in Nat
         /\ results[g.run] = NoResult
         /\ runs[g.run].status = "leased"
         /\ runs[g.run].agent = g.agent
         /\ runs[g.run].attempt = g.attempt
         /\ f <= runs[g.run].expires + Grace
         /\ results' = [results EXCEPT ![g.run] =
              [agent |-> g.agent, attempt |-> g.attempt, finished |-> f]]
         /\ runs' = [runs EXCEPT ![g.run].status = "resolved"]
         /\ claimAt' = claimAt
         /\ grants' = grants
<1>1. g.agent \in Agent /\ g.run \in Run /\ g.attempt \in Nat
  BY DEF RunInv, RunTypeOK, Grant
<1>2. ~ResultExists(g.run) /\ Acceptable(g.agent, g.run, g.attempt, f)
  BY DEF AcceptResult, Reply
<1>3. QED
  BY <1>1, <1>2 DEF Acceptable, HoldsLease, ResultExists, AcceptResult

-----------------------------------------------------------------------------
LEMMA RunInvInit == RunInit => RunInv
<1> SUFFICES ASSUME RunInit PROVE RunInv
  OBVIOUS
<1>1. AbsentRow \in Row
  BY DEF AbsentRow, Row
<1>2. RunTypeOK
  BY <1>1, DeploymentAssumption DEF RunInit, RunTypeOK, Time, NoRead
<1>3. ReadsArePast
  BY DEF RunInit, ReadsArePast, NoRead
<1>4. ResolvedByLastLease
  BY DEF RunInit, ResolvedByLastLease, ResultExists, AbsentRow
<1>5. QED
  BY <1>2, <1>3, <1>4 DEF RunInv

LEMMA RunInvStep == RunInv /\ [RunStep]_<<now, runVars>> => RunInv'
<1> SUFFICES ASSUME RunInv, [RunStep]_<<now, runVars>> PROVE RunInv'
  OBVIOUS
<1> USE DEF RunInv
<1>1. CASE Tick /\ UNCHANGED runVars
  <2>1. now' \in Time /\ now <= now' /\ now \in Int /\ now' \in Int
    BY <1>1, DeploymentAssumption DEF Tick, Time, RunTypeOK
  <2>2. RunTypeOK'
    BY <1>1, <2>1 DEF runVars, RunTypeOK
  <2>3. ReadsArePast'
    BY <1>1, <2>1 DEF runVars, ReadsArePast, RunTypeOK, Time, NoRead
  <2>4. QED
    BY <1>1, <2>2, <2>3 DEF runVars, ResolvedByLastLease, ResultExists
<1>2. CASE \E r \in Run : /\ r.at <= now
                          /\ InsertRun(r)
                          /\ UNCHANGED <<now, results, claimAt, grants>>
  <2>1. PICK r \in Run : /\ InsertRun(r)
                         /\ UNCHANGED <<now, results, claimAt, grants>>
    BY <1>2
  <2>2. CASE runs[r].status # "absent"
    <3>1. runs' = runs
      BY <2>1, <2>2 DEF InsertRun
    <3>2. QED
      BY <2>1, <3>1 DEF RunTypeOK, ReadsArePast, ResolvedByLastLease,
                        ResultExists
  <2>3. CASE runs[r].status = "absent"
    <3>1. runs' = [runs EXCEPT ![r].status = "available"]
      BY <2>1, <2>3 DEF InsertRun
    <3>2. RunTypeOK'
      BY <2>1, <3>1 DEF RunTypeOK, Row
    <3>3. ResolvedByLastLease'
      BY <2>1, <2>3, <3>1 DEF ResolvedByLastLease, ResultExists, RunTypeOK, Row
    <3>4. QED
      BY <2>1, <3>2, <3>3 DEF ReadsArePast
  <2>4. QED
    BY <2>2, <2>3
<1>3. CASE \E a \in Agent : ReadClaimTime(a) /\ UNCHANGED now
  <2>1. PICK a \in Agent : ReadClaimTime(a) /\ UNCHANGED now
    BY <1>3
  <2>2. RunTypeOK'
    BY <2>1 DEF ReadClaimTime, RunTypeOK
  <2>3. ReadsArePast'
    BY <2>1 DEF ReadClaimTime, RunTypeOK, ReadsArePast, Time
  <2>4. QED
    BY <2>1, <2>2, <2>3
       DEF ReadClaimTime, ResolvedByLastLease, ResultExists
<1>4. CASE \E a \in Agent : (ClaimNothing(a) \/ CancelClaim(a)) /\ UNCHANGED now
  <2>1. PICK a \in Agent : /\ claimAt' = [claimAt EXCEPT ![a] = NoRead]
                           /\ UNCHANGED <<now, runs, results, grants>>
    BY <1>4 DEF ClaimNothing, CancelClaim
  <2>2. RunTypeOK'
    BY <2>1 DEF RunTypeOK
  <2>3. ReadsArePast'
    BY <2>1 DEF RunTypeOK, ReadsArePast, Time, NoRead
  <2>4. QED
    BY <2>1, <2>2, <2>3 DEF ResolvedByLastLease, ResultExists
<1>5. CASE \E a \in Agent, r \in Run : Claim(a, r) /\ UNCHANGED now
  <2>1. PICK a \in Agent, r \in Run : Claim(a, r) /\ UNCHANGED now
    BY <1>5
  <2> DEFINE attempt == runs[r].attempt + 1
  <2> DEFINE row == [status |-> "leased", agent |-> a, attempt |-> attempt,
                     expires |-> claimAt[a] + LeaseDuration]
  <2> DEFINE grant == [agent |-> a, run |-> r, attempt |-> attempt]
  <2>2. /\ claimAt[a] \in Time
        /\ results[r] = NoResult
        /\ runs' = [runs EXCEPT ![r] = row]
        /\ grants' = grants \union {grant}
        /\ claimAt' = [claimAt EXCEPT ![a] = NoRead]
        /\ results' = results
    BY <2>1, ClaimEffect
  <2>3. attempt \in Nat /\ claimAt[a] + LeaseDuration \in Nat
    BY <2>2, DeploymentAssumption DEF RunTypeOK, Row, Time
  <2>4. row \in Row /\ grant \in Grant
    BY <2>3 DEF Row, Grant
  <2> HIDE DEF row, grant, attempt
  <2>5. RunTypeOK'
    BY <2>1, <2>2, <2>4 DEF RunTypeOK
  <2>6. ReadsArePast'
    BY <2>1, <2>2 DEF RunTypeOK, ReadsArePast, Time, NoRead
  <2>7. ResolvedByLastLease'
    BY <2>2 DEF ResolvedByLastLease, ResultExists, RunTypeOK, row
  <2>8. QED
    BY <2>5, <2>6, <2>7
<1>6. CASE \E g \in grants, f \in Time :
             AcceptResult(g.agent, g.run, g.attempt, f) /\ UNCHANGED now
  <2>1. PICK g \in grants, f \in Time :
               AcceptResult(g.agent, g.run, g.attempt, f) /\ UNCHANGED now
    BY <1>6
  <2> DEFINE result == [agent |-> g.agent, attempt |-> g.attempt, finished |-> f]
  <2>2. /\ g.agent \in Agent /\ g.run \in Run /\ g.attempt \in Nat
        /\ runs[g.run].agent = g.agent
        /\ runs[g.run].attempt = g.attempt
        /\ f <= runs[g.run].expires + Grace
        /\ results' = [results EXCEPT ![g.run] = result]
        /\ runs' = [runs EXCEPT ![g.run].status = "resolved"]
        /\ claimAt' = claimAt
        /\ grants' = grants
    BY <2>1, AcceptEffect
  <2>3. result \in Result
    BY <2>2 DEF Result
  <2>4. RunTypeOK'
    BY <2>1, <2>2, <2>3 DEF RunTypeOK, Row
  <2>5. \A q \in Run : /\ runs'[q].agent = runs[q].agent
                       /\ runs'[q].attempt = runs[q].attempt
                       /\ runs'[q].expires = runs[q].expires
                       /\ runs'[q].status = IF q = g.run THEN "resolved"
                                            ELSE runs[q].status
                       /\ results'[q] = IF q = g.run THEN result ELSE results[q]
    BY <2>2 DEF RunTypeOK, Row
  <2>6. result # NoResult
    BY <2>3, ResultIsNotNoResult
  <2>7. ResolvedByLastLease'
    BY <2>2, <2>5, <2>6 DEF ResolvedByLastLease, ResultExists
  <2>8. QED
    BY <2>1, <2>2, <2>4, <2>7 DEF ReadsArePast
<1>7. CASE UNCHANGED <<now, runVars>>
  BY <1>7 DEF runVars, RunTypeOK, ReadsArePast, ResolvedByLastLease,
              ResultExists
<1>8. QED
  BY <1>1, <1>2, <1>3, <1>4, <1>5, <1>6, <1>7 DEF RunStep

\* The inductive invariant holds in every behaviour of the run tables.
THEOREM RunInvariance == RunSpec => []RunInv
BY RunInvInit, RunInvStep, PTL DEF RunSpec

\* Types.
THEOREM RunTypes == RunSpec => []RunTypeOK
BY RunInvariance, PTL DEF RunInv

\* A run is resolved by the one stored result, made under its last lease.
THEOREM RunResolvedByLastLease == RunSpec => []ResolvedByLastLease
BY RunInvariance, PTL DEF RunInv

-----------------------------------------------------------------------------
LEMMA StepTakesOverAfterExpiry ==
  RunInv /\ [RunStep]_<<now, runVars>> =>
    [\A r \in Run :
       runs[r].status = "leased" /\ runs'[r].attempt # runs[r].attempt
         => runs[r].expires <= now]_<<now, runVars>>
<1> SUFFICES ASSUME RunInv, RunStep, NEW q \in Run,
                    runs[q].status = "leased",
                    runs'[q].attempt # runs[q].attempt
             PROVE  runs[q].expires <= now
  OBVIOUS
<1>1. CASE Tick /\ UNCHANGED runVars
  BY <1>1 DEF runVars
<1>2. CASE \E r \in Run : InsertRun(r)
  BY <1>2 DEF InsertRun, RunInv, RunTypeOK, Row
<1>3. CASE \E a \in Agent : ReadClaimTime(a) \/ ClaimNothing(a) \/ CancelClaim(a)
  BY <1>3 DEF ReadClaimTime, ClaimNothing, CancelClaim
<1>4. CASE \E a \in Agent, r \in Run : Claim(a, r)
  <2>1. PICK a \in Agent, r \in Run : Claim(a, r)
    BY <1>4
  <2>2. /\ claimAt[a] \in Time
        /\ claimAt[a] <= now
        /\ runs[r].status = "leased" => runs[r].expires <= claimAt[a]
        /\ runs' = [runs EXCEPT ![r] =
                      [status |-> "leased", agent |-> a,
                       attempt |-> runs[r].attempt + 1,
                       expires |-> claimAt[a] + LeaseDuration]]
    BY <2>1, ClaimEffect
  <2>3. q = r
    BY <2>2 DEF RunInv, RunTypeOK
  <2>4. runs[r].expires \in Int /\ now \in Int /\ claimAt[a] \in Int
    BY <2>2 DEF RunInv, RunTypeOK, Row, Time
  <2>5. QED
    BY <2>2, <2>3, <2>4
<1>5. CASE \E g \in grants, f \in Time :
             AcceptResult(g.agent, g.run, g.attempt, f)
  <2>1. PICK g \in grants, f \in Time :
               AcceptResult(g.agent, g.run, g.attempt, f)
    BY <1>5
  <2>2. runs' = [runs EXCEPT ![g.run].status = "resolved"]
    BY <2>1, AcceptEffect
  <2>3. QED
    BY <2>2 DEF RunInv, RunTypeOK, Row
<1>6. QED
  BY <1>1, <1>2, <1>3, <1>4, <1>5 DEF RunStep

\* A lease is taken over only after it has expired, although the claim
\* compares with a time read earlier.
THEOREM RunTakeoverOnlyAfterExpiry == RunSpec => TakeoverOnlyAfterExpiry
BY RunInvariance, StepTakesOverAfterExpiry, PTL
   DEF RunSpec, TakeoverOnlyAfterExpiry

LEMMA StepKeepsResolution ==
  RunInv /\ [RunStep]_<<now, runVars>> =>
    [\A r \in Run : ResultExists(r) =>
       results'[r] = results[r] /\ runs'[r] = runs[r]]_<<now, runVars>>
<1> SUFFICES ASSUME RunInv, RunStep, NEW q \in Run, ResultExists(q)
             PROVE  results'[q] = results[q] /\ runs'[q] = runs[q]
  OBVIOUS
<1>1. runs[q].status = "resolved"
  BY DEF RunInv, ResolvedByLastLease
<1>2. CASE Tick /\ UNCHANGED runVars
  BY <1>2 DEF runVars
<1>3. CASE \E r \in Run : InsertRun(r) /\ UNCHANGED results
  BY <1>1, <1>3 DEF InsertRun, RunInv, RunTypeOK
<1>4. CASE \E a \in Agent : ReadClaimTime(a) \/ ClaimNothing(a) \/ CancelClaim(a)
  BY <1>4 DEF ReadClaimTime, ClaimNothing, CancelClaim
<1>5. CASE \E a \in Agent, r \in Run : Claim(a, r)
  <2>1. PICK a \in Agent, r \in Run : Claim(a, r)
    BY <1>5
  <2>2. /\ runs[r].status \in {"available", "leased"}
        /\ runs' = [runs EXCEPT ![r] =
                      [status |-> "leased", agent |-> a,
                       attempt |-> runs[r].attempt + 1,
                       expires |-> claimAt[a] + LeaseDuration]]
        /\ results' = results
    BY <2>1, ClaimEffect
  <2>3. QED
    BY <1>1, <2>2 DEF RunInv, RunTypeOK
<1>6. CASE \E g \in grants, f \in Time :
             AcceptResult(g.agent, g.run, g.attempt, f)
  <2>1. PICK g \in grants, f \in Time :
               AcceptResult(g.agent, g.run, g.attempt, f)
    BY <1>6
  <2>2. /\ runs[g.run].status = "leased"
        /\ runs' = [runs EXCEPT ![g.run].status = "resolved"]
        /\ results' = [results EXCEPT ![g.run] =
             [agent |-> g.agent, attempt |-> g.attempt, finished |-> f]]
    BY <2>1, AcceptEffect
  <2>3. QED
    BY <1>1, <2>2 DEF RunInv, RunTypeOK
<1>7. QED
  BY <1>2, <1>3, <1>4, <1>5, <1>6 DEF RunStep

\* Nothing reopens or rewrites a resolved run.
THEOREM RunResolutionIsFinal == RunSpec => ResolutionIsFinal
BY RunInvariance, StepKeepsResolution, PTL DEF RunSpec, ResolutionIsFinal

-----------------------------------------------------------------------------
(***************************************************************************)
(* Refinement.  Insert opens, a claim takes the next ticket, an accepted   *)
(* result resolves; everything else stutters.                              *)
(***************************************************************************)
LEMMA PromiseInitially == RunInit => Promise!PromiseInit
BY DEF RunInit, Promise!PromiseInit, AbsentRow, NoResult

LEMMA PromiseStep ==
  RunInv /\ [RunStep]_<<now, runVars>> =>
    [Promise!PromiseNext]_Promise!promiseVars
<1> SUFFICES ASSUME RunInv, [RunStep]_<<now, runVars>>
             PROVE  [Promise!PromiseNext]_Promise!promiseVars
  OBVIOUS
<1> USE DEF RunInv
<1>1. CASE UNCHANGED <<runs, results>>
  BY <1>1 DEF Promise!promiseVars
<1>2. CASE \E r \in Run : InsertRun(r) /\ UNCHANGED results
  <2>1. PICK r \in Run : InsertRun(r) /\ UNCHANGED results
    BY <1>2
  <2>2. CASE runs[r].status = "absent"
    <3>1. runs' = [runs EXCEPT ![r].status = "available"]
      BY <2>1, <2>2 DEF InsertRun
    <3>2. Promise!Open(r)
      BY <2>1, <2>2, <3>1 DEF Promise!Open, RunTypeOK, Row
    <3>3. QED
      BY <3>2 DEF Promise!PromiseNext
  <2>3. CASE runs[r].status # "absent"
    BY <2>1, <2>3, <1>1 DEF InsertRun
  <2>4. QED
    BY <2>2, <2>3
<1>3. CASE \E a \in Agent, r \in Run : Claim(a, r)
  <2>1. PICK a \in Agent, r \in Run : Claim(a, r)
    BY <1>3
  <2>2. /\ runs[r].status \in {"available", "leased"}
        /\ runs' = [runs EXCEPT ![r] =
                      [status |-> "leased", agent |-> a,
                       attempt |-> runs[r].attempt + 1,
                       expires |-> claimAt[a] + LeaseDuration]]
        /\ results' = results
    BY <2>1, ClaimEffect
  <2>3. Promise!Hold(r, a)
    BY <2>2 DEF Promise!Hold, RunTypeOK, Row
  <2>4. QED
    BY <2>3 DEF Promise!PromiseNext
<1>4. CASE \E g \in grants, f \in Time :
             AcceptResult(g.agent, g.run, g.attempt, f)
  <2>1. PICK g \in grants, f \in Time :
               AcceptResult(g.agent, g.run, g.attempt, f)
    BY <1>4
  <2>2. /\ g.run \in Run
        /\ runs[g.run].status = "leased"
        /\ runs[g.run].agent = g.agent
        /\ runs' = [runs EXCEPT ![g.run].status = "resolved"]
        /\ results' = [results EXCEPT ![g.run] =
             [agent |-> g.agent, attempt |-> g.attempt, finished |-> f]]
    BY <2>1, AcceptEffect
  <2>3. \A q \in Run : /\ runs'[q].agent = runs[q].agent
                       /\ runs'[q].attempt = runs[q].attempt
                       /\ runs'[q].status = IF q = g.run THEN "resolved"
                                            ELSE runs[q].status
                       /\ results'[q].agent = IF q = g.run THEN runs[q].agent
                                              ELSE results[q].agent
    BY <2>2 DEF RunTypeOK, Row
  <2>4. Promise!Resolve(g.run)
    <3>1. [r \in Run |-> runs[r].status]' =
            [[r \in Run |-> runs[r].status] EXCEPT ![g.run] = "resolved"]
      BY <2>2, <2>3
    <3>2. [r \in Run |-> results[r].agent]' =
            [[r \in Run |-> results[r].agent] EXCEPT ![g.run] = runs[g.run].agent]
      BY <2>2, <2>3
    <3>3. UNCHANGED <<[r \in Run |-> runs[r].attempt], [r \in Run |-> runs[r].agent]>>
      BY <2>3
    <3>4. QED
      BY <2>2, <3>1, <3>2, <3>3 DEF Promise!Resolve
  <2>5. QED
    BY <2>2, <2>4 DEF Promise!PromiseNext
<1>5. QED
  BY <1>1, <1>2, <1>3, <1>4
     DEF RunStep, runVars, ReadClaimTime, ClaimNothing, CancelClaim

\* The run tables implement the promise: opened once, one holder at a time,
\* resolved once by the last holder.
THEOREM RunTablesKeepPromise == RunSpec => KeepsRunPromise
BY RunInvariance, PromiseInitially, PromiseStep, PTL
   DEF RunSpec, KeepsRunPromise, Promise!PromiseSpec

-----------------------------------------------------------------------------
(***************************************************************************)
(* The workers.                                                            *)
(***************************************************************************)
-----------------------------------------------------------------------------
\* Every result in memory was made under a lease the agent was given.
Granted(a, x) == [agent |-> a, run |-> x.run, attempt |-> x.attempt] \in grants

\* The results and the job in memory are granted.
HeldIsGranted(a) ==
  /\ \A n \in 1 .. Len(queue[a]) : Granted(a, queue[a][n])
  /\ \A n \in 1 .. Len(batch[a]) : Granted(a, batch[a][n])
  /\ job[a] # NoJob => Granted(a, job[a])

\* There is room in the queue for the batch and for the result of the job.
RoomLeft(a) ==
  /\ job[a] # NoJob => Len(queue[a]) < QueueCap
  /\ Len(queue[a]) + Len(batch[a]) <= QueueCap

\* The part of the batch that the server has handled is stored.
HandledIsStored(a) ==
  /\ pos[a] <= Len(batch[a]) + 1
  /\ \A n \in 1 .. Len(batch[a]) : n < pos[a] => ResultExists(batch[a][n].run)

WorkerHolds(a) == HeldIsGranted(a) /\ RoomLeft(a) /\ HandledIsStored(a)

WorkerInv == RunInv /\ WorkerTypeOK /\ \A a \in Agent : WorkerHolds(a)
-----------------------------------------------------------------------------
\* A lease is not the absence of one: only the former has fields.
LEMMA LeaseIsAJob ==
  ASSUME NEW x \in Lease
  PROVE  x # NoJob
<1>1. DOMAIN x = {"run", "attempt"}
  BY DEF Lease
<1>2. DOMAIN NoJob = {}
  BY DEF NoJob
<1>3. QED
  BY <1>1, <1>2

\* The run tables see a worker as one of their agents.
LEMMA WorkerRunStep ==
  ASSUME WorkerInv, [WorkerNext]_workerVars
  PROVE  [RunStep]_<<now, runVars>>
<1> USE DEF WorkerInv
<1>1. CASE Tick /\ UNCHANGED <<runVars, workVars>>
  BY <1>1 DEF RunStep
<1>2. ASSUME NEW r \in Run, UNCHANGED now, Enqueued(r)
      PROVE  RunStep
  BY <1>2 DEF Enqueued, RunStep
<1>3. ASSUME NEW a \in Agent, UNCHANGED now, Work(a)
      PROVE  RunStep \/ UNCHANGED <<now, runVars>>
  <2>1. CASE UNCHANGED runVars
    BY <1>3, <2>1
  <2>2. CASE ReadClaimTime(a) \/ ClaimNothing(a) \/ \E r \in Run : Claim(a, r)
    BY <1>3, <2>2 DEF RunStep
  <2>3. CASE IngestNext(a)
    <3>1. CASE UNCHANGED runVars
      BY <1>3, <3>1
    <3>2. ASSUME AcceptResult(a, batch[a][pos[a]].run, batch[a][pos[a]].attempt, batch[a][pos[a]].finished)
          PROVE  RunStep
      <4> DEFINE x == batch[a][pos[a]]
      <4>1. pos[a] \in 1 .. Len(batch[a])
        BY <2>3 DEF IngestNext, InBatch, WorkerTypeOK
      <4>2. x \in Finished
        BY <4>1, ElementOfSeq DEF WorkerTypeOK
      <4>3. Granted(a, x)
        BY <4>1 DEF WorkerHolds, HeldIsGranted
      <4> DEFINE g == [agent |-> a, run |-> x.run, attempt |-> x.attempt]
      <4>4. g \in grants /\ g.agent = a /\ g.run = x.run /\ g.attempt = x.attempt /\ x.finished \in Time
        BY <4>2, <4>3 DEF Granted, Finished
      <4>5. AcceptResult(g.agent, g.run, g.attempt, x.finished)
        BY <3>2, <4>4
      <4> HIDE DEF g, x
      <4>6. QED
        BY <1>3, <4>4, <4>5 DEF RunStep
    <3>3. QED
      BY <2>3, <3>1, <3>2 DEF IngestNext
  <2>4. QED
    BY <1>3, <2>1, <2>2, <2>3
       DEF Work, Heartbeat, QueueFull, PollForWork, NoWork, ReceiveWork, FinishProbe, BatchRejected, BatchAcknowledged
<1>4. ASSUME NEW a \in Agent, UNCHANGED now, Mishap(a)
      PROVE  RunStep \/ UNCHANGED <<now, runVars>>
  <2>1. CASE LeaseRequestFails(a)
    BY <1>4, <2>1 DEF LeaseRequestFails, RunStep
  <2>2. CASE UploadInterrupted(a) \/ UploadRefused(a) \/ CredentialUnread(a)
    BY <1>4, <2>2 DEF UploadInterrupted, UploadRefused, CredentialUnread
  <2>3. CASE Crash(a)
    <3>1. CASE claimAt[a] = NoRead
      BY <1>4, <2>3, <3>1 DEF Crash, runVars, WorkerTypeOK, RunTypeOK
    <3>2. CASE claimAt[a] # NoRead
      <4>1. CancelClaim(a)
        BY <2>3, <3>2 DEF Crash, CancelClaim
      <4>2. QED
        BY <1>4, <4>1 DEF RunStep
    <3>3. QED
      BY <3>1, <3>2
  <2>4. QED
    BY <1>4, <2>1, <2>2, <2>3 DEF Mishap
<1>5. CASE UNCHANGED workerVars
  BY <1>5 DEF workerVars
<1>6. QED
  BY <1>1, <1>2, <1>3, <1>4, <1>5 DEF WorkerNext
-----------------------------------------------------------------------------
\* Grants and stored results are never lost.
LEMMA TablesGrow ==
  ASSUME RunInv, [RunStep]_<<now, runVars>>
  PROVE  /\ grants \subseteq grants'
         /\ \A r \in Run : ResultExists(r) => ResultExists(r)'
<1>1. grants \subseteq grants'
  BY DEF RunStep, runVars, ReadClaimTime, ClaimNothing, CancelClaim, Claim, AcceptResult
<1>2. \A r \in Run : ResultExists(r) => results'[r] = results[r]
  <2>1. CASE UNCHANGED <<now, runVars>>
    BY <2>1 DEF runVars
  <2>2. CASE ~ UNCHANGED <<now, runVars>>
    BY <2>2, StepKeepsResolution
  <2>3. QED
    BY <2>1, <2>2
<1>3. QED
  BY <1>1, <1>2 DEF ResultExists

\* The results of a batch are results of runs.
LEMMA BatchOfResults ==
  ASSUME WorkerInv, NEW a \in Agent, NEW n \in 1 .. Len(batch[a])
  PROVE  batch[a][n] \in Finished /\ batch[a][n].run \in Run
<1>1. batch[a] \in Seq(Finished)
  BY DEF WorkerInv, WorkerTypeOK
<1>2. batch[a][n] \in Finished
  BY <1>1, ElementOfSeq
<1>3. QED
  BY <1>2 DEF Finished

\* The lengths of the queue and of the batch are numbers.
LEMMA LengthsAreNumbers ==
  ASSUME WorkerInv, NEW a \in Agent
  PROVE  Len(queue[a]) \in Nat /\ Len(batch[a]) \in Nat /\ pos[a] \in Nat \ {0}
BY LenProperties DEF WorkerInv, WorkerTypeOK

\* A worker that a step leaves alone keeps what is true of it.
Untouched(a) ==
  job'[a] = job[a] /\ queue'[a] = queue[a] /\ batch'[a] = batch[a] /\ pos'[a] = pos[a]

LEMMA UntouchedHolds ==
  ASSUME NEW a \in Agent, WorkerInv, [RunStep]_<<now, runVars>>, Untouched(a)
  PROVE  WorkerHolds(a)'
<1>1. HeldIsGranted(a)'
  BY TablesGrow DEF WorkerInv, WorkerHolds, HeldIsGranted, Granted, Untouched
<1>2. RoomLeft(a)'
  BY DEF WorkerInv, WorkerHolds, RoomLeft, Untouched
<1>3. HandledIsStored(a)'
  BY TablesGrow, BatchOfResults DEF WorkerInv, WorkerHolds, HandledIsStored, ResultExists, Untouched
<1>4. QED
  BY <1>1, <1>2, <1>3 DEF WorkerHolds

\* What must be shown of a step of worker a.
LEMMA OneWorkerMoves ==
  ASSUME NEW a \in Agent, WorkerInv, [RunStep]_<<now, runVars>>, WorkerTypeOK', WorkerHolds(a)',
         \A b \in Agent \ {a} : Untouched(b)
  PROVE  WorkerInv'
<1>1. RunInv'
  BY RunInvStep DEF WorkerInv
<1>2. \A b \in Agent : WorkerHolds(b)'
  BY UntouchedHolds
<1>3. QED
  BY <1>1, <1>2 DEF WorkerInv

\* What must be shown of a step that touches no worker's memory.
LEMMA NoWorkerMoves ==
  ASSUME WorkerInv, [RunStep]_<<now, runVars>>, WorkerTypeOK', \A b \in Agent : Untouched(b)
  PROVE  WorkerInv'
<1>1. RunInv'
  BY RunInvStep DEF WorkerInv
<1>2. \A b \in Agent : WorkerHolds(b)'
  BY UntouchedHolds
<1>3. QED
  BY <1>1, <1>2 DEF WorkerInv

LEMMA WorkerInvInit == WorkerInit => WorkerInv
<1> SUFFICES ASSUME WorkerInit PROVE WorkerInv
  OBVIOUS
<1>1. RunInv
  BY RunInvInit DEF WorkerInit
<1>2. WorkerTypeOK
  BY <1>1, WorkerAssumption, EmptySeq DEF WorkerInit, RunInv, WorkerTypeOK, NoJob
<1>3. \A a \in Agent : WorkerHolds(a)
  BY WorkerAssumption, EmptySeq
     DEF WorkerInit, WorkerHolds, HeldIsGranted, RoomLeft, HandledIsStored, NoJob
<1>4. QED
  BY <1>1, <1>2, <1>3 DEF WorkerInv

-----------------------------------------------------------------------------
\* Heartbeats, polls and failed lease requests move the worker only.
LEMMA LeasingKeeps ==
  ASSUME NEW a \in Agent, WorkerInv, [RunStep]_<<now, runVars>>,
         Heartbeat(a) \/ PollForWork(a) \/ LeaseRequestFails(a)
  PROVE  WorkerInv'
<1>1. UNCHANGED <<job, queue, batch, pos, crashes, unread>>
  BY DEF Heartbeat, PollForWork, LeaseRequestFails, workVars
<1>2. faults' \in 0 .. MaxFaults /\ crashes' \in 0 .. faults' /\ unread' \in 0 .. faults'
  BY WorkerAssumption DEF Heartbeat, PollForWork, LeaseRequestFails, workVars, Fault, WorkerInv, WorkerTypeOK
<1>3. pc[a] \in {"idle", "leasing"} /\ (pc' = pc \/ \E w \in {"idle", "leasing"} : Goto(a, w))
  BY DEF Heartbeat, PollForWork, LeaseRequestFails, workVars, CanLease
<1>4. RunInv'
  BY RunInvStep DEF WorkerInv
<1>5. WorkerTypeOK'
  BY <1>1, <1>2, <1>3, <1>4 DEF WorkerInv, RunInv, WorkerTypeOK, Goto
<1>6. QED
  BY <1>1, <1>5, NoWorkerMoves DEF Untouched

\* The queue becomes the batch, of which nothing is handled yet.
LEMMA DrainingKeeps ==
  ASSUME NEW a \in Agent, WorkerInv, [RunStep]_<<now, runVars>>,
         pc[a] = "leasing", BeginUpload(a), UNCHANGED <<job, faults, crashes, unread>>
  PROVE  WorkerInv'
<1>1. job[a] = NoJob /\ batch[a] = <<>> /\ queue[a] \in Seq(Finished)
  BY DEF WorkerInv, WorkerTypeOK
<1>2. RunInv'
  BY RunInvStep DEF WorkerInv
<1>3. WorkerTypeOK'
  BY <1>1, <1>2, EmptySeq DEF WorkerInv, RunInv, WorkerTypeOK, BeginUpload, Goto
<1>4. \A b \in Agent \ {a} : Untouched(b)
  BY DEF Untouched, BeginUpload, Goto, WorkerInv, WorkerTypeOK
<1>5. job'[a] = NoJob /\ batch'[a] = queue[a] /\ pos'[a] = 1
  BY <1>1 DEF BeginUpload, WorkerInv, WorkerTypeOK
<1>6. Len(batch[a]) = 0 /\ Len(queue'[a]) = 0
  BY <1>1 DEF BeginUpload, WorkerInv, WorkerTypeOK
<1>7. HeldIsGranted(a)'
  <2>1. (\A n \in 1 .. Len(queue[a]) : Granted(a, queue[a][n]))'
    BY <1>6
  <2>2. (\A n \in 1 .. Len(batch[a]) : Granted(a, batch[a][n]))'
    BY <1>5, TablesGrow DEF WorkerInv, WorkerHolds, HeldIsGranted, Granted
  <2>3. (job[a] # NoJob => Granted(a, job[a]))'
    BY <1>5
  <2>4. QED
    BY <2>1, <2>2, <2>3 DEF HeldIsGranted
<1>8. RoomLeft(a)'
  <2>1. Len(queue[a]) \in Nat /\ Len(queue[a]) + Len(batch[a]) <= QueueCap
    BY LengthsAreNumbers DEF WorkerInv, WorkerHolds, RoomLeft
  <2>2. QED
    BY <1>5, <1>6, <2>1, WorkerAssumption DEF RoomLeft
<1>9. HandledIsStored(a)'
  BY <1>5, LengthsAreNumbers DEF HandledIsStored
<1>10. QED
  BY <1>3, <1>4, <1>7, <1>8, <1>9, OneWorkerMoves DEF WorkerHolds

\* There is room for the result of a run when it is leased.
LEMMA ReceivingKeeps ==
  ASSUME NEW a \in Agent, WorkerInv, [RunStep]_<<now, runVars>>, ReceiveWork(a)
  PROVE  WorkerInv'
<1>1. PICK r \in Run : /\ Claim(a, r)
                       /\ job' = [job EXCEPT ![a] = [run |-> r, attempt |-> NextAttempt(r)]]
  BY DEF ReceiveWork
<1> DEFINE lease == [run |-> r, attempt |-> NextAttempt(r)]
<1>2. lease \in Lease
  BY DEF Lease, NextAttempt, WorkerInv, RunInv, RunTypeOK, Row
<1>3. lease # NoJob
  BY <1>2, LeaseIsAJob
<1>4. [agent |-> a, run |-> lease.run, attempt |-> lease.attempt] \in grants'
  BY <1>1 DEF Claim
<1>5. job'[a] = lease
  BY <1>1 DEF WorkerInv, WorkerTypeOK
<1>6. job' = [job EXCEPT ![a] = lease]
  BY <1>1
<1> HIDE DEF lease
<1>7. RunInv'
  BY RunInvStep DEF WorkerInv
<1>8. WorkerTypeOK'
  BY <1>2, <1>3, <1>6, <1>7 DEF WorkerInv, RunInv, WorkerTypeOK, ReceiveWork, CanLease, Goto
<1>9. \A b \in Agent \ {a} : Untouched(b)
  BY <1>6 DEF Untouched, ReceiveWork, Goto, WorkerInv, WorkerTypeOK
<1>10. UNCHANGED <<queue, batch, pos>> /\ Len(queue[a]) < QueueCap
  BY DEF ReceiveWork, CanLease
<1>11. HeldIsGranted(a)'
  BY <1>4, <1>5, <1>10, TablesGrow DEF WorkerInv, WorkerHolds, HeldIsGranted, Granted
<1>12. RoomLeft(a)'
  BY <1>10 DEF WorkerInv, WorkerHolds, RoomLeft
<1>13. HandledIsStored(a)'
  BY <1>10, TablesGrow, BatchOfResults DEF WorkerInv, WorkerHolds, HandledIsStored, ResultExists
<1>14. QED
  BY <1>8, <1>9, <1>11, <1>12, <1>13, OneWorkerMoves DEF WorkerHolds

\* The result goes into the room that was left for it.
LEMMA FinishingKeeps ==
  ASSUME NEW a \in Agent, WorkerInv, [RunStep]_<<now, runVars>>, FinishProbe(a)
  PROVE  WorkerInv'
<1> DEFINE result == [run |-> job[a].run, attempt |-> job[a].attempt, finished |-> now]
<1>1. job[a] \in Lease /\ job[a] # NoJob /\ batch[a] = <<>> /\ queue[a] \in Seq(Finished)
  BY DEF FinishProbe, WorkerInv, WorkerTypeOK
<1>2. result \in Finished
  BY <1>1 DEF Lease, Finished, WorkerInv, RunInv, RunTypeOK
<1>3. Granted(a, result)
  BY <1>1 DEF WorkerInv, WorkerHolds, HeldIsGranted, Granted
<1>4. /\ queue' = [queue EXCEPT ![a] = Append(@, result)]
      /\ job' = [job EXCEPT ![a] = NoJob]
      /\ UNCHANGED <<grants, batch, pos, faults, crashes, unread>>
  BY DEF FinishProbe, runVars
<1> HIDE DEF result
<1>5. /\ Append(queue[a], result) \in Seq(Finished)
      /\ Len(Append(queue[a], result)) = Len(queue[a]) + 1
      /\ \A n \in 1 .. Len(queue[a]) : Append(queue[a], result)[n] = queue[a][n]
      /\ Append(queue[a], result)[Len(queue[a]) + 1] = result
  BY <1>1, <1>2, AppendProperties
<1>6. RunInv'
  BY RunInvStep DEF WorkerInv
<1>7. WorkerTypeOK'
  BY <1>4, <1>5, <1>6, <1>1 DEF WorkerInv, RunInv, WorkerTypeOK, FinishProbe, Goto
<1>8. \A b \in Agent \ {a} : Untouched(b)
  BY <1>4 DEF Untouched, FinishProbe, Goto, WorkerInv, WorkerTypeOK
<1>9. queue'[a] = Append(queue[a], result) /\ job'[a] = NoJob /\ batch'[a] = batch[a] /\ pos'[a] = pos[a]
  BY <1>4 DEF WorkerInv, WorkerTypeOK
<1>10. \A n \in 1 .. Len(queue'[a]) : n \in 1 .. Len(queue[a]) \/ n = Len(queue[a]) + 1
  BY <1>5, <1>9, LengthsAreNumbers
<1>11. \A n \in 1 .. Len(queue'[a]) : Granted(a, queue'[a][n])
  BY <1>3, <1>5, <1>9, <1>10 DEF WorkerInv, WorkerHolds, HeldIsGranted
<1>12. HeldIsGranted(a)'
  BY <1>4, <1>9, <1>11 DEF WorkerInv, WorkerHolds, HeldIsGranted, Granted
<1>13. Len(batch[a]) = 0
  BY <1>1
<1>14. RoomLeft(a)'
  <2>1. Len(queue[a]) \in Nat /\ Len(queue[a]) < QueueCap
    BY <1>1, LengthsAreNumbers DEF WorkerInv, WorkerHolds, RoomLeft
  <2>2. Len(queue'[a]) = Len(queue[a]) + 1 /\ Len(batch'[a]) = 0
    BY <1>5, <1>9, <1>13
  <2>3. QED
    BY <1>9, <2>1, <2>2, WorkerAssumption DEF RoomLeft
<1>15. HandledIsStored(a)'
  BY <1>9, TablesGrow, BatchOfResults DEF WorkerInv, WorkerHolds, HandledIsStored, ResultExists
<1>16. QED
  BY <1>7, <1>8, <1>12, <1>14, <1>15, OneWorkerMoves DEF WorkerHolds

\* A handled command is stored: now, or before if it is a duplicate.
LEMMA IngestingKeeps ==
  ASSUME NEW a \in Agent, WorkerInv, [RunStep]_<<now, runVars>>, IngestNext(a)
  PROVE  WorkerInv'
<1>1. /\ UNCHANGED <<pc, job, queue, batch, faults, crashes, unread, grants>>
      /\ pos' = [pos EXCEPT ![a] = @ + 1]
      /\ pos[a] \in 1 .. Len(batch[a])
  BY LengthsAreNumbers DEF IngestNext, InBatch, AcceptResult, runVars
<1>2. RunInv'
  BY RunInvStep DEF WorkerInv
<1>3. WorkerTypeOK'
  BY <1>1, <1>2 DEF WorkerInv, RunInv, WorkerTypeOK
<1>4. \A b \in Agent \ {a} : Untouched(b)
  BY <1>1 DEF Untouched, WorkerInv, WorkerTypeOK
<1>5. pos'[a] = pos[a] + 1
  BY <1>1 DEF WorkerInv, WorkerTypeOK
<1>6. results'[batch[a][pos[a]].run] # NoResult
  <2> DEFINE x == batch[a][pos[a]]
  <2>1. x \in Finished /\ x.run \in Run
    BY <1>1, BatchOfResults
  <2>2. CASE BatchReply(a) = "duplicate" /\ UNCHANGED runVars
    <3>1. ResultExists(x.run)
      BY <2>2 DEF BatchReply, Reply
    <3>2. QED
      BY <2>2, <3>1 DEF ResultExists, runVars
  <2>3. CASE AcceptResult(a, x.run, x.attempt, x.finished)
    <3>1. results'[x.run] \in Result
      BY <2>1, <2>3 DEF AcceptResult, WorkerInv, RunInv, RunTypeOK, Result, Finished
    <3>2. QED
      BY <3>1, ResultIsNotNoResult
  <2>4. QED
    BY <2>2, <2>3 DEF IngestNext
<1>7. HeldIsGranted(a)' /\ RoomLeft(a)'
  BY <1>1 DEF WorkerInv, WorkerHolds, HeldIsGranted, Granted, RoomLeft
<1>8. pos[a] \in Nat /\ Len(batch[a]) \in Nat
  BY LengthsAreNumbers
<1>9. ASSUME NEW n \in 1 .. Len(batch[a]), n < pos[a] + 1
      PROVE  results'[batch[a][n].run] # NoResult
  <2>1. CASE n = pos[a]
    BY <1>6, <2>1
  <2>2. CASE n < pos[a]
    <3>1. ResultExists(batch[a][n].run) /\ batch[a][n].run \in Run
      BY <2>2, BatchOfResults DEF WorkerInv, WorkerHolds, HandledIsStored
    <3>2. QED
      BY <3>1, TablesGrow DEF WorkerInv, ResultExists
  <2>3. QED
    BY <1>8, <1>9, <2>1, <2>2
<1>10. HandledIsStored(a)'
  BY <1>1, <1>5, <1>8, <1>9 DEF HandledIsStored, ResultExists
<1>11. QED
  BY <1>3, <1>4, <1>7, <1>10, OneWorkerMoves DEF WorkerHolds

\* Each entry of a concatenation is an entry of one of its parts.
LEMMA ConcatEntries ==
  ASSUME NEW S, NEW s \in Seq(S), NEW t \in Seq(S), NEW n \in 1 .. Len(s \o t)
  PROVE  \/ n \in 1 .. Len(s) /\ (s \o t)[n] = s[n]
         \/ n - Len(s) \in 1 .. Len(t) /\ (s \o t)[n] = t[n - Len(s)]
<1> DEFINE p == Len(s)
<1> DEFINE q == Len(t)
<1>1. p \in Nat /\ q \in Nat
  BY LenProperties
<1>2. n \in 1 .. p + q
  BY ConcatProperties
<1>3. (s \o t)[n] = IF n <= p THEN s[n] ELSE t[n - p]
  BY <1>2, ConcatProperties
<1> HIDE DEF p, q
<1>4. CASE n <= p
  <2>1. n \in 1 .. p
    BY <1>1, <1>2, <1>4
  <2>2. QED
    BY <1>3, <1>4, <2>1 DEF p
<1>5. CASE ~ n <= p
  <2>1. n - p \in 1 .. q
    BY <1>1, <1>2, <1>5
  <2>2. QED
    BY <1>3, <1>5, <2>1 DEF p, q
<1>6. QED
  BY <1>4, <1>5

\* What fits together fits alone, and an empty rest changes nothing.
LEMMA SumsFit ==
  ASSUME NEW c \in Nat, NEW p \in Nat, NEW q \in Nat, p + q <= c
  PROVE  p + 0 <= c /\ (p + q) + 0 <= c
OBVIOUS

\* A rejected or refused batch fits into the queue it was drained from.
LEMMA RejectionKeeps ==
  ASSUME NEW a \in Agent, WorkerInv, [RunStep]_<<now, runVars>>, BatchRejected(a) \/ UploadRefused(a)
  PROVE  WorkerInv'
<1> DEFINE all == queue[a] \o batch[a]
<1>1. queue[a] \in Seq(Finished) /\ batch[a] \in Seq(Finished) /\ job[a] = NoJob
  BY DEF BatchRejected, UploadRefused, InBatch, WorkerInv, WorkerTypeOK
<1>2. all \in Seq(Finished) /\ Len(all) = Len(queue[a]) + Len(batch[a])
  BY <1>1, ConcatProperties
<1>3. /\ queue' = [queue EXCEPT ![a] = all]
      /\ batch' = [batch EXCEPT ![a] = <<>>]
      /\ pos' = [pos EXCEPT ![a] = 1]
      /\ pc' = [pc EXCEPT ![a] = "idle"]
      /\ UNCHANGED <<job, grants, crashes, unread>>
  BY DEF BatchRejected, UploadRefused, EndUpload, Goto, runVars
<1>4. ASSUME NEW n \in 1 .. Len(all) PROVE Granted(a, all[n])
  <2>1. HeldIsGranted(a)
    BY DEF WorkerInv, WorkerHolds
  <2>2. CASE n \in 1 .. Len(queue[a]) /\ all[n] = queue[a][n]
    BY <2>1, <2>2 DEF HeldIsGranted
  <2>3. CASE n - Len(queue[a]) \in 1 .. Len(batch[a]) /\ all[n] = batch[a][n - Len(queue[a])]
    BY <2>1, <2>3 DEF HeldIsGranted
  <2>4. QED
    BY <1>1, <2>2, <2>3, ConcatEntries
<1> HIDE DEF all
<1>5. RunInv'
  BY RunInvStep DEF WorkerInv
<1>6. WorkerTypeOK'
  <2>1. faults' \in 0 .. MaxFaults /\ crashes \in 0 .. faults' /\ unread \in 0 .. faults'
    BY WorkerAssumption DEF BatchRejected, UploadRefused, Fault, WorkerInv, WorkerTypeOK
  <2>2. QED
    BY <1>1, <1>2, <1>3, <1>5, <2>1, EmptySeq DEF WorkerInv, RunInv, WorkerTypeOK
<1>7. \A b \in Agent \ {a} : Untouched(b)
  BY <1>3 DEF Untouched, WorkerInv, WorkerTypeOK
<1>8. queue'[a] = all /\ batch'[a] = <<>> /\ pos'[a] = 1 /\ job'[a] = NoJob
  BY <1>1, <1>3 DEF WorkerInv, WorkerTypeOK
<1>9. Len(batch'[a]) = 0
  BY <1>8
<1>10. Len(queue[a]) \in Nat /\ Len(batch[a]) \in Nat
  BY LengthsAreNumbers
<1>11. HeldIsGranted(a)'
  <2>1. (\A n \in 1 .. Len(queue[a]) : Granted(a, queue[a][n]))'
    BY <1>3, <1>8, <1>4 DEF Granted
  <2>2. (\A n \in 1 .. Len(batch[a]) : Granted(a, batch[a][n]))'
    BY <1>9
  <2>3. QED
    BY <1>8, <2>1, <2>2 DEF HeldIsGranted
<1>12. RoomLeft(a)'
  <2>1. Len(queue[a]) + Len(batch[a]) <= QueueCap
    BY DEF WorkerInv, WorkerHolds, RoomLeft
  <2>2. Len(queue'[a]) = Len(queue[a]) + Len(batch[a])
    BY <1>2, <1>8
  <2>3. Len(queue'[a]) + Len(batch'[a]) <= QueueCap
    <3>1. (Len(queue[a]) + Len(batch[a])) + 0 <= QueueCap
      BY <1>10, <2>1, SumsFit, WorkerAssumption
    <3>2. QED
      BY <1>9, <2>2, <3>1
  <2>4. QED
    BY <1>8, <2>3 DEF RoomLeft
<1>13. HandledIsStored(a)'
  BY <1>8, <1>9 DEF HandledIsStored
<1>14. QED
  BY <1>6, <1>7, <1>11, <1>12, <1>13, OneWorkerMoves DEF WorkerHolds

\* The entries of both parts are entries of a concatenation.
LEMMA PartsOfConcat ==
  ASSUME NEW S, NEW s \in Seq(S), NEW t \in Seq(S)
  PROVE  Entries(s) \union Entries(t) \subseteq Entries(s \o t)
<1> DEFINE p == Len(s)
<1> DEFINE q == Len(t)
<1>1. p \in Nat /\ q \in Nat
  BY LenProperties
<1>2. /\ Len(s \o t) = p + q
      /\ \A i \in 1 .. p + q : (s \o t)[i] = IF i <= p THEN s[i] ELSE t[i - p]
  BY ConcatProperties
<1> HIDE DEF p, q
<1>3. ASSUME NEW n \in 1 .. p PROVE n \in 1 .. p + q /\ (s \o t)[n] = s[n]
  BY <1>1, <1>2
<1>4. ASSUME NEW n \in 1 .. q PROVE n + p \in 1 .. p + q /\ (s \o t)[n + p] = t[n]
  <2>1. n + p \in 1 .. p + q /\ ~ (n + p <= p) /\ (n + p) - p = n
    BY <1>1
  <2>2. QED
    BY <1>2, <2>1
<1>5. QED
  BY <1>2, <1>3, <1>4 DEF Entries, p, q

\* Forgetting the batch, the job or the queue leaves less to hold.
LEMMA ForgettingKeeps ==
  ASSUME NEW a \in Agent, WorkerInv, [RunStep]_<<now, runVars>>,
         BatchAcknowledged(a) \/ CredentialUnread(a) \/ Crash(a)
  PROVE  WorkerInv'
<1>1. /\ batch' = [batch EXCEPT ![a] = <<>>]
      /\ pos' = [pos EXCEPT ![a] = 1]
      /\ pc' = [pc EXCEPT ![a] = "idle"]
      /\ queue' = queue \/ queue' = [queue EXCEPT ![a] = <<>>]
      /\ job' = [job EXCEPT ![a] = NoJob]
      /\ faults' \in 0 .. MaxFaults
      /\ UNCHANGED grants
  <2>1. CASE BatchAcknowledged(a)
    BY <2>1 DEF BatchAcknowledged, EndUpload, Goto, runVars, WorkerInv, WorkerTypeOK
  <2>2. CASE Crash(a)
    BY <2>2, WorkerAssumption DEF Crash, Fault, Goto, WorkerInv, WorkerTypeOK
  <2>3. CASE CredentialUnread(a)
    BY <2>3, WorkerAssumption DEF CredentialUnread, EndUpload, Fault, Goto, runVars, WorkerInv, WorkerTypeOK
  <2>4. QED
    BY <2>1, <2>2, <2>3
<1>2. crashes' \in 0 .. faults' /\ unread' \in 0 .. faults'
  BY WorkerAssumption DEF BatchAcknowledged, CredentialUnread, Crash, Fault, WorkerInv, WorkerTypeOK
<1>3. RunInv'
  BY RunInvStep DEF WorkerInv
<1>4. WorkerTypeOK'
  <2>1. queue' \in [Agent -> Seq(Finished)] /\ batch' \in [Agent -> Seq(Finished)]
    <3>1. <<>> \in Seq(Finished)
      BY EmptySeq
    <3>2. queue \in [Agent -> Seq(Finished)] /\ batch \in [Agent -> Seq(Finished)]
      BY DEF WorkerInv, WorkerTypeOK
    <3>3. QED
      BY <1>1, <3>1, <3>2
  <2>2. \A b \in Agent : /\ pc'[b] = "executing" <=> job'[b] # NoJob
                         /\ pc'[b] = "uploading" <=> batch'[b] # <<>>
    BY <1>1 DEF WorkerInv, WorkerTypeOK
  <2>3. QED
    BY <1>1, <1>2, <1>3, <2>1, <2>2 DEF WorkerInv, RunInv, WorkerTypeOK
<1>5. \A b \in Agent \ {a} : Untouched(b)
  BY <1>1 DEF Untouched, WorkerInv, WorkerTypeOK
<1>6. /\ batch'[a] = <<>> /\ pos'[a] = 1 /\ job'[a] = NoJob
      /\ queue'[a] = queue[a] \/ queue'[a] = <<>>
  BY <1>1 DEF WorkerInv, WorkerTypeOK
<1>7. Len(batch'[a]) = 0 /\ (queue'[a] = queue[a] \/ Len(queue'[a]) = 0)
  BY <1>6
<1>8. HeldIsGranted(a)'
  <2>1. (\A n \in 1 .. Len(queue[a]) : Granted(a, queue[a][n]))'
    <3>1. CASE queue'[a] = queue[a]
      BY <1>1, <3>1 DEF WorkerInv, WorkerHolds, HeldIsGranted, Granted
    <3>2. CASE Len(queue'[a]) = 0
      BY <3>2
    <3>3. QED
      BY <1>7, <3>1, <3>2
  <2>2. (\A n \in 1 .. Len(batch[a]) : Granted(a, batch[a][n]))'
    BY <1>7
  <2>3. QED
    BY <1>6, <2>1, <2>2 DEF HeldIsGranted
<1>9. RoomLeft(a)'
  <2>1. /\ Len(queue[a]) \in Nat /\ Len(batch[a]) \in Nat
        /\ Len(queue[a]) + Len(batch[a]) <= QueueCap
    BY LengthsAreNumbers DEF WorkerInv, WorkerHolds, RoomLeft
  <2>2. Len(queue'[a]) \in {0, Len(queue[a])} /\ Len(batch'[a]) = 0
    BY <1>7
  <2>3. Len(queue'[a]) + Len(batch'[a]) <= QueueCap
    <3>1. CASE Len(queue'[a]) = 0
      BY <2>2, <3>1, WorkerAssumption
    <3>2. CASE Len(queue'[a]) = Len(queue[a])
      <4>1. Len(queue[a]) + 0 <= QueueCap
        BY <2>1, SumsFit, WorkerAssumption
      <4>2. QED
        BY <2>2, <3>2, <4>1
    <3>3. QED
      BY <2>2, <3>1, <3>2
  <2>4. QED
    BY <1>6, <2>3 DEF RoomLeft
<1>10. HandledIsStored(a)'
  BY <1>6, <1>7 DEF HandledIsStored
<1>11. QED
  BY <1>4, <1>5, <1>8, <1>9, <1>10, OneWorkerMoves DEF WorkerHolds

\* An interrupted upload starts again from its first command.
LEMMA InterruptionKeeps ==
  ASSUME NEW a \in Agent, WorkerInv, [RunStep]_<<now, runVars>>, UploadInterrupted(a)
  PROVE  WorkerInv'
<1>1. UNCHANGED <<grants, pc, job, queue, batch, crashes, unread>> /\ pos' = [pos EXCEPT ![a] = 1]
  BY DEF UploadInterrupted, runVars
<1>2. faults' \in 0 .. MaxFaults /\ crashes' \in 0 .. faults' /\ unread' \in 0 .. faults'
  BY WorkerAssumption DEF UploadInterrupted, Fault, WorkerInv, WorkerTypeOK
<1>3. RunInv'
  BY RunInvStep DEF WorkerInv
<1>4. WorkerTypeOK'
  BY <1>1, <1>2, <1>3 DEF WorkerInv, RunInv, WorkerTypeOK
<1>5. \A b \in Agent \ {a} : Untouched(b)
  BY <1>1 DEF Untouched, WorkerInv, WorkerTypeOK
<1>6. pos'[a] = 1
  BY <1>1 DEF WorkerInv, WorkerTypeOK
<1>7. HeldIsGranted(a)' /\ RoomLeft(a)'
  BY <1>1 DEF WorkerInv, WorkerHolds, HeldIsGranted, Granted, RoomLeft
<1>8. HandledIsStored(a)'
  BY <1>1, <1>6, LengthsAreNumbers DEF HandledIsStored
<1>9. QED
  BY <1>4, <1>5, <1>7, <1>8, OneWorkerMoves DEF WorkerHolds

\* The clock, the scheduler and a stutter leave the workers alone.
LEMMA OutsideKeeps ==
  ASSUME WorkerInv, [RunStep]_<<now, runVars>>, UNCHANGED workVars
  PROVE  WorkerInv'
<1>1. RunInv'
  BY RunInvStep DEF WorkerInv
<1>2. WorkerTypeOK'
  BY <1>1 DEF WorkerInv, RunInv, WorkerTypeOK, workVars
<1>3. QED
  BY <1>2, NoWorkerMoves DEF Untouched, workVars

LEMMA WorkerInvStep == WorkerInv /\ [WorkerNext]_workerVars => WorkerInv'
<1> SUFFICES ASSUME WorkerInv, [WorkerNext]_workerVars PROVE WorkerInv'
  OBVIOUS
<1>1. [RunStep]_<<now, runVars>>
  BY WorkerRunStep
<1>2. ASSUME NEW a \in Agent, Work(a)
      PROVE  WorkerInv'
  <2>1. CASE Heartbeat(a) \/ PollForWork(a)
    BY <1>1, <2>1, LeasingKeeps
  <2>2. CASE QueueFull(a)
    BY <1>1, <2>2, DrainingKeeps DEF QueueFull
  <2>3. CASE NoWork(a)
    <3>1. CASE BeginUpload(a)
      BY <1>1, <2>3, <3>1, DrainingKeeps DEF NoWork, CanLease
    <3>2. CASE UNCHANGED <<pc, queue, batch, pos>>
      BY <1>1, <2>3, <3>2, OutsideKeeps DEF NoWork, workVars
    <3>3. QED
      BY <2>3, <3>1, <3>2 DEF NoWork
  <2>4. CASE ReceiveWork(a)
    BY <1>1, <2>4, ReceivingKeeps
  <2>5. CASE FinishProbe(a)
    BY <1>1, <2>5, FinishingKeeps
  <2>6. CASE IngestNext(a)
    BY <1>1, <2>6, IngestingKeeps
  <2>7. CASE BatchRejected(a)
    BY <1>1, <2>7, RejectionKeeps
  <2>8. CASE BatchAcknowledged(a)
    BY <1>1, <2>8, ForgettingKeeps
  <2>9. QED
    BY <1>2, <2>1, <2>2, <2>3, <2>4, <2>5, <2>6, <2>7, <2>8 DEF Work
<1>3. ASSUME NEW a \in Agent, Mishap(a)
      PROVE  WorkerInv'
  <2>1. CASE LeaseRequestFails(a)
    BY <1>1, <2>1, LeasingKeeps
  <2>2. CASE UploadInterrupted(a)
    BY <1>1, <2>2, InterruptionKeeps
  <2>3. CASE UploadRefused(a)
    BY <1>1, <2>3, RejectionKeeps
  <2>4. CASE CredentialUnread(a) \/ Crash(a)
    BY <1>1, <2>4, ForgettingKeeps
  <2>5. QED
    BY <1>3, <2>1, <2>2, <2>3, <2>4 DEF Mishap
<1>4. CASE UNCHANGED workVars
  BY <1>1, <1>4, OutsideKeeps
<1>5. QED
  BY <1>2, <1>3, <1>4 DEF WorkerNext, workerVars, Enqueued

-----------------------------------------------------------------------------
\* What leaves a worker's memory while nothing crashes is stored, or was in the
\* batch of an upload that could not read its credential.
LEMMA WorkerStepKeeps ==
  ASSUME WorkerInv, [WorkerNext]_workerVars, crashes' = crashes,
         NEW a \in Agent, NEW x \in Held(a) \ Held(a)'
  PROVE  \/ ResultExists(x.run)'
         \/ unread' = unread + 1 /\ x \in Entries(batch[a])
<1>1. ~ (queue'[a] = queue[a] /\ batch'[a] = batch[a])
  BY DEF Held, Entries
<1>2. PICK b \in Agent : Work(b) \/ Mishap(b)
  BY <1>1 DEF WorkerNext, workerVars, workVars, Enqueued
<1>3. b = a
  BY <1>1, <1>2
     DEF Work, Mishap, Heartbeat, QueueFull, PollForWork, NoWork, ReceiveWork, FinishProbe, IngestNext,
         BatchRejected, BatchAcknowledged, LeaseRequestFails, UploadInterrupted, UploadRefused, CredentialUnread,
         Crash, BeginUpload, EndUpload, workVars, WorkerInv, WorkerTypeOK
<1>4. ~ (LeaseRequestFails(a) \/ UploadInterrupted(a) \/ Crash(a))
  BY <1>1 DEF LeaseRequestFails, UploadInterrupted, Crash, WorkerInv, WorkerTypeOK
<1>5. Len(queue[a]) \in Nat /\ Len(batch[a]) \in Nat /\ queue[a] \in Seq(Finished) /\ batch[a] \in Seq(Finished)
  BY LengthsAreNumbers DEF WorkerInv, WorkerTypeOK
<1>6. ASSUME pc[a] = "leasing", BeginUpload(a)
      PROVE  FALSE
  <2>1. Len(batch[a]) = 0 /\ batch'[a] = queue[a]
    BY <1>6 DEF BeginUpload, WorkerInv, WorkerTypeOK
  <2>2. QED
    BY <2>1 DEF Held, Entries
<1>7. CASE FinishProbe(a)
  <2> DEFINE result == [run |-> job[a].run, attempt |-> job[a].attempt, finished |-> now]
  <2>1. queue'[a] = Append(queue[a], result) /\ batch'[a] = batch[a]
    BY <1>7 DEF FinishProbe, WorkerInv, WorkerTypeOK
  <2>2. job[a] \in Lease /\ result \in Finished
    BY <1>7 DEF FinishProbe, WorkerInv, WorkerTypeOK, Lease, Finished, RunInv, RunTypeOK
  <2> HIDE DEF result
  <2>3. \A n \in 1 .. Len(queue[a]) : queue'[a][n] = queue[a][n] /\ n \in 1 .. Len(queue'[a])
    BY <1>5, <2>1, <2>2, AppendProperties
  <2>4. QED
    BY <2>1, <2>3 DEF Held, Entries
<1>8. CASE BatchRejected(a) \/ UploadRefused(a)
  <2>1. queue'[a] = queue[a] \o batch[a]
    BY <1>8 DEF BatchRejected, UploadRefused, WorkerInv, WorkerTypeOK
  <2>2. Entries(queue[a]) \union Entries(batch[a]) \subseteq Entries(queue[a] \o batch[a])
    BY <1>5, PartsOfConcat
  <2>3. Held(a) \subseteq Held(a)'
    BY <2>1, <2>2 DEF Held, Entries
  <2>4. QED
    BY <2>3
<1>9. CASE BatchAcknowledged(a)
  <2>1. queue'[a] = queue[a] /\ pos[a] > Len(batch[a])
    BY <1>9 DEF BatchAcknowledged
  <2>2. PICK n \in 1 .. Len(batch[a]) : x = batch[a][n]
    BY <2>1 DEF Held, Entries
  <2>3. ResultExists(x.run) /\ x.run \in Run
    BY <2>1, <2>2, BatchOfResults, LengthsAreNumbers DEF WorkerInv, WorkerHolds, HandledIsStored
  <2>4. QED
    BY <2>3, TablesGrow, WorkerRunStep DEF WorkerInv
<1>10. CASE CredentialUnread(a)
  <2>1. queue'[a] = queue[a] /\ unread' = unread + 1
    BY <1>10 DEF CredentialUnread
  <2>2. QED
    BY <2>1 DEF Held
<1>11. QED
  BY <1>1, <1>2, <1>3, <1>4, <1>6, <1>7, <1>8, <1>9, <1>10
     DEF Work, Mishap, Heartbeat, QueueFull, PollForWork, NoWork, ReceiveWork, IngestNext, CanLease, workVars

-----------------------------------------------------------------------------
\* WorkerInv holds in every reachable state.
THEOREM WorkerInvariance == WorkerSpec => []WorkerInv
<1>1. WorkerInit => WorkerInv
  BY WorkerInvInit
<1>2. WorkerInv /\ [WorkerNext]_workerVars => WorkerInv'
  BY WorkerInvStep
<1>3. QED
  BY <1>1, <1>2, PTL DEF WorkerSpec

\* The workers, their queues and their batches keep their types, and a worker
\* executes exactly while it has a job and uploads exactly while it has a batch.
THEOREM WorkerTypes == WorkerSpec => []WorkerTypeOK
<1>1. WorkerInv => WorkerTypeOK
  BY DEF WorkerInv
<1>2. QED
  BY <1>1, WorkerInvariance, PTL

\* The channel has room for the batch that is being uploaded, so requeue never
\* blocks (the capacity check of RunOnce before each lease).
THEOREM WorkerQueueWithinCapacity == WorkerSpec => []QueueWithinCapacity
<1>1. WorkerInv => QueueWithinCapacity
  BY DEF WorkerInv, WorkerHolds, RoomLeft, QueueWithinCapacity
<1>2. QED
  BY <1>1, WorkerInvariance, PTL

\* Only a crash, or a credential that cannot be read when an upload attempt
\* starts, loses a result that the server does not have; the latter loses the
\* batch of that upload and nothing of the queue.
THEOREM WorkerKeptUntilStored == WorkerSpec => KeptUntilStored
<1>1. WorkerInv /\ [WorkerNext]_workerVars =>
        (crashes' = crashes =>
           \A a \in Agent :
             Discarded(a) # {} =>
               /\ unread' = unread + 1
               /\ Discarded(a) \subseteq Entries(batch[a]))
  BY WorkerStepKeeps DEF Discarded
<1>2. QED
  BY <1>1, WorkerInvariance, PTL DEF WorkerSpec, KeptUntilStored

\* The workers and the server's handlers change the run tables in the steps of
\* RunTable only, whatever is lost, repeated or forgotten.
THEOREM WorkerImplementsRuns == WorkerSpec => RunSpec
<1>1. WorkerInit => RunInit
  BY DEF WorkerInit
<1>2. WorkerInv /\ [WorkerNext]_workerVars => [RunStep]_<<now, runVars>>
  BY WorkerRunStep
<1>3. QED
  BY <1>1, <1>2, WorkerInvariance, PTL DEF WorkerSpec, RunSpec

\* So a run is resolved by the last lease of it, under any mishap of a worker.
THEOREM WorkerResolvedByLastLease == WorkerSpec => []ResolvedByLastLease
BY WorkerImplementsRuns, RunResolvedByLastLease, PTL

\* A worker takes a lease over only after it expired.
THEOREM WorkerTakeoverOnlyAfterExpiry == WorkerSpec => TakeoverOnlyAfterExpiry
BY WorkerImplementsRuns, RunTakeoverOnlyAfterExpiry, PTL

\* Each run is opened once, held by one worker at a time and resolved once.
THEOREM WorkerKeepsRunPromise == WorkerSpec => KeepsRunPromise
BY WorkerImplementsRuns, RunTablesKeepPromise, PTL
=============================================================================
