----------------------------- MODULE AgentWorker -----------------------------
(***************************************************************************)
(* The probing agent (agent/worker/worker.go under the loop of its main)   *)
(* against the run tables of the server.  A round sends a heartbeat,       *)
(* leases and executes runs until none is left or the queue is full, and   *)
(* uploads the whole queue as one batch until the server answers.          *)
(*                                                                         *)
(* The server ingests a batch one transaction at a time and gives up at    *)
(* the first command it rejects; the worker then puts every result of the  *)
(* batch back.  The credential file is read again for each request, and an *)
(* upload attempt that cannot read it gives its batch up.  Requests and    *)
(* answers can be lost, and the agent can crash with its queue.  Health is *)
(* not projected here: see ControlPlane.                                   *)
(***************************************************************************)
EXTENDS RunTable, Sequences

CONSTANTS
  QueueCap,        \* capacity of the results channel (100)
  MaxFaults        \* bound: lost messages, server errors, agent crashes and
                   \* credentials that could not be read

ASSUME WorkerAssumption == QueueCap \in Nat \ {0} /\ MaxFaults \in Nat

VARIABLES
  pc,        \* where the worker is
  job,       \* the leased run it executes, if any
  queue,     \* the results channel
  batch,     \* the results drained for the upload under way
  pos,       \* the command of the batch the server handles next
  faults, crashes,
  unread     \* batches given up because the credential could not be read

workVars == <<pc, job, queue, batch, pos, faults, crashes, unread>>
workerVars == <<now, runVars, workVars>>

Lease == [run : Run, attempt : Nat]
NoJob == <<>>
Finished == [run : Run, attempt : Nat, finished : Time]

WorkerTypeOK ==
  /\ RunTypeOK
  /\ pc \in [Agent -> {"idle", "leasing", "executing", "uploading"}]
  /\ job \in [Agent -> Lease \union {NoJob}]
  /\ queue \in [Agent -> Seq(Finished)]
  /\ batch \in [Agent -> Seq(Finished)]
  /\ pos \in [Agent -> Nat \ {0}]
  /\ faults \in 0 .. MaxFaults
  /\ crashes \in 0 .. faults
  /\ unread \in 0 .. faults
  /\ \A a \in Agent : /\ pc[a] = "executing" <=> job[a] # NoJob
                      /\ pc[a] = "uploading" <=> batch[a] # <<>>

WorkerInit ==
  /\ RunInit
  /\ pc = [a \in Agent |-> "idle"]
  /\ job = [a \in Agent |-> NoJob]
  /\ queue = [a \in Agent |-> <<>>]
  /\ batch = [a \in Agent |-> <<>>]
  /\ pos = [a \in Agent |-> 1]
  /\ faults = 0
  /\ crashes = 0
  /\ unread = 0

-----------------------------------------------------------------------------
Goto(a, place) == pc' = [pc EXCEPT ![a] = place]

\* The heartbeat was answered 204.
Heartbeat(a) ==
  /\ pc[a] = "idle"
  /\ Goto(a, "leasing")
  /\ UNCHANGED <<runVars, job, queue, batch, pos, faults, crashes, unread>>

\* Mutant: the queue is not looked at.
CanAlwaysLease(a) == pc[a] = "leasing"

CanLease(a) == pc[a] = "leasing" /\ Len(queue[a]) < QueueCap

\* Drain the channel into one batch; an empty queue ends the round.
BeginUpload(a) ==
  /\ batch' = [batch EXCEPT ![a] = queue[a]]
  /\ queue' = [queue EXCEPT ![a] = <<>>]
  /\ pos' = [pos EXCEPT ![a] = 1]
  /\ Goto(a, IF queue[a] = <<>> THEN "idle" ELSE "uploading")

QueueFull(a) ==
  /\ pc[a] = "leasing" /\ Len(queue[a]) >= QueueCap
  /\ BeginUpload(a)
  /\ UNCHANGED <<runVars, job, faults, crashes, unread>>

PollForWork(a) ==
  /\ CanLease(a)
  /\ ReadClaimTime(a)
  /\ UNCHANGED workVars

\* 204: no work is left.  While the queue is empty the server polls again for
\* up to 30 s before it answers.
NoWork(a) ==
  /\ CanLease(a)
  /\ ClaimNothing(a)
  /\ \/ queue[a] = <<>> /\ UNCHANGED <<pc, queue, batch, pos>>
     \/ BeginUpload(a)
  /\ UNCHANGED <<job, faults, crashes, unread>>

ReceiveWork(a) ==
  /\ CanLease(a)
  /\ \E r \in Run :
       /\ Claim(a, r)
       /\ job' = [job EXCEPT ![a] = [run |-> r, attempt |-> NextAttempt(r)]]
  /\ Goto(a, "executing")
  /\ UNCHANGED <<queue, batch, pos, faults, crashes, unread>>

\* The probe took any time since the lease.
FinishProbe(a) ==
  /\ pc[a] = "executing"
  /\ queue' = [queue EXCEPT ![a] =
       Append(@, [run |-> job[a].run, attempt |-> job[a].attempt,
                  finished |-> now])]
  /\ job' = [job EXCEPT ![a] = NoJob]
  /\ Goto(a, "leasing")
  /\ UNCHANGED <<runVars, batch, pos, faults, crashes, unread>>

-----------------------------------------------------------------------------
BatchReply(a) ==
  LET x == batch[a][pos[a]] IN Reply(a, x.run, x.attempt, x.finished)

InBatch(a) == pc[a] = "uploading" /\ pos[a] <= Len(batch[a])

IngestNext(a) ==
  /\ InBatch(a)
  /\ \/ /\ BatchReply(a) = "duplicate"
        /\ UNCHANGED runVars
     \/ LET x == batch[a][pos[a]] IN
        AcceptResult(a, x.run, x.attempt, x.finished)
  /\ pos' = [pos EXCEPT ![a] = @ + 1]
  /\ UNCHANGED <<pc, job, queue, batch, faults, crashes, unread>>

EndUpload(a) ==
  /\ batch' = [batch EXCEPT ![a] = <<>>]
  /\ pos' = [pos EXCEPT ![a] = 1]
  /\ Goto(a, "idle")

\* Mutants: a rejected batch is dropped; it is sent again.
BatchDropped(a) ==
  /\ InBatch(a) /\ BatchReply(a) = "rejected"
  /\ EndUpload(a)
  /\ UNCHANGED <<runVars, queue, job, faults, crashes, unread>>
BatchResent(a) ==
  /\ InBatch(a) /\ BatchReply(a) = "rejected"
  /\ pos' = [pos EXCEPT ![a] = 1]
  /\ UNCHANGED <<runVars, pc, queue, job, batch, faults, crashes, unread>>

\* A 4xx answer: the whole batch goes back into the channel.
BatchRejected(a) ==
  /\ InBatch(a) /\ BatchReply(a) = "rejected"
  /\ queue' = [queue EXCEPT ![a] = @ \o batch[a]]
  /\ EndUpload(a)
  /\ UNCHANGED <<runVars, job, faults, crashes, unread>>

BatchAcknowledged(a) ==
  /\ pc[a] = "uploading" /\ pos[a] > Len(batch[a])
  /\ EndUpload(a)
  /\ UNCHANGED <<runVars, job, queue, faults, crashes, unread>>

-----------------------------------------------------------------------------
Fault == faults < MaxFaults /\ faults' = faults + 1

\* A lease request fails, before or after the server claimed a run for it:
\* RunOnce returns the error and the main loop starts another round.  A
\* credential that cannot be read ends the round in the same way, before the
\* server is asked (and before a heartbeat, which changes nothing).
LeaseRequestFails(a) ==
  /\ Fault
  /\ CanLease(a)
  /\ \/ claimAt[a] = NoRead /\ UNCHANGED runVars
     \/ CancelClaim(a)
     \/ \E r \in Run : Claim(a, r)
  /\ Goto(a, "idle")
  /\ UNCHANGED <<job, queue, batch, pos, crashes, unread>>

\* The upload or its answer is lost, or the server fails with 5xx, after any
\* number of commands: the worker backs off and sends the same batch again.
UploadInterrupted(a) ==
  /\ Fault
  /\ pc[a] = "uploading"
  /\ pos' = [pos EXCEPT ![a] = 1]
  /\ UNCHANGED <<runVars, pc, job, queue, batch, crashes, unread>>

\* An attempt is refused before the server handles a command, as with the 401
\* of a request it could not authenticate: the batch goes back.
UploadRefused(a) ==
  /\ Fault
  /\ pc[a] = "uploading" /\ pos[a] = 1
  /\ queue' = [queue EXCEPT ![a] = @ \o batch[a]]
  /\ EndUpload(a)
  /\ UNCHANGED <<runVars, job, crashes, unread>>

\* At the start of an attempt the credential file cannot be read, or is empty:
\* the upload ends with the batch in no queue, and the worker keeps running.
CredentialUnread(a) ==
  /\ Fault
  /\ pc[a] = "uploading" /\ pos[a] = 1
  /\ unread' = unread + 1
  /\ EndUpload(a)
  /\ UNCHANGED <<runVars, job, queue, crashes>>

\* The queue is memory only; a lease request under way dies with the agent.
Crash(a) ==
  /\ Fault
  /\ crashes' = crashes + 1
  /\ Goto(a, "idle")
  /\ job' = [job EXCEPT ![a] = NoJob]
  /\ queue' = [queue EXCEPT ![a] = <<>>]
  /\ batch' = [batch EXCEPT ![a] = <<>>]
  /\ pos' = [pos EXCEPT ![a] = 1]
  /\ claimAt' = [claimAt EXCEPT ![a] = NoRead]
  /\ UNCHANGED <<runs, results, grants, unread>>

Work(a) ==
  \/ Heartbeat(a) \/ QueueFull(a) \/ PollForWork(a) \/ NoWork(a)
  \/ ReceiveWork(a) \/ FinishProbe(a) \/ IngestNext(a)
  \/ BatchRejected(a) \/ BatchAcknowledged(a)

Mishap(a) ==
  \/ LeaseRequestFails(a) \/ UploadInterrupted(a) \/ UploadRefused(a)
  \/ CredentialUnread(a) \/ Crash(a)

\* The scheduler's insert, as in RunTable.
Enqueued(r) ==
  /\ r.at <= now /\ runs[r].status = "absent"
  /\ InsertRun(r)
  /\ UNCHANGED <<results, claimAt, grants, workVars>>

WorkerNext ==
  \/ Tick /\ UNCHANGED <<runVars, workVars>>
  \/ UNCHANGED now /\ \E r \in Run : Enqueued(r)
  \/ UNCHANGED now /\ \E a \in Agent : Work(a) \/ Mishap(a)

\* The clock and the scheduler run, and every worker keeps taking its next
\* step; mishaps are finitely many.
WorkerFairness ==
  /\ WF_now(Tick /\ UNCHANGED <<runVars, workVars>>)
  /\ \A r \in Run : WF_workerVars(UNCHANGED now /\ Enqueued(r))
  /\ \A a \in Agent : WF_workerVars(UNCHANGED now /\ Work(a))

WorkerSpec == WorkerInit /\ [][WorkerNext]_workerVars /\ WorkerFairness
-----------------------------------------------------------------------------
(***************************************************************************)
(* Properties.                                                             *)
(***************************************************************************)
Entries(s) == {s[n] : n \in 1 .. Len(s)}
Held(a) == Entries(queue[a]) \union Entries(batch[a])

Discarded(a) == {x \in Held(a) \ Held(a)' : ~ResultExists(x.run)'}

\* A result leaves the agent's memory before the control plane holds one for
\* its run in two ways only: by a crash, and by a credential that cannot be
\* read at an upload attempt, which costs that batch and no queued result.  No
\* lost, failed or refused request and no batch that failed half-way drops one
\* (uploadUntilAcknowledged and requeue).
KeptUntilStored ==
  [][crashes' = crashes =>
       \A a \in Agent :
         Discarded(a) # {} =>
           /\ unread' = unread + 1
           /\ Discarded(a) \subseteq Entries(batch[a])]_workerVars

\* The design: "retain a bounded in-memory retry queue until the server
\* acknowledges each result. A process crash may discard that queue".  A
\* credential that cannot be read discards a batch without one.
OnlyCrashDiscards ==
  [][crashes' = crashes => \A a \in Agent : Discarded(a) = {}]_workerVars

\* The channel never holds more than its capacity: requeue puts a whole batch
\* back without a consumer, and would block the worker for ever.
QueueWithinCapacity ==
  \A a \in Agent : Len(queue[a]) + Len(batch[a]) <= QueueCap

\* An upload ends, acknowledged or rejected as a whole, however often its
\* answers are lost (uploadUntilAcknowledged retries without limit).
UploadEnds == \A a \in Agent : pc[a] = "uploading" ~> pc[a] # "uploading"

\* The design: the agent keeps a result until the server acknowledges it, and
\* an expired run is executed again until its first valid result resolves it.
EveryRunResolves ==
  \A r \in Run : runs[r].status = "available" ~> ResultExists(r)
=============================================================================
