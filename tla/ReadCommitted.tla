---------------------------- MODULE ReadCommitted ----------------------------
(***************************************************************************)
(* The projection of Projection under PostgreSQL, where transactions run   *)
(* concurrently at READ COMMITTED (internal/adapters/postgres/store.go     *)
(* begins them with the default options): every statement reads what is    *)
(* committed when it starts, and a write waits for the row.                *)
(*                                                                         *)
(* One monitor with the one location CreateMonitor gives it.  A session is *)
(* a connection that ingests one result of UploadBatch or marks the        *)
(* location stale.  The leases behind the results are in RunTable; here a  *)
(* result is acceptable until one is stored for its run.  Time is left     *)
(* out: any deadline may have passed.                                      *)
(***************************************************************************)
EXTENDS Health, FiniteSets

CONSTANTS
  Session,
  ProbeResult,       \* one per run; the number stands for its deadline too
  Thresholds         \* [failures |-> .., recoveries |-> ..]

Nobody == "nobody"

ASSUME ReadCommittedAssumption ==
  /\ Nobody \notin Session
  /\ ProbeResult \subseteq Nat \ {0}
  /\ Thresholds \in [failures : Counter \ {0}, recoveries : Counter \ {0}]

VARIABLES
  passing,           \* the results whose probe passed
  stored,            \* probe_results, committed
  location,          \* location_health, committed
  monitor,           \* monitor_health.state, committed
  incident,          \* the active incident, committed
  rowLock,           \* the session that has written the location_health row
  tx                 \* per session: its statement and what it read or wrote

vars == <<passing, stored, location, monitor, incident, rowLock, tx>>
committed == <<passing, stored, location, monitor, incident>>

NoUpload == 0
Idle == [pc |-> "idle", upload |-> NoUpload, seen |-> PendingLocation,
         draft |-> PendingLocation, active |-> NoIncident]
Tx == [pc : {"idle", "checked", "inserted", "read", "listed", "wrote", "decided"},
       upload : ProbeResult \union {NoUpload},  \* none: a staleness sweep
       seen : LocationHealth,                   \* the row it has read
       draft : LocationHealth,                  \* the row it has written
       active : Incident]                       \* GetActive

ReadCommittedTypeOK ==
  /\ passing \subseteq ProbeResult
  /\ stored \subseteq ProbeResult
  /\ location \in LocationHealth
  /\ monitor \in MonitorState
  /\ incident \in Incident
  /\ rowLock \in Session \union {Nobody}
  /\ tx \in [Session -> Tx]
  /\ \A t \in Session : rowLock = t <=> tx[t].pc \in {"wrote", "decided"}

Init ==
  /\ passing \in SUBSET ProbeResult
  /\ stored = {}
  /\ location = PendingLocation
  /\ monitor = "pending"
  /\ incident = NoIncident
  /\ rowLock = Nobody
  /\ tx = [t \in Session |-> Idle]

-----------------------------------------------------------------------------
At(t, pc) == tx[t].pc = pc

\* Mutant: the transaction is left open.
EndWithoutRelease(t) == tx' = [tx EXCEPT ![t] = Idle] /\ UNCHANGED rowLock

\* The end of a transaction, by COMMIT or by rollback, releases its locks.
End(t) ==
  /\ tx' = [tx EXCEPT ![t] = Idle]
  /\ rowLock' = IF rowLock = t THEN Nobody ELSE rowLock

\* BEGIN and resultExists; a stored result is acknowledged as a duplicate.
CheckResult(t, x) ==
  /\ At(t, "idle") /\ x \notin stored
  /\ tx' = [tx EXCEPT ![t].pc = "checked", ![t].upload = x]
  /\ UNCHANGED <<committed, rowLock>>

Inserting(x) == {u \in Session : tx[u].upload = x /\ ~At(u, "checked")}

\* Mutant: run_id is not unique.
InsertAnyResult(t) ==
  /\ At(t, "checked")
  /\ tx' = [tx EXCEPT ![t].pc = "inserted"]
  /\ UNCHANGED <<committed, rowLock>>

\* ON CONFLICT DO NOTHING waits for an uncommitted row of the same run; one
\* that was committed meanwhile is ErrConflict.
InsertResult(t) ==
  /\ At(t, "checked")
  /\ Inserting(tx[t].upload) = {}
  /\ IF tx[t].upload \in stored
     THEN End(t)
     ELSE tx' = [tx EXCEPT ![t].pc = "inserted"] /\ UNCHANGED rowLock
  /\ UNCHANGED committed

\* GetLocation is a plain SELECT.
ReadLocation(t) ==
  /\ At(t, "inserted")
  /\ tx' = [tx EXCEPT ![t].pc = "read", ![t].seen = location]
  /\ UNCHANGED <<committed, rowLock>>

Write(t, row) ==
  /\ rowLock' = t
  /\ tx' = [tx EXCEPT ![t].pc = "wrote", ![t].draft = row]

Observed(t) ==
  [ApplyProbe(tx[t].seen, tx[t].upload \in passing, Thresholds)
     EXCEPT !.staleAt = tx[t].upload]

\* Mutant: nothing orders two writers of the row.
WriteLocationAtOnce(t) ==
  At(t, "read") /\ Write(t, Observed(t)) /\ UNCHANGED committed

\* The upsert waits for the row and then writes what was computed from the
\* earlier read.
WriteLocation(t) ==
  /\ At(t, "read")
  /\ rowLock = Nobody
  /\ Write(t, Observed(t))
  /\ UNCHANGED committed

\* ListStale, outside of the transaction.
ListStale(t) ==
  /\ At(t, "idle") /\ location.staleAt # NoDeadline
  /\ tx' = [tx EXCEPT ![t].pc = "listed", ![t].seen = location]
  /\ UNCHANGED <<committed, rowLock>>

\* Mutant: the listed deadline is not compared.
ClaimStaleUnchecked(t) ==
  /\ At(t, "listed") /\ rowLock = Nobody
  /\ Write(t, StaleLocation)
  /\ UNCHANGED committed

\* The UPDATE waits for the row and then checks its WHERE on the new version.
ClaimStale(t) ==
  /\ At(t, "listed")
  /\ rowLock = Nobody
  /\ IF location.staleAt = tx[t].seen.staleAt
     THEN Write(t, StaleLocation)
     ELSE End(t)
  /\ UNCHANGED committed

-----------------------------------------------------------------------------
\* projectAggregateAndIncident up to GetActive: the rollup reads the session's
\* own row, the incident is the committed one.
Decide(t) ==
  /\ At(t, "wrote")
  /\ tx' = [tx EXCEPT ![t].pc = "decided", ![t].active = incident]
  /\ UNCHANGED <<committed, rowLock>>

\* An incident that is no longer the active one it read is ErrConflict: the
\* unique index of active incidents on Open, WHERE recovered_at IS NULL on
\* Update.
Commit(t) ==
  /\ At(t, "decided")
  /\ LET aggregate == RollupRequired({tx[t].draft.state})
         quiet == /\ tx[t].active = NoIncident /\ aggregate = "unknown"
                  /\ tx[t].upload # NoUpload
         after == IF quiet THEN NoIncident
                  ELSE IncidentAfter(tx[t].active, aggregate)
     IN IF after # tx[t].active /\ incident # tx[t].active
        THEN UNCHANGED committed
        ELSE /\ stored' = stored \union ({tx[t].upload} \ {NoUpload})
             /\ location' = tx[t].draft
             /\ monitor' = aggregate
             /\ incident' = IF after # tx[t].active THEN after ELSE incident
             /\ UNCHANGED passing
  /\ End(t)

\* A failed statement, a lost connection or a crash of the server.
Abort(t) == ~At(t, "idle") /\ End(t) /\ UNCHANGED committed

Statement(t) ==
  \/ InsertResult(t) \/ ReadLocation(t) \/ WriteLocation(t)
  \/ ClaimStale(t) \/ Decide(t) \/ Commit(t)

Next == \E t \in Session :
  \/ Statement(t) \/ Abort(t) \/ ListStale(t)
  \/ \E x \in ProbeResult : CheckResult(t, x)

\* The database serves every session; it grants a row to those that wait for
\* it in turn.
Fairness == \A t \in Session : SF_vars(Statement(t))

Spec == Init /\ [][Next]_vars /\ Fairness
-----------------------------------------------------------------------------
(***************************************************************************)
(* Properties.                                                             *)
(***************************************************************************)
\* What is committed is consistent, however the statements interleave: the
\* monitor shows the state of its location and the active incident that of the
\* monitor (the row lock of the one location orders the projections).
CommittedTogether ==
  IF location = PendingLocation
  THEN monitor = "pending" /\ incident = NoIncident
  ELSE /\ monitor = RollupRequired({location.state})
       /\ IF incident = NoIncident THEN monitor \in {"up", "unknown"}
          ELSE incident = IncidentAt(monitor)

\* The incident a transaction has read stays the active one until it ends, so
\* the only ErrConflict of an upload is that of a twin of the same run.
NoIncidentConflict == \A t \in Session : At(t, "decided") => tx[t].active = incident

\* A result uploaded by two requests at once is counted by one of them.
NoDoubleCount ==
  location.failures + location.successes <= Cardinality(stored)

\* A sweep never wipes out a row that was refreshed after it was listed: the
\* row it replaces still has the deadline of the list.
SweepReplacesListedRow ==
  [][\A t \in Session :
       At(t, "decided") /\ tx[t].upload = NoUpload /\ location' # location
         => location.staleAt = tx[t].seen.staleAt]_vars

\* No transaction waits for ever for another: the waits for a result row and
\* for the location row are taken in one order.
SessionEnds == \A t \in Session : ~At(t, "idle") ~> At(t, "idle")

\* What the design says of thresholds: so many failures in a row, and the
\* location is down (or was marked unknown in between).
EveryResultCounts ==
  stored \intersect passing = {} /\ Cardinality(stored) >= Thresholds.failures
    => location.state \in {"down", "unknown"}
=============================================================================
