------------------------ MODULE ReadCommittedProofs ------------------------
(***************************************************************************)
(* Proofs about the projection on PostgreSQL, for any number of sessions,  *)
(* results and any thresholds: what the row lock of the one location and   *)
(* the unique key of a result are enough for.                              *)
(***************************************************************************)
EXTENDS ReadCommitted, Lemmas, FiniteSetTheorems

Streaks(row) == row.failures + row.successes

\* A session that has inserted its result, or written the location.
Inserted(t) == tx[t].pc \in {"inserted", "read", "wrote", "decided"} /\ tx[t].upload # NoUpload
Wrote(t) == tx[t].pc \in {"wrote", "decided"}

\* A session has the kind of work that its statement belongs to.
WorkFits(t) ==
  /\ tx[t].pc \in {"checked", "inserted", "read"} => tx[t].upload \in ProbeResult
  /\ tx[t].pc \in {"idle", "listed"} => tx[t].upload = NoUpload

\* What it wrote is an observation of its result, or replaces the row it listed.
DraftFits(t) ==
  Wrote(t) => IF tx[t].upload = NoUpload
              THEN tx[t].draft = StaleLocation /\ location.staleAt = tx[t].seen.staleAt
              ELSE tx[t].draft.staleAt = tx[t].upload

\* It read the streaks of stored results, and adds one that is not stored.
CountFits(t) ==
  /\ Inserted(t) => tx[t].upload \notin stored
  /\ tx[t].pc = "read" => Streaks(tx[t].seen) <= Cardinality(stored)
  /\ Wrote(t) => Streaks(tx[t].draft)
                   <= (IF tx[t].upload = NoUpload THEN Cardinality(stored) ELSE Cardinality(stored) + 1)

IncidentRead(t) == At(t, "decided") => tx[t].active = incident

SessionHolds(t) == WorkFits(t) /\ DraftFits(t) /\ CountFits(t) /\ IncidentRead(t)

\* The unique key of probe_results: one session inserts a result.
OneInserts ==
  \A t, u \in Session : Inserted(t) /\ Inserted(u) /\ tx[t].upload = tx[u].upload => t = u

ReadCommittedInv ==
  /\ ReadCommittedTypeOK
  /\ IsFiniteSet(stored)
  /\ CommittedTogether
  /\ NoDoubleCount
  /\ OneInserts
  /\ \A t \in Session : SessionHolds(t)

-----------------------------------------------------------------------------
\* A session is in no upload, or in that of one of the results.
LEMMA SessionTypes ==
  ASSUME ReadCommittedInv, NEW t \in Session
  PROVE  /\ tx[t] \in Tx
         /\ tx[t].upload # NoUpload => tx[t].upload \in ProbeResult /\ tx[t].upload \in Nat \ {0}
BY ReadCommittedAssumption DEF ReadCommittedInv, ReadCommittedTypeOK, Tx, NoUpload

LEMMA StoredCount == ASSUME ReadCommittedInv PROVE Cardinality(stored) \in Nat
BY FS_CardinalityType DEF ReadCommittedInv

LEMMA NobodyIsNoSession == ASSUME NEW t \in Session PROVE t # Nobody
BY ReadCommittedAssumption

\* What must be shown of a step of session t that commits nothing.
LEMMA OneSessionMoves ==
  ASSUME ReadCommittedInv, NEW t \in Session, NEW r \in Tx,
         UNCHANGED committed, tx' = [tx EXCEPT ![t] = r],
         \/ rowLock' = rowLock /\ (r.pc \in {"wrote", "decided"} <=> Wrote(t))
         \/ rowLock = Nobody /\ rowLock' = t /\ r.pc = "wrote"
         \/ rowLock' = (IF rowLock = t THEN Nobody ELSE rowLock) /\ r.pc = "idle",
         SessionHolds(t)',
         Inserted(t)' => \A u \in Session \ {t} : ~ (Inserted(u) /\ tx[u].upload = r.upload)
  PROVE  ReadCommittedInv'
<1>1. tx \in [Session -> Tx] /\ tx'[t] = r /\ \A u \in Session \ {t} : tx'[u] = tx[u]
  BY DEF ReadCommittedInv, ReadCommittedTypeOK
<1>2. UNCHANGED <<passing, stored, location, monitor, incident>>
  BY DEF committed
<1>3. ReadCommittedTypeOK'
  <2>1. rowLock' \in Session \union {Nobody} /\ tx' \in [Session -> Tx]
    BY <1>1 DEF ReadCommittedInv, ReadCommittedTypeOK
  <2>2. \A u \in Session : rowLock' = u <=> tx'[u].pc \in {"wrote", "decided"}
    BY <1>1, NobodyIsNoSession DEF ReadCommittedInv, ReadCommittedTypeOK, Wrote
  <2>3. QED
    BY <1>2, <2>1, <2>2 DEF ReadCommittedInv, ReadCommittedTypeOK
<1>4. \A u \in Session \ {t} : SessionHolds(u)'
  BY <1>1, <1>2
     DEF ReadCommittedInv, SessionHolds, WorkFits, DraftFits, CountFits, IncidentRead, Inserted, Wrote, At
<1>5. OneInserts'
  BY <1>1 DEF ReadCommittedInv, OneInserts, Inserted
<1>6. IsFiniteSet(stored)' /\ CommittedTogether' /\ NoDoubleCount'
  BY <1>2 DEF ReadCommittedInv, CommittedTogether, NoDoubleCount
<1>7. QED
  BY <1>3, <1>4, <1>5, <1>6 DEF ReadCommittedInv

\* An idle session has nothing to keep.
LEMMA IdleHolds ==
  ASSUME ReadCommittedInv, NEW t \in Session, tx' = [tx EXCEPT ![t] = Idle]
  PROVE  SessionHolds(t)' /\ ~ Inserted(t)' /\ Idle \in Tx
<1>1. tx'[t] = Idle
  BY DEF ReadCommittedInv, ReadCommittedTypeOK
<1>2. PendingLocation \in LocationHealth
  BY CounterAssumption DEF PendingLocation, LocationHealth, LocationState, Counter, NoDeadline
<1>3. Idle \in Tx
  BY <1>2 DEF Idle, Tx, Incident
<1>4. QED
  BY <1>1, <1>3 DEF Idle, SessionHolds, WorkFits, DraftFits, CountFits, IncidentRead, Inserted, Wrote, At

\* The end of a transaction that commits nothing.
LEMMA EndKeeps ==
  ASSUME ReadCommittedInv, NEW t \in Session, End(t), UNCHANGED committed
  PROVE  ReadCommittedInv'
BY IdleHolds, OneSessionMoves DEF End, Idle

\* The statements before the row is written.
LEMMA CheckKeeps ==
  ASSUME ReadCommittedInv, NEW t \in Session, NEW x \in ProbeResult, CheckResult(t, x)
  PROVE  ReadCommittedInv'
<1> DEFINE r == [tx[t] EXCEPT !.pc = "checked", !.upload = x]
<1>1. r \in Tx /\ r.pc = "checked" /\ r.upload = x /\ ~ Wrote(t)
  BY SessionTypes DEF CheckResult, At, Tx, Wrote
<1>2. tx' = [tx EXCEPT ![t] = r] /\ tx'[t] = r /\ UNCHANGED <<committed, rowLock>>
  BY DEF CheckResult, ReadCommittedInv, ReadCommittedTypeOK
<1> HIDE DEF r
<1>3. SessionHolds(t)' /\ ~ Inserted(t)'
  BY <1>1, <1>2 DEF SessionHolds, WorkFits, DraftFits, CountFits, IncidentRead, Inserted, Wrote, At
<1>4. QED
  BY <1>1, <1>2, <1>3, OneSessionMoves

LEMMA InsertKeeps ==
  ASSUME ReadCommittedInv, NEW t \in Session, InsertResult(t)
  PROVE  ReadCommittedInv'
<1>1. CASE tx[t].upload \in stored
  BY <1>1, EndKeeps DEF InsertResult
<1>2. CASE tx[t].upload \notin stored
  <2> DEFINE r == [tx[t] EXCEPT !.pc = "inserted"]
  <2>1. r \in Tx /\ r.pc = "inserted" /\ r.upload = tx[t].upload /\ ~ Wrote(t) /\ r.upload \in ProbeResult
    BY SessionTypes DEF InsertResult, At, Tx, Wrote, ReadCommittedInv, SessionHolds, WorkFits
  <2>2. tx' = [tx EXCEPT ![t] = r] /\ tx'[t] = r /\ UNCHANGED <<committed, rowLock>>
    BY <1>2 DEF InsertResult, ReadCommittedInv, ReadCommittedTypeOK
  <2>3. \A u \in Session \ {t} : ~ (Inserted(u) /\ tx[u].upload = r.upload)
    BY <2>1 DEF InsertResult, Inserting, Inserted, At
  <2> HIDE DEF r
  <2>4. stored' = stored
    BY <2>2 DEF committed
  <2>5. SessionHolds(t)'
    BY <1>2, <2>1, <2>2, <2>4 DEF SessionHolds, WorkFits, DraftFits, CountFits, IncidentRead, Inserted, Wrote, At
  <2>6. QED
    BY <2>1, <2>2, <2>3, <2>5, OneSessionMoves
<1>3. QED
  BY <1>1, <1>2

LEMMA ReadKeeps ==
  ASSUME ReadCommittedInv, NEW t \in Session, ReadLocation(t)
  PROVE  ReadCommittedInv'
<1> DEFINE r == [tx[t] EXCEPT !.pc = "read", !.seen = location]
<1>1. r \in Tx /\ r.pc = "read" /\ r.seen = location /\ r.upload = tx[t].upload /\ ~ Wrote(t)
  BY SessionTypes DEF ReadLocation, At, Tx, Wrote, ReadCommittedInv, ReadCommittedTypeOK
<1>2. tx' = [tx EXCEPT ![t] = r] /\ tx'[t] = r /\ UNCHANGED <<committed, rowLock>>
  BY DEF ReadLocation, ReadCommittedInv, ReadCommittedTypeOK
<1>3. r.upload \in ProbeResult /\ r.upload # NoUpload /\ Inserted(t)
  BY <1>1, ReadCommittedAssumption DEF ReadLocation, At, ReadCommittedInv, SessionHolds, WorkFits, Inserted, NoUpload
<1> HIDE DEF r
<1>4. stored' = stored /\ r.upload \notin stored /\ Streaks(location) <= Cardinality(stored)
  BY <1>1, <1>2, <1>3 DEF committed, ReadCommittedInv, SessionHolds, CountFits, NoDoubleCount, Streaks
<1>5. SessionHolds(t)'
  BY <1>1, <1>2, <1>3, <1>4 DEF SessionHolds, WorkFits, DraftFits, CountFits, IncidentRead, Inserted, Wrote, At
<1>6. \A u \in Session \ {t} : ~ (Inserted(u) /\ tx[u].upload = r.upload)
  BY <1>1, <1>3 DEF ReadCommittedInv, OneInserts
<1>7. QED
  BY <1>1, <1>2, <1>5, <1>6, OneSessionMoves

LEMMA ListKeeps ==
  ASSUME ReadCommittedInv, NEW t \in Session, ListStale(t)
  PROVE  ReadCommittedInv'
<1> DEFINE r == [tx[t] EXCEPT !.pc = "listed", !.seen = location]
<1>1. r \in Tx /\ r.pc = "listed" /\ r.upload = NoUpload /\ ~ Wrote(t)
  BY SessionTypes DEF ListStale, At, Tx, Wrote, ReadCommittedInv, ReadCommittedTypeOK, SessionHolds, WorkFits
<1>2. tx' = [tx EXCEPT ![t] = r] /\ tx'[t] = r /\ UNCHANGED <<committed, rowLock>>
  BY DEF ListStale, ReadCommittedInv, ReadCommittedTypeOK
<1> HIDE DEF r
<1>3. SessionHolds(t)' /\ ~ Inserted(t)'
  BY <1>1, <1>2 DEF SessionHolds, WorkFits, DraftFits, CountFits, IncidentRead, Inserted, Wrote, At
<1>4. QED
  BY <1>1, <1>2, <1>3, OneSessionMoves

-----------------------------------------------------------------------------
\* What an ingestion writes: a row of its result, with one more in the streaks.
LEMMA ObservedFits ==
  ASSUME ReadCommittedInv, NEW t \in Session, At(t, "read")
  PROVE  /\ Observed(t) \in LocationHealth
         /\ Observed(t).staleAt = tx[t].upload
         /\ Streaks(Observed(t)) <= Cardinality(stored) + 1
<1> DEFINE row == ApplyProbe(tx[t].seen, tx[t].upload \in passing, Thresholds)
<1>1. tx[t].seen \in LocationHealth /\ tx[t].upload \in Nat
  BY SessionTypes, ReadCommittedAssumption DEF At, Tx, ReadCommittedInv, SessionHolds, WorkFits
<1>2. row \in LocationHealth /\ Streaks(row) <= Streaks(tx[t].seen) + 1
  <2>1. (tx[t].upload \in passing) \in BOOLEAN
    OBVIOUS
  <2>2. QED
    BY <1>1, <2>1, ApplyProbeType, ApplyProbeCounts DEF Streaks
<1>3. Streaks(tx[t].seen) <= Cardinality(stored)
  BY DEF At, ReadCommittedInv, SessionHolds, CountFits
<1> DEFINE n == Streaks(row)
<1> DEFINE m == Streaks(tx[t].seen)
<1>4. n \in Int /\ m \in Int
  BY <1>1, <1>2, CounterAssumption DEF LocationHealth, Counter, Streaks
<1> HIDE DEF row
<1>5. /\ Observed(t) \in LocationHealth
      /\ Observed(t).staleAt = tx[t].upload
      /\ Streaks(Observed(t)) = n
  BY <1>1, <1>2 DEF Observed, row, LocationHealth, Streaks
<1>6. n <= m + 1 /\ m <= Cardinality(stored)
  BY <1>2, <1>3
<1> HIDE DEF n, m
<1>7. n <= Cardinality(stored) + 1
  BY <1>4, <1>6, StoredCount
<1>8. QED
  BY <1>5, <1>7

LEMMA WriteKeeps ==
  ASSUME ReadCommittedInv, NEW t \in Session, WriteLocation(t)
  PROVE  ReadCommittedInv'
<1> DEFINE r == [tx[t] EXCEPT !.pc = "wrote", !.draft = Observed(t)]
<1>1. /\ r \in Tx /\ r.pc = "wrote" /\ r.upload = tx[t].upload
      /\ r.draft = Observed(t)
  BY SessionTypes, ObservedFits DEF WriteLocation, Tx
<1>2. tx' = [tx EXCEPT ![t] = r] /\ tx'[t] = r /\ UNCHANGED committed /\ rowLock = Nobody /\ rowLock' = t
  BY DEF WriteLocation, Write, ReadCommittedInv, ReadCommittedTypeOK
<1>3. r.upload \in ProbeResult /\ r.upload # NoUpload /\ Inserted(t)
  BY <1>1, ReadCommittedAssumption DEF WriteLocation, At, ReadCommittedInv, SessionHolds, WorkFits, Inserted, NoUpload
<1> HIDE DEF r
<1>4. stored' = stored /\ r.upload \notin stored
  BY <1>1, <1>2, <1>3 DEF committed, ReadCommittedInv, SessionHolds, CountFits
<1>5. r.draft.staleAt = r.upload /\ Streaks(r.draft) <= Cardinality(stored) + 1
  BY <1>1, ObservedFits DEF WriteLocation
<1>6. SessionHolds(t)'
  BY <1>1, <1>2, <1>3, <1>4, <1>5 DEF SessionHolds, WorkFits, DraftFits, CountFits, IncidentRead, Inserted, Wrote, At
<1>7. \A u \in Session \ {t} : ~ (Inserted(u) /\ tx[u].upload = r.upload)
  BY <1>1, <1>3 DEF ReadCommittedInv, OneInserts
<1>8. QED
  BY <1>1, <1>2, <1>6, <1>7, OneSessionMoves

LEMMA ClaimKeeps ==
  ASSUME ReadCommittedInv, NEW t \in Session, ClaimStale(t)
  PROVE  ReadCommittedInv'
<1>1. CASE location.staleAt # tx[t].seen.staleAt
  BY <1>1, EndKeeps DEF ClaimStale
<1>2. CASE location.staleAt = tx[t].seen.staleAt
  <2> DEFINE r == [tx[t] EXCEPT !.pc = "wrote", !.draft = StaleLocation]
  <2>1. /\ r \in Tx /\ r.pc = "wrote" /\ r.upload = NoUpload
        /\ r.draft = StaleLocation /\ r.seen = tx[t].seen
    BY SessionTypes, StaleLocationType DEF ClaimStale, At, Tx, ReadCommittedInv, SessionHolds, WorkFits
  <2>2. tx' = [tx EXCEPT ![t] = r] /\ tx'[t] = r /\ UNCHANGED committed /\ rowLock = Nobody /\ rowLock' = t
    BY <1>2 DEF ClaimStale, Write, ReadCommittedInv, ReadCommittedTypeOK
  <2> HIDE DEF r
  <2>3. stored' = stored /\ location' = location
    BY <2>2 DEF committed
  <2>4. Streaks(r.draft) <= Cardinality(stored)
    BY <2>1, StoredCount DEF StaleLocation, Streaks
  <2>5. SessionHolds(t)' /\ ~ Inserted(t)'
    BY <1>2, <2>1, <2>2, <2>3, <2>4 DEF SessionHolds, WorkFits, DraftFits, CountFits, IncidentRead, Inserted, Wrote, At
  <2>6. QED
    BY <2>1, <2>2, <2>5, OneSessionMoves
<1>3. QED
  BY <1>1, <1>2

LEMMA DecideKeeps ==
  ASSUME ReadCommittedInv, NEW t \in Session, Decide(t)
  PROVE  ReadCommittedInv'
<1> DEFINE r == [tx[t] EXCEPT !.pc = "decided", !.active = incident]
<1>1. /\ r \in Tx /\ r.pc = "decided" /\ r.active = incident /\ r.upload = tx[t].upload
      /\ r.draft = tx[t].draft /\ r.seen = tx[t].seen /\ Wrote(t)
  BY SessionTypes DEF Decide, At, Tx, Wrote, ReadCommittedInv, ReadCommittedTypeOK
<1>2. tx' = [tx EXCEPT ![t] = r] /\ tx'[t] = r /\ UNCHANGED <<committed, rowLock>>
  BY DEF Decide, ReadCommittedInv, ReadCommittedTypeOK
<1> HIDE DEF r
<1>3. UNCHANGED <<stored, location, incident>>
  BY <1>2 DEF committed
<1>4. Inserted(t)' = Inserted(t)
  BY <1>1, <1>2 DEF Decide, At, Inserted
<1>5. DraftFits(t) /\ CountFits(t)
  BY DEF ReadCommittedInv, SessionHolds
<1>6. SessionHolds(t)'
  BY <1>1, <1>2, <1>3, <1>4, <1>5 DEF SessionHolds, WorkFits, DraftFits, CountFits, IncidentRead, Wrote, At
<1>7. Inserted(t)' => \A u \in Session \ {t} : ~ (Inserted(u) /\ tx[u].upload = r.upload)
  BY <1>1, <1>4 DEF ReadCommittedInv, OneInserts
<1>8. QED
  BY <1>1, <1>2, <1>6, <1>7, OneSessionMoves

-----------------------------------------------------------------------------
\* The one location of the monitor decides its state: never pending.
LEMMA RollupOfOne ==
  ASSUME NEW state \in LocationState
  PROVE  RollupRequired({state}) \in {"up", "down", "unknown"}
BY DEF RollupRequired, LocationState

\* Who holds the row is alone in having written it, and what it wrote is not
\* the row of a new monitor.
LEMMA HolderHolds ==
  ASSUME ReadCommittedInv, NEW t \in Session, Wrote(t)
  PROVE  /\ rowLock = t
         /\ \A u \in Session \ {t} : ~ Wrote(u)
         /\ tx[t].draft # PendingLocation
<1>1. rowLock = t /\ \A u \in Session \ {t} : ~ Wrote(u)
  BY DEF ReadCommittedInv, ReadCommittedTypeOK, Wrote
<1>2. DraftFits(t)
  BY DEF ReadCommittedInv, SessionHolds
<1>3. CASE tx[t].upload = NoUpload
  BY <1>1, <1>2, <1>3 DEF DraftFits, StaleLocation, PendingLocation
<1>4. CASE tx[t].upload # NoUpload
  <2>1. tx[t].draft.staleAt \in Nat
    BY <1>2, <1>4, SessionTypes DEF DraftFits
  <2>2. PendingLocation.staleAt \notin Nat
    BY DEF PendingLocation, NoDeadline
  <2>3. QED
    BY <1>1, <2>1, <2>2
<1>5. QED
  BY <1>3, <1>4

\* The incident that was read is still the active one, so Commit never meets
\* ErrConflict and leaves the monitor and its incident with its location.
LEMMA CommitWrites ==
  ASSUME ReadCommittedInv, NEW t \in Session, Commit(t)
  PROVE  /\ stored' = stored \union ({tx[t].upload} \ {NoUpload})
         /\ location' = tx[t].draft /\ passing' = passing
         /\ monitor' = RollupRequired({tx[t].draft.state})
         /\ incident' \in Incident
         /\ IF incident' = NoIncident THEN monitor' \in {"up", "unknown"}
            ELSE incident' = IncidentAt(monitor')
<1> DEFINE aggregate == RollupRequired({tx[t].draft.state})
<1> DEFINE quiet == /\ tx[t].active = NoIncident /\ aggregate = "unknown"
                    /\ tx[t].upload # NoUpload
<1> DEFINE after == IF quiet THEN NoIncident ELSE IncidentAfter(tx[t].active, aggregate)
<1>1. tx[t].active = incident /\ incident \in Incident
  BY DEF Commit, ReadCommittedInv, ReadCommittedTypeOK, SessionHolds, IncidentRead
<1>2. aggregate \in {"up", "down", "unknown"}
  <2>1. tx[t].draft.state \in LocationState
    BY SessionTypes DEF Tx, LocationHealth
  <2>2. QED
    BY <2>1, RollupOfOne
<1>3. /\ stored' = stored \union ({tx[t].upload} \ {NoUpload})
      /\ location' = tx[t].draft /\ passing' = passing
      /\ monitor' = aggregate
      /\ incident' = IF after # tx[t].active THEN after ELSE incident
  BY <1>1 DEF Commit
<1>4. incident' = after
  BY <1>1, <1>3
<1>5. CASE quiet
  BY <1>3, <1>4, <1>5 DEF Incident
<1>6. CASE ~quiet
  <2>1. after = IF aggregate = "up" THEN NoIncident ELSE IncidentAt(aggregate)
    BY <1>1, <1>2, <1>6, IncidentFollows DEF Unhealthy
  <2>2. aggregate # "up" => IncidentAt(aggregate) # NoIncident /\ IncidentAt(aggregate) \in Incident
    BY <1>2, IncidentIsNotNoIncident DEF Unhealthy
  <2> HIDE DEF after, quiet, aggregate
  <2>3. incident' \in Incident
    BY <1>4, <2>1, <2>2 DEF Incident
  <2>4. IF incident' = NoIncident THEN monitor' \in {"up", "unknown"}
        ELSE incident' = IncidentAt(monitor')
    BY <1>3, <1>4, <2>1, <2>2
  <2>5. QED
    BY <1>3, <2>3, <2>4 DEF aggregate
<1>7. QED
  BY <1>5, <1>6

\* The stored results grow by the one that was inserted, which none had stored.
LEMMA CommitStores ==
  ASSUME ReadCommittedInv, NEW t \in Session, Commit(t)
  PROVE  /\ IsFiniteSet(stored') /\ stored' \subseteq ProbeResult
         /\ Cardinality(stored) <= Cardinality(stored')
         /\ Streaks(tx[t].draft) <= Cardinality(stored')
<1> DEFINE n == Streaks(tx[t].draft)
<1>1. stored' = stored \union ({tx[t].upload} \ {NoUpload}) /\ Wrote(t)
  BY CommitWrites DEF Commit, At, Wrote
<1>2. IsFiniteSet(stored) /\ stored \subseteq ProbeResult /\ Cardinality(stored) \in Nat
  BY StoredCount DEF ReadCommittedInv, ReadCommittedTypeOK
<1>3. CASE tx[t].upload = NoUpload
  <2>1. stored' = stored
    BY <1>1, <1>3
  <2>2. n <= Cardinality(stored)
    BY <1>1, <1>3 DEF ReadCommittedInv, SessionHolds, CountFits
  <2> HIDE DEF n
  <2>3. n <= Cardinality(stored') /\ Cardinality(stored) <= Cardinality(stored')
    BY <1>2, <2>1, <2>2
  <2>4. QED
    BY <1>2, <2>1, <2>3 DEF n
<1>4. CASE tx[t].upload # NoUpload
  <2>1. stored' = stored \union {tx[t].upload} /\ tx[t].upload \in ProbeResult
    BY <1>1, <1>4, SessionTypes
  <2>2. tx[t].upload \notin stored /\ n <= Cardinality(stored) + 1
    BY <1>1, <1>4 DEF ReadCommittedInv, SessionHolds, CountFits, Inserted, Wrote
  <2>3. IsFiniteSet(stored') /\ Cardinality(stored') = Cardinality(stored) + 1
    BY <1>2, <2>1, <2>2, FS_AddElement
  <2> HIDE DEF n
  <2>4. n <= Cardinality(stored') /\ Cardinality(stored) <= Cardinality(stored')
    BY <1>2, <2>2, <2>3
  <2>5. QED
    BY <1>2, <2>1, <2>3, <2>4 DEF n
<1>5. QED
  BY <1>3, <1>4

LEMMA CommitKeeps ==
  ASSUME ReadCommittedInv, NEW t \in Session, Commit(t)
  PROVE  ReadCommittedInv'
<1>1. Wrote(t) /\ End(t)
  BY DEF Commit, At, Wrote
<1>2. /\ tx'[t] = Idle /\ \A u \in Session \ {t} : tx'[u] = tx[u]
      /\ tx' \in [Session -> Tx] /\ SessionHolds(t)' /\ ~ Inserted(t)'
  BY <1>1, IdleHolds DEF End, ReadCommittedInv, ReadCommittedTypeOK
<1>3. rowLock = t /\ rowLock' = Nobody /\ \A u \in Session \ {t} : ~ Wrote(u)
  BY <1>1, HolderHolds DEF End
<1>4. location' = tx[t].draft /\ location' \in LocationHealth /\ location' # PendingLocation
  BY <1>1, CommitWrites, HolderHolds, SessionTypes DEF Tx
<1>5. ReadCommittedTypeOK'
  <2>1. monitor' \in MonitorState
    BY CommitWrites, RollupOfOne, SessionTypes DEF Tx, LocationHealth, MonitorState, LocationState
  <2>2. \A u \in Session : rowLock' = u <=> tx'[u].pc \in {"wrote", "decided"}
    BY <1>2, <1>3, NobodyIsNoSession DEF Wrote, Idle
  <2>3. passing' \subseteq ProbeResult /\ incident' \in Incident
    BY CommitWrites DEF ReadCommittedInv, ReadCommittedTypeOK
  <2>4. QED
    BY <1>2, <1>3, <1>4, <2>1, <2>2, <2>3, CommitStores DEF ReadCommittedTypeOK
<1>6. CommittedTogether'
  BY <1>4, CommitWrites DEF CommittedTogether
<1>7. IsFiniteSet(stored)' /\ NoDoubleCount'
  BY <1>4, CommitStores DEF NoDoubleCount, Streaks
<1>8. OneInserts'
  BY <1>2 DEF ReadCommittedInv, OneInserts, Inserted
<1>9. ASSUME NEW u \in Session \ {t} PROVE SessionHolds(u)'
  <2>1. tx'[u] = tx[u] /\ ~ Wrote(u) /\ ~ Wrote(u)' /\ SessionHolds(u)
    BY <1>2, <1>3 DEF Wrote, ReadCommittedInv
  <2>2. Inserted(u)' => tx[u].upload \notin stored'
    BY <1>1, <2>1, CommitWrites DEF Inserted, Wrote, ReadCommittedInv, OneInserts, SessionHolds, CountFits
  <2>3. tx[u].pc = "read" => Streaks(tx[u].seen) <= Cardinality(stored')
    <3> SUFFICES ASSUME tx[u].pc = "read" PROVE Streaks(tx[u].seen) <= Cardinality(stored')
      OBVIOUS
    <3> DEFINE n == Streaks(tx[u].seen)
    <3>1. n <= Cardinality(stored)
      BY <2>1 DEF SessionHolds, CountFits
    <3>2. n \in Int
      BY SessionTypes, CounterAssumption DEF Tx, LocationHealth, Counter, Streaks
    <3>3. Cardinality(stored) \in Nat /\ Cardinality(stored') \in Nat
      BY StoredCount, CommitStores, FS_CardinalityType
    <3> HIDE DEF n
    <3>4. n <= Cardinality(stored')
      BY <3>1, <3>2, <3>3, CommitStores
    <3>5. QED
      BY <3>4 DEF n
  <2>4. CountFits(u)'
    BY <2>1, <2>2, <2>3 DEF CountFits
  <2>5. WorkFits(u)' /\ DraftFits(u)' /\ IncidentRead(u)'
    BY <2>1 DEF SessionHolds, WorkFits, DraftFits, IncidentRead, Wrote, At
  <2>6. QED
    BY <2>4, <2>5 DEF SessionHolds
<1>10. QED
  BY <1>2, <1>5, <1>6, <1>7, <1>8, <1>9 DEF ReadCommittedInv

-----------------------------------------------------------------------------
LEMMA ReadCommittedInvInit == Init => ReadCommittedInv
<1> SUFFICES ASSUME Init PROVE ReadCommittedInv
  OBVIOUS
<1>1. PendingLocation \in LocationHealth /\ Idle \in Tx
  BY CounterAssumption DEF PendingLocation, LocationHealth, LocationState, Counter, NoDeadline, Idle, Tx, Incident
<1>2. ReadCommittedTypeOK
  BY <1>1, NobodyIsNoSession
     DEF Init, ReadCommittedTypeOK, MonitorState, LocationState, Incident, Idle
<1>3. CommittedTogether
  BY DEF Init, CommittedTogether
<1>4. IsFiniteSet(stored) /\ NoDoubleCount
  BY FS_EmptySet DEF Init, NoDoubleCount, PendingLocation
<1>5. OneInserts /\ \A t \in Session : SessionHolds(t)
  BY DEF Init, OneInserts, SessionHolds, WorkFits, DraftFits, CountFits, IncidentRead, Inserted, Wrote, At, Idle
<1>6. QED
  BY <1>2, <1>3, <1>4, <1>5 DEF ReadCommittedInv

LEMMA ReadCommittedInvStep == ReadCommittedInv /\ [Next]_vars => ReadCommittedInv'
<1> SUFFICES ASSUME ReadCommittedInv, [Next]_vars PROVE ReadCommittedInv'
  OBVIOUS
<1>1. CASE UNCHANGED vars
  BY <1>1
     DEF vars, ReadCommittedInv, ReadCommittedTypeOK, CommittedTogether, NoDoubleCount, OneInserts,
         SessionHolds, WorkFits, DraftFits, CountFits, IncidentRead, Inserted, Wrote, At
<1>2. ASSUME NEW t \in Session, Statement(t) PROVE ReadCommittedInv'
  BY <1>2, InsertKeeps, ReadKeeps, WriteKeeps, ClaimKeeps, DecideKeeps, CommitKeeps DEF Statement
<1>3. ASSUME NEW t \in Session, Abort(t) PROVE ReadCommittedInv'
  BY <1>3, EndKeeps DEF Abort
<1>4. QED
  BY <1>1, <1>2, <1>3, ListKeeps, CheckKeeps DEF Next

\* ReadCommittedInv is inductive: the row lock of the one location and the
\* unique key of a result are enough for what follows.
THEOREM ReadCommittedInvariance == Spec => []ReadCommittedInv
<1>1. QED
  BY ReadCommittedInvInit, ReadCommittedInvStep, PTL DEF Spec

\* The rows stay well-formed, and the row of the location is locked by the
\* session that has written it and by no other.
THEOREM ReadCommittedTypes == Spec => []ReadCommittedTypeOK
<1>1. ReadCommittedInv => ReadCommittedTypeOK
  BY DEF ReadCommittedInv
<1>2. QED
  BY <1>1, ReadCommittedInvariance, PTL

\* With any number of sessions at READ COMMITTED, the committed rows of the
\* location, of the monitor and of the incident belong together
\* (projectAggregateAndIncident runs while the location's row is locked).
THEOREM CommittedRowsTogether == Spec => []CommittedTogether
<1>1. ReadCommittedInv => CommittedTogether
  BY DEF ReadCommittedInv
<1>2. QED
  BY <1>1, ReadCommittedInvariance, PTL

\* An incident is not replaced between GetActive and the end of a transaction,
\* so Open and Update never report ErrConflict.
THEOREM IncidentsDoNotConflict == Spec => []NoIncidentConflict
<1>1. ReadCommittedInv => NoIncidentConflict
  BY DEF ReadCommittedInv, SessionHolds, IncidentRead, NoIncidentConflict
<1>2. QED
  BY <1>1, ReadCommittedInvariance, PTL

\* A result that two requests upload at once is counted once, by the unique
\* key of probe_results.
THEOREM ResultsCountOnce == Spec => []NoDoubleCount
<1>1. ReadCommittedInv => NoDoubleCount
  BY DEF ReadCommittedInv
<1>2. QED
  BY <1>1, ReadCommittedInvariance, PTL

\* A sweep replaces the row it has listed, not one that a result refreshed
\* since (the WHERE of ClaimStale, checked again after the wait for the row).
THEOREM SweepsReplaceListedRow == Spec => SweepReplacesListedRow
<1>1. ASSUME ReadCommittedInv, NEW t \in Session, At(t, "decided"), tx[t].upload = NoUpload
      PROVE  location.staleAt = tx[t].seen.staleAt
  BY <1>1 DEF ReadCommittedInv, SessionHolds, DraftFits, Wrote, At
<1>2. ReadCommittedInv /\ [Next]_vars =>
        [\A t \in Session :
           At(t, "decided") /\ tx[t].upload = NoUpload /\ location' # location
             => location.staleAt = tx[t].seen.staleAt]_vars
  BY <1>1
<1>3. QED
  BY <1>2, ReadCommittedInvariance, PTL DEF Spec, SweepReplacesListedRow
=============================================================================
