--------------------------- MODULE PostgresQueries ---------------------------
(***************************************************************************)
(* The statements that the PostgreSQL profile runs                         *)
(* (db/generated/postgres), each on its own.  Instants are TIMESTAMPTZ, in *)
(* microseconds, and compared as such.  The locks of concurrent            *)
(* transactions are the subject of ReadCommitted.                          *)
(***************************************************************************)
EXTENDS Tables

CONSTANTS Base

Micro == Base
Milli == Base * Base

------------------------------------------------------------------------------
(* auth.sql *)

CountAdmins(db) == Cardinality(db.admins)

CreateAdmin(db, p) == Insert(db, "admins", p)

FindAdminByEmail(db, email) == One(Select(db, "admins", LAMBDA r : r.email = email))

CreateSession(db, p) == Insert(db, "sessions", p)

FindActiveSessionByTokenHash(db, p) ==
    One(Select(db, "sessions", LAMBDA r : /\ r.token_hash = p.token_hash
                                          /\ r.expires_at > p.now
                                          /\ r.revoked_at = Null))
------------------------------------------------------------------------------
(* agents.sql *)

CreateAgentEnrollmentToken(db, p) == Insert(db, "agent_enrollment_tokens", [p EXCEPT !.consumed_at = Null])

ConsumeAgentEnrollmentToken(db, p) ==
    One(Update(db, "agent_enrollment_tokens",
               LAMBDA r : /\ r.token_hash = p.token_hash
                          /\ r.consumed_at = Null
                          /\ r.expires_at > p.now,
               LAMBDA r : [r EXCEPT !.consumed_at = p.consumed_at]))

CreateAgent(db, p) == Insert(db, "agents", p)

FindActiveAgentByCredentialHash(db, hash) ==
    One(Select(db, "agents", LAMBDA r : r.credential_hash = hash /\ r.revoked_at = Null))

GetAgent(db, id) == One(Select(db, "agents", LAMBDA r : r.id = id))

UpdateAgentHeartbeat(db, p) ==
    Update(db, "agents",
           LAMBDA r : /\ r.id = p.id
                      /\ r.revoked_at = Null
                      /\ r.credential_generation = p.credential_generation,
           LAMBDA r : [r EXCEPT !.version = p.version, !.capabilities_json = p.capabilities_json,
                                !.last_seen_at = p.last_seen_at])
------------------------------------------------------------------------------
(* configuration.sql *)

CreateLocation(db, p) == Insert(db, "locations", p)

GetLocation(db, id) == One(Select(db, "locations", LAMBDA r : r.id = id))

CreateMonitor(db, p) == Insert(db, "monitors", p)

GetMonitor(db, id) == One(Select(db, "monitors", LAMBDA r : r.id = id))

AssignMonitorLocation(db, p) == Upsert(db, "monitor_locations", p)

GetMonitorLocation(db, monitor) ==
    LET own == {r \in db.monitor_locations : r.monitor_id = monitor}
    IN  One(Answer(db, First(own, 1, LAMBDA a, b : a.location_id < b.location_id)))

(* The monitor a row of monitor_locations belongs to. *)
MonitorOf(db, assignment) == CHOOSE m \in db.monitors : m.id = assignment.monitor_id

ListDueMonitorLocations(db, p) ==
    LET Due(a) == MonitorOf(db, a).enabled /\ MonitorOf(db, a).next_run_at <= p.now
        Key(a) == <<MonitorOf(db, a).next_run_at, a.monitor_id, a.location_id>>
    IN  Answer(db, First({a \in db.monitor_locations : Due(a)}, p.row_limit,
                         LAMBDA a, b : Lexicographic(Key(a), Key(b))))

AdvanceMonitorSchedule(db, p) ==
    Update(db, "monitors", LAMBDA r : r.id = p.id /\ r.next_run_at < p.next_run_at,
           LAMBDA r : [r EXCEPT !.next_run_at = p.next_run_at, !.updated_at = p.updated_at])
------------------------------------------------------------------------------
(* health.sql *)

GetLocationHealth(db, p) ==
    One(Select(db, "location_health", LAMBDA r : r.monitor_id = p.monitor_id /\ r.location_id = p.location_id))

UpsertLocationHealth(db, p) == Upsert(db, "location_health", p)

(* A required location without a row of its own counts as pending. *)
PendingRow(a) == [monitor_id |-> a.monitor_id, location_id |-> a.location_id, state |-> "pending",
                  consecutive_failures |-> 0, consecutive_successes |-> 0,
                  last_observed_at |-> Null, last_transition_at |-> Null, stale_at |-> Null]

HealthRow(db, a) ==
    LET own == {h \in db.location_health : Equal(h, a, {"monitor_id", "location_id"})}
    IN  IF own = {} THEN PendingRow(a) ELSE CHOOSE h \in own : TRUE

ListRequiredLocationHealth(db, monitor) ==
    Answer(db, {HealthRow(db, a) : a \in {a \in db.monitor_locations : a.monitor_id = monitor /\ a.required}})

ListStaleLocationHealth(db, p) ==
    LET Key(h) == <<h.stale_at, h.monitor_id, h.location_id>>
    IN  Answer(db, First({h \in db.location_health : h.stale_at # Null /\ h.stale_at <= p.now},
                         p.row_limit, LAMBDA a, b : Lexicographic(Key(a), Key(b))))

ClaimStaleLocationHealth(db, p) ==
    Update(db, "location_health",
           LAMBDA r : /\ r.monitor_id = p.monitor_id /\ r.location_id = p.location_id
                      /\ r.stale_at # Null /\ r.stale_at = p.stale_at
                      /\ r.stale_at <= p.transition_at,
           LAMBDA r : [r EXCEPT !.state = "unknown", !.consecutive_failures = 0, !.consecutive_successes = 0,
                                !.last_transition_at = p.transition_at, !.stale_at = Null])

GetMonitorHealth(db, monitor) == One(Select(db, "monitor_health", LAMBDA r : r.monitor_id = monitor))

UpsertMonitorHealth(db, p) == Upsert(db, "monitor_health", p)
------------------------------------------------------------------------------
(* runs.sql *)

(* clock_timestamp() *)
DatabaseNow(clock) == clock \div Micro

InsertScheduledRun(db, p) == InsertOrSkip(db, "check_runs", p, Unique("check_runs"))

ClaimProbeRun(db, p) ==
    LET Free(r) == \/ r.status = "available"
                   \/ r.status = "leased" /\ r.lease_expires_at <= p.now
        open == {r \in db.check_runs :
                   /\ \E a \in db.agents : a.id = p.agent_id /\ a.location_id = r.location_id /\ a.revoked_at = Null
                   /\ Free(r) /\ r.scheduled_for <= p.now
                   /\ r.probe_kind \in p.capabilities}
        Key(r) == <<r.scheduled_for, r.id>>
    IN  One(Update(db, "check_runs",
                   LAMBDA r : r \in First(open, 1, LAMBDA a, b : Lexicographic(Key(a), Key(b))),
                   LAMBDA r : [r EXCEPT !.status = "leased", !.lease_agent_id = p.agent_id,
                                        !.lease_token_hash = p.lease_token_hash,
                                        !.lease_attempt = @ + 1, !.lease_expires_at = p.lease_expires_at]))

GetCheckRun(db, id) == One(Select(db, "check_runs", LAMBDA r : r.id = id))

ResolveCheckRun(db, p) ==
    Update(db, "check_runs",
           LAMBDA r : /\ r.id = p.id /\ r.status = "leased"
                      /\ r.lease_agent_id = p.agent_id /\ r.lease_token_hash = p.lease_token_hash,
           LAMBDA r : [r EXCEPT !.status = "resolved", !.resolved_at = p.resolved_at])
------------------------------------------------------------------------------
(* results.sql *)

InsertProbeResult(db, p) == InsertOrSkip(db, "probe_results", p, Unique("probe_results") \cup {{"id"}})

GetProbeResultByID(db, id) == One(Select(db, "probe_results", LAMBDA r : r.id = id))

GetProbeResultByRun(db, run) == One(Select(db, "probe_results", LAMBDA r : r.run_id = run))
------------------------------------------------------------------------------
(* incidents.sql *)

GetActiveIncidentByMonitor(db, monitor) ==
    One(Select(db, "incidents", LAMBDA r : r.monitor_id = monitor /\ r.recovered_at = Null))

OpenIncident(db, p) == Insert(db, "incidents", [p EXCEPT !.recovered_at = Null])

ChangeIncident(db, p) ==
    Update(db, "incidents", LAMBDA r : r.id = p.id /\ r.recovered_at = Null,
           LAMBDA r : [r EXCEPT !.state = p.state, !.severity = p.severity,
                                !.last_transition_at = p.last_transition_at])

RecoverIncident(db, p) ==
    Update(db, "incidents", LAMBDA r : r.id = p.id /\ r.recovered_at = Null,
           LAMBDA r : [r EXCEPT !.state = p.state, !.last_transition_at = p.last_transition_at,
                                !.recovered_at = p.recovered_at])

InsertIncidentEvent(db, p) == Insert(db, "incident_events", p)
==============================================================================
