---------------------------- MODULE SQLiteQueries ----------------------------
(***************************************************************************)
(* The statements that the SQLite-compatible profile runs                  *)
(* (db/generated/sqlite).  Instants are TEXT: a second and the digits of   *)
(* its fraction without trailing zeros.  Most statements compare them with *)
(* julianday, to the millisecond; two compare the text itself.             *)
(***************************************************************************)
EXTENDS Tables

CONSTANTS Base        \* the base of the digits of a fraction; three digits: ms, us, ns

Second == Base * Base * Base
Milli  == Base * Base

(* The value of the fraction that follows the second. *)
Digit(text, i) == IF i <= Len(text.fraction) THEN text.fraction[i] ELSE 0
Fraction(text) == Digit(text, 1) * Milli + Digit(text, 2) * Base + Digit(text, 3)

(* Mutant: instants are compared to the second. *)
JulianSecond(text) == text.second

(* julianday(text), rounded to the millisecond. *)
Julian(text) == (text.second * Second + Fraction(text) + Milli \div 2) \div Milli

(* Text order: the Z that ends a fraction is greater than every digit. *)
Char(text, i) == IF i <= Len(text.fraction) THEN text.fraction[i] ELSE Base
TextBefore(a, b) == Lexicographic(<<a.second, Char(a, 1), Char(a, 2), Char(a, 3)>>,
                                  <<b.second, Char(b, 1), Char(b, 2), Char(b, 3)>>)

------------------------------------------------------------------------------
(* auth.sql *)

CountAdmins(db) == Cardinality(db.admins)

CreateAdmin(db, p) == Insert(db, "admins", p)

FindAdminByEmail(db, email) == One(Select(db, "admins", LAMBDA r : r.email = email))

CreateSession(db, p) == Insert(db, "sessions", p)

FindActiveSessionByTokenHash(db, p) ==
    One(Select(db, "sessions", LAMBDA r : /\ r.token_hash = p.token_hash
                                          /\ Julian(r.expires_at) > Julian(p.now)
                                          /\ r.revoked_at = Null))
------------------------------------------------------------------------------
(* agents.sql *)

CreateAgentEnrollmentToken(db, p) == Insert(db, "agent_enrollment_tokens", [p EXCEPT !.consumed_at = Null])

ConsumeAgentEnrollmentToken(db, p) ==
    One(Update(db, "agent_enrollment_tokens",
               LAMBDA r : /\ r.token_hash = p.token_hash
                          /\ r.consumed_at = Null
                          /\ Julian(r.expires_at) > Julian(p.now),
               LAMBDA r : [r EXCEPT !.consumed_at = p.consumed_at]))

CreateAgent(db, p) == Insert(db, "agents", p)

FindActiveAgentByCredentialHash(db, hash) ==
    One(Select(db, "agents", LAMBDA r : r.credential_hash = hash /\ r.revoked_at = Null))

GetAgent(db, id) == One(Select(db, "agents", LAMBDA r : r.id = id))

UpdateAgentHeartbeat(db, p) ==
    Update(db, "agents",
           LAMBDA r : /\ r.id = p.id
                      /\ r.revoked_at = Null
                      /\ r.credential_generation = p.credential_generation,
           LAMBDA r : [r EXCEPT !.version = p.version, !.capabilities_json = p.capabilities_json,
                                !.last_seen_at = p.last_seen_at])
------------------------------------------------------------------------------
(* configuration.sql *)

CreateLocation(db, p) == Insert(db, "locations", p)

GetLocation(db, id) == One(Select(db, "locations", LAMBDA r : r.id = id))

CreateMonitor(db, p) == Insert(db, "monitors", p)

GetMonitor(db, id) == One(Select(db, "monitors", LAMBDA r : r.id = id))

AssignMonitorLocation(db, p) == Upsert(db, "monitor_locations", p)

GetMonitorLocation(db, monitor) ==
    LET own == {r \in db.monitor_locations : r.monitor_id = monitor}
    IN  One(Answer(db, First(own, 1, LAMBDA a, b : a.location_id < b.location_id)))

(* The monitor a row of monitor_locations belongs to. *)
MonitorOf(db, assignment) == CHOOSE m \in db.monitors : m.id = assignment.monitor_id

ListDueMonitorLocations(db, p) ==
    LET Due(a) == MonitorOf(db, a).enabled = 1 /\ Julian(MonitorOf(db, a).next_run_at) <= Julian(p.now)
        Key(a) == <<Julian(MonitorOf(db, a).next_run_at), a.monitor_id, a.location_id>>
    IN  Answer(db, First({a \in db.monitor_locations : Due(a)}, p.row_limit,
                         LAMBDA a, b : Lexicographic(Key(a), Key(b))))

(* Mutant: only the row's time of update is set. *)
TouchMonitorSchedule(db, p) ==
    Update(db, "monitors", LAMBDA r : r.id = p.id /\ TextBefore(r.next_run_at, p.next_run_at),
           LAMBDA r : [r EXCEPT !.updated_at = p.updated_at])

AdvanceMonitorSchedule(db, p) ==
    Update(db, "monitors", LAMBDA r : r.id = p.id /\ TextBefore(r.next_run_at, p.next_run_at),
           LAMBDA r : [r EXCEPT !.next_run_at = p.next_run_at, !.updated_at = p.updated_at])
------------------------------------------------------------------------------
(* health.sql *)

GetLocationHealth(db, p) ==
    One(Select(db, "location_health", LAMBDA r : r.monitor_id = p.monitor_id /\ r.location_id = p.location_id))

UpsertLocationHealth(db, p) == Upsert(db, "location_health", p)

(* A required location without a row of its own counts as pending. *)
PendingRow(a) == [monitor_id |-> a.monitor_id, location_id |-> a.location_id, state |-> "pending",
                  consecutive_failures |-> 0, consecutive_successes |-> 0,
                  last_observed_at |-> Null, last_transition_at |-> Null, stale_at |-> Null]

HealthRow(db, a) ==
    LET own == {h \in db.location_health : Equal(h, a, {"monitor_id", "location_id"})}
    IN  IF own = {} THEN PendingRow(a) ELSE CHOOSE h \in own : TRUE

ListRequiredLocationHealth(db, monitor) ==
    Answer(db, {HealthRow(db, a) : a \in {a \in db.monitor_locations : a.monitor_id = monitor /\ a.required = 1}})

ListStaleLocationHealth(db, p) ==
    LET Key(h) == <<Julian(h.stale_at), h.monitor_id, h.location_id>>
    IN  Answer(db, First({h \in db.location_health : h.stale_at # Null /\ Julian(h.stale_at) <= Julian(p.now)},
                         p.row_limit, LAMBDA a, b : Lexicographic(Key(a), Key(b))))

ClaimStaleLocationHealth(db, p) ==
    Update(db, "location_health",
           LAMBDA r : /\ r.monitor_id = p.monitor_id /\ r.location_id = p.location_id
                      /\ r.stale_at # Null /\ r.stale_at = p.stale_at
                      /\ Julian(r.stale_at) <= Julian(p.transition_at),
           LAMBDA r : [r EXCEPT !.state = "unknown", !.consecutive_failures = 0, !.consecutive_successes = 0,
                                !.last_transition_at = p.transition_at, !.stale_at = Null])

GetMonitorHealth(db, monitor) == One(Select(db, "monitor_health", LAMBDA r : r.monitor_id = monitor))

UpsertMonitorHealth(db, p) == Upsert(db, "monitor_health", p)
------------------------------------------------------------------------------
(* runs.sql *)

(* strftime keeps the milliseconds of the clock. *)
DatabaseNow(clock) == [second |-> clock \div Second, fraction |-> <<(clock % Second) \div Milli>>]

InsertScheduledRun(db, p) == InsertOrSkip(db, "check_runs", p, Unique("check_runs"))

ClaimProbeRun(db, p) ==
    LET Free(r) == \/ r.status = "available"
                   \/ r.status = "leased" /\ Julian(r.lease_expires_at) <= Julian(p.now)
        open == {r \in db.check_runs :
                   /\ \E a \in db.agents : a.id = p.agent_id /\ a.location_id = r.location_id /\ a.revoked_at = Null
                   /\ Free(r) /\ Julian(r.scheduled_for) <= Julian(p.now)
                   /\ r.probe_kind \in p.capabilities}
        Key(r) == <<Julian(r.scheduled_for), r.id>>
    IN  One(Update(db, "check_runs",
                   LAMBDA r : r \in First(open, 1, LAMBDA a, b : Lexicographic(Key(a), Key(b))),
                   LAMBDA r : [r EXCEPT !.status = "leased", !.lease_agent_id = p.agent_id,
                                        !.lease_token_hash = p.lease_token_hash,
                                        !.lease_attempt = @ + 1, !.lease_expires_at = p.lease_expires_at]))

GetCheckRun(db, id) == One(Select(db, "check_runs", LAMBDA r : r.id = id))

ResolveCheckRun(db, p) ==
    Update(db, "check_runs",
           LAMBDA r : /\ r.id = p.id /\ r.status = "leased"
                      /\ r.lease_agent_id = p.agent_id /\ r.lease_token_hash = p.lease_token_hash,
           LAMBDA r : [r EXCEPT !.status = "resolved", !.resolved_at = p.resolved_at])
------------------------------------------------------------------------------
(* results.sql *)

InsertProbeResult(db, p) == InsertOrSkip(db, "probe_results", p, Unique("probe_results") \cup {{"id"}})

GetProbeResultByID(db, id) == One(Select(db, "probe_results", LAMBDA r : r.id = id))

GetProbeResultByRun(db, run) == One(Select(db, "probe_results", LAMBDA r : r.run_id = run))
------------------------------------------------------------------------------
(* incidents.sql *)

GetActiveIncidentByMonitor(db, monitor) ==
    One(Select(db, "incidents", LAMBDA r : r.monitor_id = monitor /\ r.recovered_at = Null))

OpenIncident(db, p) == Insert(db, "incidents", [p EXCEPT !.recovered_at = Null])

ChangeIncident(db, p) ==
    Update(db, "incidents", LAMBDA r : r.id = p.id /\ r.recovered_at = Null,
           LAMBDA r : [r EXCEPT !.state = p.state, !.severity = p.severity,
                                !.last_transition_at = p.last_transition_at])

RecoverIncident(db, p) ==
    Update(db, "incidents", LAMBDA r : r.id = p.id /\ r.recovered_at = Null,
           LAMBDA r : [r EXCEPT !.state = p.state, !.last_transition_at = p.last_transition_at,
                                !.recovered_at = p.recovered_at])

InsertIncidentEvent(db, p) == Insert(db, "incident_events", p)
==============================================================================
