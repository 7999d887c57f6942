---------------------------- MODULE PostgresStore ----------------------------
(***************************************************************************)
(* The repositories of the PostgreSQL profile: each method converts its    *)
(* arguments to columns, runs one statement, and converts the rows and the *)
(* error back.  A method maps a database to a reply: the database, the     *)
(* value, and the error of the application.                                *)
(***************************************************************************)
EXTENDS PostgresQueries

CONSTANTS MaxUint16   \* the largest threshold or counter of the domain

(* The driver keeps microseconds. *)
FormatTime(t) == t \div Micro
ParseTime(v)  == v * Micro

NullableTime(t)      == IF t = Nothing THEN Null ELSE FormatTime(t)
NullableTimeValue(t) == IF t = Nothing THEN Null ELSE FormatTime(t)
NullableString(s)    == IF s = Nothing THEN Null ELSE s
NullableInt(n)       == IF n = Nothing THEN Null ELSE n
NullableBool(b)      == IF b = Nothing THEN Null ELSE b
ParseNullableTime(v) == IF v = Null THEN Nothing ELSE ParseTime(v)
StringOf(v)          == IF v = Null THEN Nothing ELSE v
Outcome(passed)      == IF passed THEN "passed" ELSE "failed"
Passed(outcome)      == outcome = "passed"
Milliseconds(d)      == d \div Milli

RepositoryError(error) == CASE error = "no_rows"    -> "not_found"
                            [] error = "constraint" -> "conflict"
                            [] OTHER -> error

Reply(answer, value) == [db |-> answer.db, value |-> value, error |-> RepositoryError(answer.error)]
Wrote(answer)        == Reply(answer, Nothing)
Affected(answer)     == Reply(answer, Cardinality(answer.rows) = 1)
Unreadable(answer)   == [db |-> answer.db, value |-> Nothing, error |-> "unreadable"]

(* The one row found, if it can be mapped. *)
Found(answer, Readable(_), Map(_)) ==
    CASE answer.error # "none" -> Wrote(answer)
      [] \E r \in answer.rows : ~ Readable(r) -> Unreadable(answer)
      [] OTHER -> Reply(answer, Map(CHOOSE r \in answer.rows : TRUE))

(* All rows; one that cannot be mapped fails the whole list. *)
Listed(answer, Readable(_), Map(_)) ==
    IF \A r \in answer.rows : Readable(r) THEN Reply(answer, {Map(r) : r \in answer.rows}) ELSE Unreadable(answer)

(* A statement whose errors the method only wraps. *)
Wrapped(answer) == [db |-> answer.db, value |-> Nothing, error |-> answer.error]

Always(r) == TRUE
------------------------------------------------------------------------------
AdminsCount(db) == CountAdmins(db)

AdminsCreate(db, admin) == Wrote(CreateAdmin(db, [admin EXCEPT !.created_at = FormatTime(@)]))

AdminsFindByEmail(db, email) ==
    Found(FindAdminByEmail(db, email), Always, LAMBDA r : [r EXCEPT !.created_at = ParseTime(@)])

SessionsCreate(db, session) ==
    Wrote(CreateSession(db, [session EXCEPT !.expires_at = FormatTime(@), !.revoked_at = NullableTime(@)]))

SessionsFindActiveByTokenHash(db, hash, now) ==
    Found(FindActiveSessionByTokenHash(db, [token_hash |-> hash, now |-> FormatTime(now)]), Always,
          LAMBDA r : [r EXCEPT !.expires_at = ParseTime(@), !.revoked_at = ParseNullableTime(@)])
------------------------------------------------------------------------------
LocationsCreate(db, location) == Wrote(CreateLocation(db, [location EXCEPT !.created_at = FormatTime(@)]))

LocationsGet(db, id) ==
    Found(GetLocation(db, id), Always, LAMBDA r : [r EXCEPT !.created_at = ParseTime(@)])

(* A probe stored before the second migration has no kind and is HTTP. *)
ProbeKind(kind, json)   == IF json.kind = Nothing /\ kind = "http" THEN "http" ELSE json.kind
DecodeProbe(kind, json) == [json EXCEPT !.kind = ProbeKind(kind, json)]

(* What New*Monitor checks of the row again. *)
MonitorFromProbe(r) ==
    /\ ProbeKind(r.kind, r.probe_json) \in {"http", "tcp", "dns"}
    /\ 0 < r.timeout_ms /\ r.timeout_ms < r.interval_ms
    /\ r.failure_threshold > 0 /\ r.recovery_threshold > 0

MonitorReadable(r) == /\ r.failure_threshold <= MaxUint16 /\ r.recovery_threshold <= MaxUint16
                      /\ ProbeKind(r.kind, r.probe_json) = r.kind
                      /\ MonitorFromProbe(r)

MapMonitor(r) ==
    [r EXCEPT !.interval_ms = @ * Milli, !.timeout_ms = @ * Milli, !.probe_json = DecodeProbe(r.kind, @),
              !.next_run_at = ParseTime(@), !.created_at = ParseTime(@), !.updated_at = ParseTime(@)]

MonitorsCreate(db, monitor) ==
    Wrote(CreateMonitor(db,
        [monitor EXCEPT !.interval_ms = Milliseconds(@), !.timeout_ms = Milliseconds(@),
                        !.next_run_at = FormatTime(@), !.created_at = FormatTime(@), !.updated_at = FormatTime(@)]))

MonitorsGet(db, id) == Found(GetMonitor(db, id), MonitorReadable, MapMonitor)

MonitorsAssignLocation(db, assignment) ==
    Wrote(AssignMonitorLocation(db, assignment))

MonitorsGetAssignment(db, monitor) ==
    Found(GetMonitorLocation(db, monitor), Always, LAMBDA r : r)

MonitorsListDue(db, now, limit) ==
    Listed(ListDueMonitorLocations(db, [now |-> FormatTime(now), row_limit |-> limit]),
           LAMBDA a : MonitorReadable(MonitorOf(db, a)),
           LAMBDA a : [monitor |-> MapMonitor(MonitorOf(db, a)), location_id |-> a.location_id,
                       required |-> a.required, next_run_at |-> ParseTime(MonitorOf(db, a).next_run_at)])

MonitorsAdvanceNextRun(db, id, next, updated) ==
    Affected(AdvanceMonitorSchedule(db, [id |-> id, next_run_at |-> FormatTime(next), updated_at |-> FormatTime(updated)]))
------------------------------------------------------------------------------
RunsDatabaseNow(clock) == ParseTime(DatabaseNow(clock))

RunReadable(r) == r.lease_attempt >= 0 /\ ProbeKind(r.probe_kind, r.probe_json) = r.probe_kind

MapRun(r) ==
    [r EXCEPT !.scheduled_for = ParseTime(@), !.probe_json = DecodeProbe(r.probe_kind, @), !.timeout_ms = @ * Milli,
              !.lease_agent_id = StringOf(@), !.lease_token_hash = StringOf(@),
              !.lease_expires_at = ParseNullableTime(@), !.resolved_at = ParseNullableTime(@)]

RunsInsert(db, run) ==
    Affected(InsertScheduledRun(db,
        [id |-> run.id, monitor_id |-> run.monitor_id, location_id |-> run.location_id,
         scheduled_for |-> FormatTime(run.scheduled_for), probe_json |-> run.probe, probe_kind |-> run.probe.kind,
         timeout_ms |-> Milliseconds(run.timeout), status |-> "available", lease_agent_id |-> Null,
         lease_token_hash |-> Null, lease_attempt |-> 0, lease_expires_at |-> Null, resolved_at |-> Null]))

RunsClaimProbe(db, p) ==
    Found(ClaimProbeRun(db, [p EXCEPT !.agent_id = NullableString(@), !.lease_expires_at = NullableTimeValue(@),
                                      !.now = NullableTimeValue(@)]),
          RunReadable, MapRun)

RunsGet(db, id) == Found(GetCheckRun(db, id), RunReadable, MapRun)

RunsResolve(db, id, agent, hash, at) ==
    Affected(ResolveCheckRun(db, [id |-> id, agent_id |-> NullableString(agent), lease_token_hash |-> hash,
                                  resolved_at |-> NullableTimeValue(at)]))
------------------------------------------------------------------------------
MapProbeResult(r) ==
    [r EXCEPT !.started_at = ParseTime(@), !.finished_at = ParseTime(@), !.received_at = ParseTime(@),
              !.outcome = Passed(@), !.latency_ms = @ * Milli, !.error_code = StringOf(@),
              !.tls_not_after = ParseNullableTime(@),
              !.observed_status = StringOf(@), !.body_assertion_passed = StringOf(@)]

ResultsGetByID(db, id)   == Found(GetProbeResultByID(db, id), Always, MapProbeResult)
ResultsGetByRun(db, run) == Found(GetProbeResultByRun(db, run), Always, MapProbeResult)

ResultsInsert(db, result) ==
    Affected(InsertProbeResult(db,
        [result EXCEPT !.started_at = FormatTime(@), !.finished_at = FormatTime(@), !.received_at = FormatTime(@),
                       !.outcome = Outcome(@), !.latency_ms = Milliseconds(@),
                       !.observed_status = NullableInt(@), !.body_assertion_passed = NullableBool(@),
                       !.error_code = NullableString(@), !.tls_not_after = NullableTime(@)]))
------------------------------------------------------------------------------
MapIncident(r) == [r EXCEPT !.opened_at = ParseTime(@), !.last_transition_at = ParseTime(@),
                            !.recovered_at = ParseNullableTime(@)]

(* No active incident is an answer, not an error. *)
IncidentsGetActive(db, monitor) ==
    LET answer == GetActiveIncidentByMonitor(db, monitor)
    IN  IF answer.error = "no_rows" THEN Reply(Answer(db, {}), Nothing) ELSE Found(answer, Always, MapIncident)

IncidentsOpen(db, incident) ==
    Wrote(OpenIncident(db, [incident EXCEPT !.opened_at = FormatTime(@), !.last_transition_at = FormatTime(@)]))

IncidentsUpdate(db, incident) ==
    LET columns == [incident EXCEPT !.last_transition_at = FormatTime(@), !.recovered_at = NullableTime(@)]
        answer  == IF incident.recovered_at # Nothing THEN RecoverIncident(db, columns) ELSE ChangeIncident(db, columns)
    IN  IF answer.rows = {} THEN Wrote(Violation(db)) ELSE Wrote(answer)

IncidentsAppendEvent(db, event) ==
    Wrote(InsertIncidentEvent(db, [event EXCEPT !.previous_state = NullableString(@), !.created_at = FormatTime(@)]))
------------------------------------------------------------------------------
MapEnrollmentToken(r) == [r EXCEPT !.expires_at = ParseTime(@), !.consumed_at = ParseNullableTime(@),
                                   !.created_at = ParseTime(@)]

AgentsCreateEnrollmentToken(db, token) ==
    Wrote(CreateAgentEnrollmentToken(db, [token EXCEPT !.expires_at = FormatTime(@), !.created_at = FormatTime(@)]))

(* A token that is unknown, consumed or expired is not an error either. *)
AgentsConsumeEnrollmentToken(db, hash, now, at) ==
    LET answer == ConsumeAgentEnrollmentToken(db, [token_hash |-> hash, now |-> FormatTime(now),
                                                   consumed_at |-> NullableTimeValue(at)])
    IN  IF answer.error = "no_rows" THEN Reply(Answer(db, {}), Nothing) ELSE Found(answer, Always, MapEnrollmentToken)

(* What NewAgent checks of the row again. *)
AgentReadable(r) == r.credential_generation > 0 /\ r.capabilities_json # {} /\ r.name # Nothing

MapAgent(r) == [r EXCEPT !.version = StringOf(@), !.last_seen_at = ParseNullableTime(@),
                         !.revoked_at = ParseNullableTime(@), !.created_at = ParseTime(@)]

AgentsCreate(db, agent) ==
    Wrote(CreateAgent(db, [agent EXCEPT !.version = NullableString(@), !.last_seen_at = NullableTimeValue(@),
                                        !.revoked_at = NullableTime(@), !.created_at = FormatTime(@)]))

AgentsGet(db, id) == Found(GetAgent(db, id), AgentReadable, MapAgent)

AgentsFindActiveByCredentialHash(db, hash) ==
    Found(FindActiveAgentByCredentialHash(db, hash), AgentReadable, MapAgent)

AgentsUpdateHeartbeat(db, id, generation, version, capabilities, at) ==
    Affected(UpdateAgentHeartbeat(db, [id |-> id, credential_generation |-> generation, version |-> NullableString(version),
                                       capabilities_json |-> capabilities, last_seen_at |-> NullableTimeValue(at)]))
------------------------------------------------------------------------------
HealthReadable(r) == r.consecutive_failures <= MaxUint16 /\ r.consecutive_successes <= MaxUint16

MapLocationHealth(r) == [r EXCEPT !.last_observed_at = ParseNullableTime(@), !.last_transition_at = ParseNullableTime(@),
                                  !.stale_at = ParseNullableTime(@)]

HealthGetLocation(db, monitor, location) ==
    Found(GetLocationHealth(db, [monitor_id |-> monitor, location_id |-> location]), HealthReadable, MapLocationHealth)

HealthUpsertLocation(db, health) ==
    Wrapped(UpsertLocationHealth(db, [health EXCEPT !.last_observed_at = NullableTimeValue(@), !.stale_at = NullableTimeValue(@),
                                                  !.last_transition_at = NullableTimeValue(@)]))

HealthListRequiredLocations(db, monitor) ==
    Listed(ListRequiredLocationHealth(db, monitor), HealthReadable, MapLocationHealth)

HealthListStale(db, now, limit) ==
    Listed(ListStaleLocationHealth(db, [now |-> NullableTimeValue(now), row_limit |-> limit]), HealthReadable, MapLocationHealth)

HealthClaimStale(db, monitor, location, stale, at) ==
    Affected(ClaimStaleLocationHealth(db, [monitor_id |-> monitor, location_id |-> location,
                                           stale_at |-> NullableTimeValue(stale), transition_at |-> NullableTimeValue(at)]))

HealthGetMonitor(db, monitor) ==
    Found(GetMonitorHealth(db, monitor), Always, LAMBDA r : [r EXCEPT !.last_transition_at = ParseNullableTime(@)])

HealthUpsertMonitor(db, health) ==
    Wrapped(UpsertMonitorHealth(db, [health EXCEPT !.last_transition_at = NullableTimeValue(@)]))
------------------------------------------------------------------------------
(* A transaction keeps what its function did only if that did not fail. *)
WithinTx(db, reply) == IF reply.error = "none" THEN reply ELSE [reply EXCEPT !.db = db]
==============================================================================
