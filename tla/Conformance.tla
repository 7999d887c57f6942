----------------------------- MODULE Conformance -----------------------------
(***************************************************************************)
(* The same repository calls on the SQLite-compatible and on the           *)
(* PostgreSQL profile, the contract of internal/adapters/conformance, for  *)
(* any sequence of calls.  book holds what the callers wrote, as the       *)
(* services see it: entities with exact instants.  One family of           *)
(* repositories is exercised in a behaviour, above the rows that earlier   *)
(* calls left for it.                                                      *)
(***************************************************************************)
EXTENDS Tables

CONSTANTS Base, MaxUint16,
          Families,     \* the families of repositories exercised
          Seed,         \* the entities in place at the start, per table
          New,          \* the entities that calls may write, per table, and the agents' heartbeats
          Instants,     \* the instants that calls may pass
          Interval,     \* the interval of the monitors, whole seconds
          MaxAttempts   \* a bound on the leases of a run

ASSUME ConformanceAssumption ==
    /\ Base \in Nat \ {0, 1} /\ MaxUint16 \in Nat \ {0} /\ MaxAttempts \in Nat
    /\ Instants \subseteq Nat /\ Interval % (Base * Base * Base) = 0 /\ Interval \in Nat \ {0}

Micro == Base
Milli == Base * Base

------------------------------------------------------------------------------
(* The entities that the services pass to the repositories: the domain's   *)
(* constructors checked them (New*Monitor, NewAgent, NewIncident...), and   *)
(* the durations they are given are whole milliseconds.                    *)
Maybe(S)   == S \cup {Nothing}
Kinds      == {"http", "tcp", "dns"}
ProbeJSON  == [kind : Kinds, target : STRING]
Thresholds == 1 .. MaxUint16
States     == {"pending", "up", "down", "degraded", "unknown"}
Severities == {"warning", "critical"}

Entities(table) ==
    CASE table = "admins" -> [id : Int, email : STRING, password_hash : STRING, created_at : Nat]
      [] table = "sessions" -> [id : Int, admin_id : Int, token_hash : Nat, expires_at : Nat, revoked_at : Maybe(Nat)]
      [] table = "locations" -> [id : Int, name : STRING, created_at : Nat]
      [] table = "monitors" ->
           [id : Int, name : STRING, kind : Kinds, interval_ms : Nat, timeout_ms : Nat, failure_threshold : Thresholds,
            recovery_threshold : Thresholds, probe_json : ProbeJSON, enabled : BOOLEAN, next_run_at : Nat, created_at : Nat,
            updated_at : Nat]
      [] table = "monitor_locations" -> [monitor_id : Int, location_id : Int, required : BOOLEAN]
      [] table = "agents" ->
           [id : Int, location_id : Int, name : STRING, credential_hash : Nat, credential_generation : Nat \ {0},
            capabilities_json : (SUBSET STRING) \ {{}}, version : Maybe(STRING), last_seen_at : Maybe(Nat),
            revoked_at : Maybe(Nat), created_at : Nat]
      [] table = "agent_enrollment_tokens" ->
           [id : Int, location_id : Int, token_hash : Nat, expires_at : Nat, consumed_at : Maybe(Nat), created_at : Nat]
      [] table = "check_runs" ->
           [id : Int, monitor_id : Int, location_id : Int, scheduled_for : Nat, probe_json : ProbeJSON, probe_kind : Kinds,
            timeout_ms : Nat, status : {"available", "leased", "resolved"}, lease_agent_id : Maybe(Int),
            lease_token_hash : Maybe(Nat), lease_attempt : Nat, lease_expires_at : Maybe(Nat), resolved_at : Maybe(Nat)]
      [] table = "probe_results" ->
           [id : Int, run_id : Int, agent_id : Int, started_at : Nat, finished_at : Nat, received_at : Nat, outcome : BOOLEAN,
            latency_ms : Nat, observed_status : Maybe(Nat), body_assertion_passed : Maybe(BOOLEAN),
            error_code : Maybe(STRING), diagnostic_sample : Maybe(STRING), tls_not_after : Maybe(Nat)]
      [] table = "location_health" ->
           [monitor_id : Int, location_id : Int, state : States, consecutive_failures : 0 .. MaxUint16,
            consecutive_successes : 0 .. MaxUint16, last_observed_at : Maybe(Nat), last_transition_at : Maybe(Nat),
            stale_at : Maybe(Nat)]
      [] table = "monitor_health" -> [monitor_id : Int, state : States, last_transition_at : Maybe(Nat)]
      [] table = "incidents" ->
           [id : Int, monitor_id : Int, state : States, severity : Severities, opened_at : Nat, last_transition_at : Nat,
            recovered_at : Maybe(Nat)]
      [] table = "incident_events" ->
           [id : Int, incident_id : Int, previous_state : Maybe(States), state : States, severity : Severities, created_at : Nat]

WholeMilliseconds(monitor) == monitor.interval_ms % Milli = 0 /\ monitor.timeout_ms % Milli = 0

ASSUME SentinelAssumption ==
    /\ Null # Nothing /\ {Null, Nothing} \cap (Int \cup STRING \cup BOOLEAN \cup States) = {}
    /\ \A table \in TableNames : Nothing \notin Entities(table)
    /\ Null \notin [second : Nat, fraction : Seq(Nat)]

ASSUME EntityAssumption ==
    /\ \A table \in TableNames \ {"check_runs"} : New[table] \subseteq Entities(table)
    /\ New.heartbeats \subseteq [version : STRING, capabilities : (SUBSET STRING) \ {{}}]
    /\ \A m \in New.monitors : WholeMilliseconds(m) /\ m.probe_json.kind = m.kind
    /\ \A t \in New.agent_enrollment_tokens : t.consumed_at = Nothing
    /\ New.check_runs \subseteq [id : Int, monitor_id : Int, location_id : Int, scheduled_for : Nat, probe : ProbeJSON, timeout : Nat]
    /\ \A r \in New.check_runs : r.timeout % Milli = 0

(* The fixture's monitor is an HTTP monitor from before the second         *)
(* migration: its stored probe names no kind.                              *)
ASSUME SeedAssumption ==
    /\ Seed.location \in Entities("locations") /\ Seed.assignment \in Entities("monitor_locations")
    /\ Seed.assignment.monitor_id = Seed.monitor.id /\ Seed.assignment.location_id = Seed.location.id
    /\ LET decoded == [Seed.monitor EXCEPT !.probe_json.kind = "http"]
       IN  decoded \in Entities("monitors") /\ WholeMilliseconds(decoded)
           /\ decoded.timeout_ms < decoded.interval_ms /\ decoded.timeout_ms > 0
           /\ Seed.monitor = [decoded EXCEPT !.probe_json.kind = Nothing] /\ decoded.kind = "http"
    /\ \A i \in {1, 2} : Seed.agents[i] \in Entities("agents") /\ Seed.agents[i].location_id = Seed.location.id
    /\ Seed.agents[1].id # Seed.agents[2].id /\ Seed.agents[1].credential_hash # Seed.agents[2].credential_hash

VARIABLES family, lite, pg, book,
          clear,        \* were all instants compared so far equal or a millisecond apart?
          agree         \* did both profiles give the same answers while that was so?

storeVars == <<family, lite, pg, book, clear, agree>>

Lite == INSTANCE SQLiteStore
Pg   == INSTANCE PostgresStore

------------------------------------------------------------------------------
(* Comparing the two profiles. *)

TimeColumns == {"created_at", "updated_at", "expires_at", "revoked_at", "consumed_at", "next_run_at", "scheduled_for",
                "lease_expires_at", "resolved_at", "last_seen_at", "started_at", "finished_at", "received_at",
                "tls_not_after", "stale_at", "last_observed_at", "last_transition_at", "opened_at", "recovered_at"}

(* The columns that statements compare with an instant. *)
DeadlineColumns == {"expires_at", "next_run_at", "scheduled_for", "lease_expires_at", "stale_at"}

Rounded(e, unit) == [c \in DOMAIN e |-> IF c \in TimeColumns /\ e[c] # Nothing THEN e[c] - (e[c] % unit) ELSE e[c]]

(* Latency is kept in milliseconds. *)
Stored(e) == IF "latency_ms" \in DOMAIN e THEN [e EXCEPT !.latency_ms = @ - (@ % Milli)] ELSE e

Deadlines == (UNION {{e[c] : c \in DeadlineColumns \cap DOMAIN e} : e \in UNION {book[t] : t \in TableNames}}) \ {Nothing}

Apart(gap, instants) == \A s, t \in instants : s = t \/ s - t >= gap \/ t - s >= gap

SameEntity(a, b) == IF Nothing \in {a, b} THEN a = b ELSE Rounded(a, Micro) = Rounded(b, Micro)

SameReply(l, p, Same(_, _)) == l.error = p.error /\ (l.error = "none" => Same(l.value, p.value))
SameValue(a, b) == a = b

------------------------------------------------------------------------------
(* What a successful call leaves in the book: the entity, in the place of  *)
(* the one with its key.                                                   *)
Put(table, e) == [book EXCEPT ![table] = {o \in @ : ~ Equal(o, e, PrimaryKey(table))} \cup {e}]


Called(l, p, same, gap, instants, after) ==
    /\ lite' = l.db
    /\ pg' = p.db
    /\ clear' = (clear /\ Apart(gap, instants \cup Deadlines))
    /\ agree' = (agree /\ (clear' => same))
    /\ book' = after
    /\ UNCHANGED family

(* A method that only reports an error. *)
Write(l, p, table, e) ==
    Called(l, p, SameReply(l, p, SameValue), Milli, {}, IF l.error = "none" THEN Put(table, e) ELSE book)

(* A method that also reports whether it changed a row. *)
Change(l, p, gap, instants, table, e) ==
    Called(l, p, SameReply(l, p, SameValue), gap, instants, IF l.error = "none" /\ l.value THEN Put(table, e) ELSE book)

Access ==
    \/ \E a \in New.admins : Write(Lite!AdminsCreate(lite, a), Pg!AdminsCreate(pg, a), "admins", a)
    \/ \E s \in New.sessions : Write(Lite!SessionsCreate(lite, s), Pg!SessionsCreate(pg, s), "sessions", s)

(* One transaction that creates a monitor and assigns it: all or nothing.   *)
CreateAssigned(mon, a) ==
    LET l  == Lite!MonitorsCreate(lite, mon)
        p  == Pg!MonitorsCreate(pg, mon)
        lt == Lite!WithinTx(lite, IF l.error = "none" THEN Lite!MonitorsAssignLocation(l.db, a) ELSE l)
        pt == Pg!WithinTx(pg, IF p.error = "none" THEN Pg!MonitorsAssignLocation(p.db, a) ELSE p)
    IN  Called(lt, pt, SameReply(lt, pt, SameValue), Milli, {},
               IF lt.error = "none" THEN [Put("monitors", mon) EXCEPT !.monitor_locations = @ \cup {a}] ELSE book)

Setup ==
    \/ \E mon \in New.monitors, place \in {1, 2} :
         CreateAssigned(mon, [monitor_id |-> mon.id, location_id |-> place, required |-> TRUE])
    \/ \E x \in New.locations : Write(Lite!LocationsCreate(lite, x), Pg!LocationsCreate(pg, x), "locations", x)
    \/ \E m \in New.monitors : Write(Lite!MonitorsCreate(lite, m), Pg!MonitorsCreate(pg, m), "monitors", m)
    \/ \E a \in New.monitor_locations :
         Write(Lite!MonitorsAssignLocation(lite, a), Pg!MonitorsAssignLocation(pg, a), "monitor_locations", a)
    \/ \E m \in book.monitors, next \in Instants :
         Change(Lite!MonitorsAdvanceNextRun(lite, m.id, next, next), Pg!MonitorsAdvanceNextRun(pg, m.id, next, next),
                Base * Milli, {next}, "monitors", [m EXCEPT !.next_run_at = next, !.updated_at = next])

Consume(hash, now) ==
    LET l == Lite!AgentsConsumeEnrollmentToken(lite, hash, now, now)
        p == Pg!AgentsConsumeEnrollmentToken(pg, hash, now, now)
        tokens == {t \in book.agent_enrollment_tokens : t.token_hash = hash}
    IN  Called(l, p, SameReply(l, p, SameEntity), Milli, {now},
               IF l.error = "none" /\ l.value # Nothing
               THEN Put("agent_enrollment_tokens", [(CHOOSE t \in tokens : TRUE) EXCEPT !.consumed_at = now]) ELSE book)

Enrollment ==
    \/ \E t \in New.agent_enrollment_tokens :
         Write(Lite!AgentsCreateEnrollmentToken(lite, t), Pg!AgentsCreateEnrollmentToken(pg, t), "agent_enrollment_tokens", t)
    \/ \E t \in New.agent_enrollment_tokens, now \in Instants : Consume(t.token_hash, now)
    \/ \E a \in New.agents : Write(Lite!AgentsCreate(lite, a), Pg!AgentsCreate(pg, a), "agents", a)
    \/ \E a \in book.agents, now \in Instants, generation \in {1, 2}, b \in New.heartbeats :
         Change(Lite!AgentsUpdateHeartbeat(lite, a.id, generation, b.version, b.capabilities, now),
                Pg!AgentsUpdateHeartbeat(pg, a.id, generation, b.version, b.capabilities, now), Milli, {}, "agents",
                [a EXCEPT !.version = b.version, !.capabilities_json = b.capabilities, !.last_seen_at = now])

(* The run row that RunsInsert adds. *)
InsertedRun(run) ==
    [id |-> run.id, monitor_id |-> run.monitor_id, location_id |-> run.location_id, scheduled_for |-> run.scheduled_for,
     probe_json |-> run.probe, probe_kind |-> run.probe.kind, timeout_ms |-> run.timeout, status |-> "available",
     lease_agent_id |-> Nothing, lease_token_hash |-> Nothing, lease_attempt |-> 0, lease_expires_at |-> Nothing,
     resolved_at |-> Nothing]

Claim(agent, now, expires) ==
    LET params(hash) == [agent_id |-> agent.id, lease_token_hash |-> hash, lease_expires_at |-> expires, now |-> now,
                         capabilities |-> agent.capabilities_json]
        hash == Cardinality({r \in book.check_runs : r.lease_attempt > 0})
        l == Lite!RunsClaimProbe(lite, params(hash))
        p == Pg!RunsClaimProbe(pg, params(hash))
        claimed == CHOOSE r \in book.check_runs : r.id = l.value.id
    IN  /\ \A r \in book.check_runs : r.lease_attempt < MaxAttempts
        /\ Called(l, p, SameReply(l, p, SameEntity), Milli, {now, expires},
                  IF l.error = "none"
                  THEN Put("check_runs", [claimed EXCEPT !.status = "leased", !.lease_agent_id = agent.id,
                                                         !.lease_token_hash = hash, !.lease_attempt = @ + 1,
                                                         !.lease_expires_at = expires])
                  ELSE book)

Work ==
    \/ \E r \in New.check_runs :
         Change(Lite!RunsInsert(lite, r), Pg!RunsInsert(pg, r), Milli, {r.scheduled_for}, "check_runs", InsertedRun(r))
    \/ \E a \in book.agents, now \in Instants : Claim(a, now, now + Milli)
    \/ \E r \in book.check_runs, hash \in {0, 1}, at \in Instants :
         Change(Lite!RunsResolve(lite, r.id, 1, hash, at), Pg!RunsResolve(pg, r.id, 1, hash, at), Milli, {}, "check_runs",
                [r EXCEPT !.status = "resolved", !.resolved_at = at])
    \/ \E r \in New.probe_results :
         Change(Lite!ResultsInsert(lite, r), Pg!ResultsInsert(pg, r), Milli, {}, "probe_results", r)

Health ==
    \/ \E h \in New.location_health :
         Write(Lite!HealthUpsertLocation(lite, h), Pg!HealthUpsertLocation(pg, h), "location_health", h)
    \/ \E h \in book.location_health, stale, now \in Instants :
         Change(Lite!HealthClaimStale(lite, h.monitor_id, h.location_id, stale, now),
                Pg!HealthClaimStale(pg, h.monitor_id, h.location_id, stale, now), Milli, {stale, now}, "location_health",
                [h EXCEPT !.state = "unknown", !.consecutive_failures = 0, !.consecutive_successes = 0,
                          !.last_transition_at = now, !.stale_at = Nothing])
    \/ \E h \in New.monitor_health :
         Write(Lite!HealthUpsertMonitor(lite, h), Pg!HealthUpsertMonitor(pg, h), "monitor_health", h)

(* RecoverIncident leaves the severity as it is. *)
Updated(i, new) == IF new.recovered_at = Nothing THEN [new EXCEPT !.opened_at = i.opened_at]
                   ELSE [new EXCEPT !.opened_at = i.opened_at, !.severity = i.severity]

Incidents ==
    \/ \E i \in New.incidents :
         Write(Lite!IncidentsOpen(lite, i), Pg!IncidentsOpen(pg, i), "incidents", [i EXCEPT !.recovered_at = Nothing])
    \/ \E i \in book.incidents, new \in New.incidents :
         /\ new.id = i.id /\ new.monitor_id = i.monitor_id
         /\ Write(Lite!IncidentsUpdate(lite, new), Pg!IncidentsUpdate(pg, new), "incidents", Updated(i, new))
    \/ \E e \in New.incident_events :
         Write(Lite!IncidentsAppendEvent(lite, e), Pg!IncidentsAppendEvent(pg, e), "incident_events", e)

------------------------------------------------------------------------------
(* The fixture: a location, a monitor that runs there, stored before the   *)
(* second migration, and two agents.                                       *)
Empty == [t \in TableNames |-> {}]

SeedLite ==
    LET placed   == Lite!LocationsCreate(Empty, Seed.location).db
        watched  == Lite!MonitorsCreate(placed, Seed.monitor).db
        assigned == Lite!MonitorsAssignLocation(watched, Seed.assignment).db
    IN  Lite!AgentsCreate(Lite!AgentsCreate(assigned, Seed.agents[1]).db, Seed.agents[2]).db

SeedPg ==
    LET placed   == Pg!LocationsCreate(Empty, Seed.location).db
        watched  == Pg!MonitorsCreate(placed, Seed.monitor).db
        assigned == Pg!MonitorsAssignLocation(watched, Seed.assignment).db
    IN  Pg!AgentsCreate(Pg!AgentsCreate(assigned, Seed.agents[1]).db, Seed.agents[2]).db

SeedBook == [Empty EXCEPT !.locations = {Seed.location}, !.monitor_locations = {Seed.assignment},
                          !.monitors = {[Seed.monitor EXCEPT !.probe_json.kind = "http"]},
                          !.agents = {Seed.agents[1], Seed.agents[2]}]

StoreInit ==
    /\ family \in Families
    /\ lite = SeedLite /\ pg = SeedPg /\ book = SeedBook
    /\ clear = TRUE /\ agree = TRUE

StoreNext == \/ family = "access" /\ Access
             \/ family = "setup" /\ Setup
             \/ family = "enrollment" /\ Enrollment
             \/ family = "work" /\ Work
             \/ family = "health" /\ Health
             \/ family = "incidents" /\ Incidents

StoreSpec == StoreInit /\ [][StoreNext]_storeVars

------------------------------------------------------------------------------
(* Properties. *)

(* Every entity is read back as it was last written, in SQLite to the      *)
(* nanosecond, and never refused by the checks of the mapping; and there   *)
(* is nothing else, so a transaction that failed left nothing.             *)
LiteReadsBack ==
    /\ \A t \in TableNames : Cardinality(lite[t]) = Cardinality(book[t])
    /\ \A a \in book.admins : Lite!AdminsFindByEmail(lite, a.email).value = a
    /\ \A x \in book.locations : Lite!LocationsGet(lite, x.id).value = x
    /\ \A m \in book.monitors : Lite!MonitorsGet(lite, m.id).value = m
    /\ \A a \in book.agents : Lite!AgentsGet(lite, a.id).value = a
    /\ \A r \in book.check_runs : Lite!RunsGet(lite, r.id).value = r
    /\ \A r \in book.probe_results : Lite!ResultsGetByRun(lite, r.run_id).value = Stored(r)
    /\ \A h \in book.location_health : Lite!HealthGetLocation(lite, h.monitor_id, h.location_id).value = h
    /\ \A h \in book.monitor_health : Lite!HealthGetMonitor(lite, h.monitor_id).value = h
    /\ \A i \in book.incidents :
         i.recovered_at = Nothing => Lite!IncidentsGetActive(lite, i.monitor_id).value = i

(* In PostgreSQL it is read back to the microsecond, as long as both       *)
(* profiles took the same decisions.                                       *)
PgReadsBack ==
    clear =>
    /\ \A t \in TableNames : Cardinality(pg[t]) = Cardinality(book[t])
    /\ \A a \in book.admins : Pg!AdminsFindByEmail(pg, a.email).value = Rounded(a, Micro)
    /\ \A x \in book.locations : Pg!LocationsGet(pg, x.id).value = Rounded(x, Micro)
    /\ \A m \in book.monitors : Pg!MonitorsGet(pg, m.id).value = Rounded(m, Micro)
    /\ \A a \in book.agents : Pg!AgentsGet(pg, a.id).value = Rounded(a, Micro)
    /\ \A r \in book.check_runs : Pg!RunsGet(pg, r.id).value = Rounded(r, Micro)
    /\ \A r \in book.probe_results : Pg!ResultsGetByID(pg, r.id).value = Rounded(Stored(r), Micro)
    /\ \A h \in book.location_health :
         Pg!HealthGetLocation(pg, h.monitor_id, h.location_id).value = Rounded(h, Micro)
    /\ \A h \in book.monitor_health : Pg!HealthGetMonitor(pg, h.monitor_id).value = Rounded(h, Micro)
    /\ \A i \in book.incidents :
         i.recovered_at = Nothing => Pg!IncidentsGetActive(pg, i.monitor_id).value = Rounded(i, Micro)

(* What a repository method wrote, the next one reads, in both profiles    *)
(* (mapping of rows to domain values and back, formatTime, pgtype).        *)
ReadsBack == LiteReadsBack /\ PgReadsBack

(* What the two profiles list as due or stale at an instant, and which     *)
(* session they find.                                                      *)
OnColumns(reply, columns) == {[c \in columns |-> e[c]] : e \in reply.value}

SameReads(now) ==
    /\ \A s \in book.sessions : SameReply(Lite!SessionsFindActiveByTokenHash(lite, s.token_hash, now),
                                          Pg!SessionsFindActiveByTokenHash(pg, s.token_hash, now), SameEntity)
    /\ \A limit \in {1, 3} :
         /\ {d.monitor.id : d \in Lite!MonitorsListDue(lite, now, limit).value}
              = {d.monitor.id : d \in Pg!MonitorsListDue(pg, now, limit).value}
         /\ OnColumns(Lite!HealthListStale(lite, now, limit), {"monitor_id", "location_id"})
              = OnColumns(Pg!HealthListStale(pg, now, limit), {"monitor_id", "location_id"})
    /\ \A m \in book.monitors : OnColumns(Lite!HealthListRequiredLocations(lite, m.id), {"location_id", "state"})
                                 = OnColumns(Pg!HealthListRequiredLocations(pg, m.id), {"location_id", "state"})

(* Both profiles answer every call alike, errors included, until two       *)
(* instants less than a millisecond apart (a second for the schedule,      *)
(* which SQLite compares as text) are compared.                            *)
ProfilesAgree ==
    /\ agree
    /\ clear => \A now \in Instants : Apart(Milli, {now} \cup Deadlines) => SameReads(now)
    /\ clear => Lite!AdminsCount(lite) = Pg!AdminsCount(pg)

(* A row listed as stale is claimed by the deadline that the list showed,  *)
(* whatever its digits: otherwise the sweep would meet it for ever.        *)
ListedIsClaimed ==
    \A now \in Instants :
      /\ \A h \in Lite!HealthListStale(lite, now, 3).value :
           Lite!HealthClaimStale(lite, h.monitor_id, h.location_id, h.stale_at, now).value
      /\ \A h \in Pg!HealthListStale(pg, now, 3).value :
           Pg!HealthClaimStale(pg, h.monitor_id, h.location_id, h.stale_at, now).value

(* The next run on the grid of a monitor after now. *)
NextOnGrid(from, now) == IF now < from THEN from + Interval ELSE from + ((now - from) \div Interval + 1) * Interval

(* A monitor listed as due can be advanced to its next run, and is then    *)
(* not due any more: the text comparison of SQLite is safe on the grid.    *)
(* (SQLite may still list a run that is due within the same millisecond.)  *)
DueIsAdvanced ==
    \A now \in Instants :
      /\ \A d \in Lite!MonitorsListDue(lite, now, 3).value :
           LET after == Lite!MonitorsAdvanceNextRun(lite, d.monitor.id, NextOnGrid(d.next_run_at, now), now)
           IN  after.value /\ \A e \in Lite!MonitorsListDue(after.db, now, 3).value :
                                e.monitor.id = d.monitor.id => now < e.next_run_at /\ e.next_run_at < now + Milli
      /\ \A d \in Pg!MonitorsListDue(pg, now, 3).value :
           LET after == Pg!MonitorsAdvanceNextRun(pg, d.monitor.id, NextOnGrid(d.next_run_at, now), now)
           IN  after.value /\ ~ \E e \in Pg!MonitorsListDue(after.db, now, 3).value : e.monitor.id = d.monitor.id

(* What a worker is listed, it can take, and a monitor taken is not due    *)
(* any more (ListDue and AdvanceNextRun, ListStale and ClaimStale).        *)
ListedIsTaken == ListedIsClaimed /\ DueIsAdvanced
==============================================================================
