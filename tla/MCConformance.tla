---------------------------- MODULE MCConformance ----------------------------
(* A small instance of Conformance: digits of base two, so that a second has *)
(* eight instants, a millisecond four and a microsecond two.                 *)
EXTENDS Conformance

MCInstants == {4, 7, 11, 19}

MCMonitor(id, kind, probe, next) ==
    [id |-> id, name |-> <<"one", "two", "three">>[id], kind |-> kind, interval_ms |-> 8, timeout_ms |-> 4, failure_threshold |-> 3,
     recovery_threshold |-> 1, probe_json |-> [kind |-> probe, target |-> "t"], enabled |-> TRUE, next_run_at |-> next,
     created_at |-> 1, updated_at |-> 3]

MCAgent(id) ==
    [id |-> id, location_id |-> 1, name |-> "agent", credential_hash |-> id, credential_generation |-> 1,
     capabilities_json |-> {"http"}, version |-> Nothing, last_seen_at |-> Nothing, revoked_at |-> Nothing, created_at |-> 1]

MCPlace(id, name) == [id |-> id, name |-> name, created_at |-> 5]

MCSeed == [location |-> MCPlace(1, "home"), monitor |-> MCMonitor(1, "http", Nothing, 3),
           assignment |-> [monitor_id |-> 1, location_id |-> 1, required |-> TRUE], agents |-> <<MCAgent(1), MCAgent(2)>>]

MCSession(id, hash, expires) == [id |-> id, admin_id |-> 1, token_hash |-> hash, expires_at |-> expires, revoked_at |-> Nothing]

MCToken(id, location, hash, expires) ==
    [id |-> id, location_id |-> location, token_hash |-> hash, expires_at |-> expires, consumed_at |-> Nothing, created_at |-> 3]

MCRun(id, at) == [id |-> id, monitor_id |-> 1, location_id |-> 1, scheduled_for |-> at,
                probe |-> [kind |-> "http", target |-> "t"], timeout |-> 4]

MCResult(id, run, status, tls) ==
    [id |-> id, run_id |-> run, agent_id |-> 1, started_at |-> 1, finished_at |-> 5, received_at |-> 7, outcome |-> status = 200,
     latency_ms |-> 6, observed_status |-> status, body_assertion_passed |-> status = 200,
     error_code |-> IF status = 200 THEN Nothing ELSE "status", diagnostic_sample |-> Nothing, tls_not_after |-> tls]

MCHealth(state, failures, stale) ==
    [monitor_id |-> 1, location_id |-> 1, state |-> state, consecutive_failures |-> failures, consecutive_successes |-> 0,
     last_observed_at |-> 1, last_transition_at |-> Nothing, stale_at |-> stale]

MCIncident(id, state, severity, at, recovered) ==
    [id |-> id, monitor_id |-> 1, state |-> state, severity |-> severity, opened_at |-> at, last_transition_at |-> at,
     recovered_at |-> recovered]

MCNew ==
    [admins |-> {[id |-> i, email |-> e, password_hash |-> "h", created_at |-> 3] : i \in {1, 2}, e \in {"a", "b"}},
     sessions |-> {MCSession(1, 1, 7), MCSession(2, 1, 10), MCSession(2, 2, 12)},
     locations |-> {MCPlace(2, "home"), MCPlace(2, "office")},
     monitors |-> {MCMonitor(2, "tcp", "tcp", 5), [MCMonitor(3, "dns", "dns", 6) EXCEPT !.enabled = FALSE],
                   [MCMonitor(3, "dns", "dns", 6) EXCEPT !.timeout_ms = 8]},
     monitor_locations |-> {[monitor_id |-> m, location_id |-> 1, required |-> r] : m \in {1, 2}, r \in BOOLEAN},
     agent_enrollment_tokens |-> {MCToken(1, 1, 1, 7), MCToken(2, 1, 1, 11), MCToken(2, 1, 2, 11), MCToken(3, 9, 3, 11)},
     agents |-> {MCAgent(3), [MCAgent(4) EXCEPT !.credential_hash = 2]},
     heartbeats |-> {[version |-> "v2", capabilities |-> {"tcp"}]},
     check_runs |-> {MCRun(1, 3), MCRun(2, 3), MCRun(2, 11)},
     probe_results |-> {MCResult(1, 1, 200, Nothing), MCResult(2, 1, 500, 7), MCResult(1, 2, 200, Nothing)},
     location_health |-> {MCHealth("up", 0, 6), MCHealth("down", 3, 9), MCHealth("pending", 0, Nothing)},
     monitor_health |-> {[monitor_id |-> 1, state |-> s, last_transition_at |-> t] : s \in {"up", "down"}, t \in {Nothing, 5}},
     incidents |-> {MCIncident(1, "down", "critical", 5, Nothing), MCIncident(2, "down", "critical", 6, Nothing),
                    MCIncident(1, "degraded", "warning", 7, Nothing), MCIncident(1, "up", "warning", 9, 9)},
     incident_events |-> {[id |-> i, incident_id |-> 1, previous_state |-> p, state |-> "down", severity |-> "critical",
                           created_at |-> 3] : i \in {1, 2}, p \in {Nothing, "up"}}]
==============================================================================
