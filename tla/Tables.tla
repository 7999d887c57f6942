------------------------------- MODULE Tables -------------------------------
(***************************************************************************)
(* The relational part that the two database profiles share: the tables,   *)
(* their keys, references and checks (db/migrations), and the forms of     *)
(* statement that the queries use.  A database is a record of tables, a    *)
(* table a set of rows.  A statement maps a database to an answer: the     *)
(* database after it, the rows it read or changed, and its error.          *)
(***************************************************************************)
EXTENDS Integers, FiniteSets, Sequences

CONSTANTS Null,       \* SQL NULL
          Nothing     \* the zero value on the Go side: "", a nil pointer, the zero time

TableNames == {"admins", "sessions", "locations", "monitors", "monitor_locations", "agents",
               "agent_enrollment_tokens", "check_runs", "probe_results", "location_health",
               "monitor_health", "incidents", "incident_events"}

(* The uniqueness constraints besides the primary key. *)
Unique(table) ==
    CASE table = "admins"   -> {{"email"}}
      [] table \in {"sessions", "agent_enrollment_tokens"} -> {{"token_hash"}}
      [] table = "agents"   -> {{"credential_hash"}}
      [] table \in {"locations", "monitors"} -> {{"name"}}
      [] table = "check_runs"    -> {{"monitor_id", "location_id", "scheduled_for"}}
      [] table = "probe_results" -> {{"run_id"}}
      [] table = "incidents"     -> {{"monitor_id", "recovered_at"}}
      [] OTHER -> {}

PrimaryKey(table) == CASE table \in {"monitor_locations", "location_health"} -> {"monitor_id", "location_id"}
                       [] table = "monitor_health" -> {"monitor_id"}
                       [] OTHER -> {"id"}

(* The rows each column refers to. *)
Parents(table) ==
    CASE table = "sessions" -> [admin_id |-> "admins"]
      [] table \in {"agents", "agent_enrollment_tokens"} -> [location_id |-> "locations"]
      [] table \in {"monitor_locations", "check_runs", "location_health"} ->
           [monitor_id |-> "monitors", location_id |-> "locations"]
      [] table = "probe_results" -> [run_id |-> "check_runs", agent_id |-> "agents"]
      [] table \in {"monitor_health", "incidents"} -> [monitor_id |-> "monitors"]
      [] table = "incident_events" -> [incident_id |-> "incidents"]
      [] OTHER -> <<>>

(* A monitor's timeout is positive and below its interval. *)
Checked(table, row) ==
    table = "monitors" => /\ 0 < row.timeout_ms /\ row.timeout_ms < row.interval_ms
                          /\ row.failure_threshold > 0 /\ row.recovery_threshold > 0

Equal(a, b, key) == \A c \in key : a[c] = b[c]

(* The only key with a NULL in it that excludes another row is the partial *)
(* index one_active_incident_per_monitor, on the rows not yet recovered.   *)
Clash(rows, row, key) ==
    \E other \in rows : /\ Equal(other, row, key)
                        /\ "recovered_at" \in key => row.recovered_at = Null

Allowed(db, table, row) ==
    /\ \A key \in Unique(table) \cup {PrimaryKey(table)} : ~ Clash(db[table], row, key)
    /\ \A c \in DOMAIN Parents(table) : \E parent \in db[Parents(table)[c]] : parent.id = row[c]
    /\ Checked(table, row)

Answer(db, rows)  == [db |-> db, rows |-> rows, error |-> "none"]
Violation(db)     == [db |-> db, rows |-> {}, error |-> "constraint"]

Select(db, table, Where(_)) == Answer(db, {r \in db[table] : Where(r)})

Insert(db, table, row) ==
    IF Allowed(db, table, row) THEN Answer([db EXCEPT ![table] = @ \cup {row}], {row}) ELSE Violation(db)

(* ON CONFLICT (key) DO NOTHING *)
InsertOrSkip(db, table, row, keys) ==
    IF \E key \in keys : Clash(db[table], row, key) THEN Answer(db, {}) ELSE Insert(db, table, row)

Update(db, table, Where(_), Set(_)) ==
    LET hit == {r \in db[table] : Where(r)}
        new == {Set(r) : r \in hit}
    IN  Answer([db EXCEPT ![table] = (@ \ hit) \cup new], new)

(* ON CONFLICT (primary key) DO UPDATE SET every other column *)
Upsert(db, table, row) ==
    IF Clash(db[table], row, PrimaryKey(table))
    THEN Update(db, table, LAMBDA r : Equal(r, row, PrimaryKey(table)), LAMBDA r : row)
    ELSE Insert(db, table, row)

(* A query for one row fails when there is none. *)
One(answer) == IF answer.error = "none" /\ answer.rows = {} THEN [answer EXCEPT !.error = "no_rows"] ELSE answer

(* The first n of the rows, in the order of Before. *)
First(rows, n, Before(_, _)) ==
    {r \in rows : Cardinality({s \in rows : Before(s, r)}) < n}

(* Does the pair or triple a come before b?  The orders end in an id. *)
Lexicographic(a, b) ==
    \E i \in DOMAIN a : a[i] < b[i] /\ \A j \in 1..i - 1 : a[j] = b[j]
=============================================================================
