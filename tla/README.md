# Verification of the xisnove control plane and agent

xisnove is a distributed uptime monitor: a server schedules probe runs into a
database, agents at locations lease and execute them, and the server turns the
results into health states and incidents.  This directory holds TLA+ modules
translated from that code, TLC configurations that check them on small
instances, and proofs that TLAPS checks for every value of the constants.
`PROJECT.json` lists runs, mutants, hazards, theorems, and, for each
definition, the source lines it stands for.

## 1. The system

### 1.1 Components

| Component (source) | State it keeps | Operations | What makes it correct |
|---|---|---|---|
| Domain rules (`internal/domain/health.go`, `incident.go`) | none, pure functions over the rows | `ApplyProbe`, `RollupRequired`, `DecideIncident` | the two streak counters give the state the whole history gives; an incident follows the monitor |
| Scheduler (`application/scheduler.go`) | `monitors.next_run_at`, inserts `check_runs` | `EnqueueDue` every second per replica | runs on the grid, no slot lost except to catch-up, `next_run_at` never back, every due monitor scheduled |
| Lease service (`application/leasing.go`, `runs.sql`) | `check_runs`: status, agent, token, attempt, expiry | `LeaseProbe` (long poll), `ClaimProbeRun` | one holder of a token, takeover only after expiry |
| Result ingestion (`application/results.go`) | `probe_results`, `check_runs.status`, `location_health` | `UploadBatch`, one transaction per command | first valid result of the last lease resolves a run, duplicates change nothing |
| Health projection (`application/projection.go`) | `monitor_health`, `incidents`, `incident_events` | `projectAggregateAndIncident` | health, incident and event log agree after every transaction |
| Staleness worker (`application/staleness.go`) | `location_health.stale_at` | `MarkDue` every second per replica | a silent place becomes unknown, a fresh one never does |
| Agent worker (`agent/worker/worker.go`, agent `main.go`) | results queue in memory | heartbeat, lease, execute, upload, requeue | only a crash or an unreadable credential drops a result before one is stored, queue bounded, upload ends |
| Stores (`adapters/sqlitecompat`, `adapters/postgres`, `db/queries`) | the database | statements, transactions | SQLite and local Turso: one connection, transactions serial; PostgreSQL: READ COMMITTED; both answer a call alike |
| Enrollment, agent authentication, heartbeat (`application/agents.go`, `leasing.go`) | enrollment tokens, agents | create token, enroll, heartbeat, lease | a token is behind one agent; a revoked agent gets nothing |
| Admin bootstrap and sessions (`application/auth.go`) | admins, sessions | bootstrap, login, authenticate | one bootstrap administrator |
| Configuration (`application/configuration.go`, `domain/monitor.go`) | locations, monitors | create, read, list due | what is accepted can be read back; an accepted monitor stops no other |
| Probe executors (`agent/probe`) | none | resolve, dial, exchange, assert | no denied address is dialled; a pass means the assertion held; the server accepts the result |
| UI server (`ui/internal/web`) | the cookie, the page in the browser | sign in and out, search, refresh | a page shows where it is; a session that the browser is told to forget has ended or could not be looked up |
| Migrations (`cmd/xisnove-server/database.go`, `adapters/*/migrate.go`, `db/migrations`) | schema and its version | apply, check | the version tells what the schema is |
| Backup (`adapters/backup`, `cmd/xisnove-server/backup.go`) | the destination file | reserve, copy, sync | a whole snapshot or nothing |
| Processes (`cmd/xisnove-server/serve.go`, `ui/cmd/server/main.go`) | loops, listeners | start, stop | loops and handlers end before the database closes |
| HTTP API, SDK | none of their own | mapping | |

### 1.2 How they interact

Everything meets in the database.  One server process runs two tickers (one
second each): the scheduler and the staleness worker, next to the HTTP API.
Agents call the API: `PollProbeLease` (a long poll of up to 30 s), then
`UploadProbeResults` with a batch.  Several server processes are allowed on
PostgreSQL and on managed Turso (`ReplicaSafe`, `validateReplicaCount`); SQLite
and local Turso have one server and one database connection.

Two reads recur outside of the transaction that uses them: the database time
(`DatabaseNow`) and the list of rows to work on (`ListDueMonitorLocations`,
`ListStaleLocationHealth`).  What protects the use is always in the WHERE
clause of the later UPDATE: `lease_expires_at <= now`, `next_run_at < new`,
`stale_at = listed`.

### 1.3 What is hard

* **Interleaving.**  A result between the list and the claim of a sweep; two
  replicas with stale lists; two agents polling one location; two uploads of
  one location on PostgreSQL.
* **Late, repeated and lost messages.**  The agent retries an upload until it
  is answered; the server gives up a batch at the first command it rejects,
  after earlier ones were committed.
* **Crashes.**  The agent's queue is memory; a replica may die between any two
  transactions of a tick.
* **Time.**  A probe may outlast its lease; a claim uses an old time;
  deadlines are computed from the time the agent reports.
* **Limits.**  A bounded channel refilled without a consumer, row limits per
  tick, catch-up, `uint16` counters.

`PROJECT.json` "hazards" has each of them at its line with the property that
watches it.

## 2. Modules

```
Deployment --- RunTable --- Scheduler ---+
     |            |  \                   +-- ControlPlane
     |            |   AgentWorker        |
     |            RunPromise (abstract)  |
     +-- Projection ---------------------+
Health -- Projection, ReadCommitted, HealthHistory

Tables -- SQLiteQueries -- SQLiteStore --+
     \--- PostgresQueries -- PostgresStore -- Conformance

Accounts   Configuration   Probing   Console   Refresh
Migration  Backup          Lifecycle            (share no state)

Lemmas (Health; least numbers, ApplyProbe, Rollup)
WorkerProofs (AgentWorker with its RunTable, TLAPS)
ControlPlaneProofs (ControlPlane with its Scheduler and Projection,
                    WorkerProofs, Lemmas)
ReadCommittedProofs (ReadCommitted, Lemmas)
StoreRowProofs (Conformance, Lemmas)
StoreProofs (StoreRowProofs)
AdministrationProofs (Accounts, Configuration, Backup, Lifecycle, Migration,
                      Lemmas)
MonitoringProofs (Probing, HealthHistory, Refresh, Console, Lemmas)
```

**Deployment.**  The configured monitors and places, and the clock `now`.
`Assigned` is `monitor_locations`; a *place* is a pair of it.  All durations
are in one unit.

**Health.**  The pure rules.  `CounterModulus` is 2^16 in the code.  Of the
timestamps of a row only `stale_at` is kept, `NoDeadline` is NULL.
`ClaimStale` writes `StaleLocation`.  "none" is a monitor with no active
incident.

**RunTable.**  `check_runs` (`runs`) and `probe_results` (`results`), keyed by
the unique keys of the tables.  `ReadClaimTime`, then `Claim`, `ClaimNothing`
or `CancelClaim`, are the statements of `tryLeaseProbe`; the clock and the
other actors may move in between.  A lease token is random, so the incremented
`lease_attempt` names it; `grants` remembers every lease ever answered, so
that any of them can be uploaded at any later time.  `Reply` is how one
command of `UploadBatch` is answered; `AcceptResult` is the accepting half of
`ingest` that writes these two tables.

**RunPromise.**  What the run tables promise with no clock, no token and no
statement.  `RunTable` implements it under the mapping `Promise`.

**Scheduler.**  `BeginTick` (read the time), `ListDue` (the limited list),
`Enqueue` (one transaction per row: insert the latest due run, advance
`next_run_at`), `AbortTick` (a failed statement or a crash).  `LatestDue` is
`boundedSchedule`.

**Projection.**  `ProjectResult` is the health half of `ingest`; `BeginSweep`,
`ListOverdue`/`ListNothing`, `ClaimStale` and `AbortSweep` are `MarkDue`.  Both
end in `Project`, which is `projectAggregateAndIncident` with its
`openUnknown` flag.  Transactions are steps: SQLite and local Turso have one
connection.

**ControlPlane.**  All of the above over one clock and one database.  `Ingest`
is the whole accepting transaction of a result: run, result, health, incident.

**AgentWorker.**  `RunOnce` and `uploadUntilAcknowledged` of each agent against
the run tables.  `queue` is the channel, `batch` the drained upload, `pos` the
command the server handles next.  `BatchRejected` puts the batch back.  An
interrupted upload is sent again from the start, after any number of its
commands took effect.  `LeaseRequestFails` includes the answer lost after the
claim.  The credential file is read again before each request: at the start of
an upload attempt a failed read ends the upload with the batch in no queue
(`CredentialUnread`, which `unread` counts), where a refused request puts it
back (`UploadRefused`).

**ReadCommitted.**  The same projection on PostgreSQL, statement by statement:
plain SELECTs, writes that wait for the row and re-evaluate their WHERE, and
conflicts of the unique indexes.  One monitor with its one location; leases and
time are left out.

**HealthHistory.**  `ApplyProbe` and the stale update against a reference
that reads the state off the whole history.

**Tables, SQLiteQueries, PostgresQueries.**  The thirteen tables with their
keys, references and checks as one record of sets, and each SQL statement of
the two profiles as an operator from a database to an answer: the new
database, the rows, the error.  What differs between the profiles is kept:
text instants compared by `julianday` (milliseconds) or as text against
microsecond `TIMESTAMPTZ`, the order of NULL, the conflicts that are reported.

**SQLiteStore, PostgresStore.**  Each repository method: arguments to columns,
the statement, rows and errors back.  `FormatTime` and `ParseTime` are what the
conversions do to an instant, with digits of base two in the instance.

**Conformance.**  Both stores under the same calls, and `book`, what the
callers wrote.  It is the contract of `internal/adapters/conformance` for any
sequence of calls and not only for its tests.  A behaviour exercises one family
of repositories over the rows the others left.  `Entities` are the types of
what the services pass to the repositories: the constructors of the domain
checked them, durations are whole milliseconds.  `EntityAssumption` says that
the values of the instance are such.

**Accounts.**  Bootstrap, login, enrollment tokens, enrollment, heartbeat and
the long poll, each call a sequence of statements with other calls in between.
`MayWrite` and `fresh` are the two profiles: on SQLite one transaction holds
the write lock and a transaction that read an older snapshot cannot write; on
PostgreSQL only writers of one key exclude each other.  `Revoke` is an
operator's UPDATE: no operation of the program writes `revoked_at`.

**Configuration.**  From the body of a request to the row and back.  A text is
a sequence of a letter, a dot and a space, which is what `normalizeDNSName`
and the trims tell apart; the constructor runs on creation and on every read.

**Probing.**  One execution of each kind of probe: validation, resolution and
the address policy, dialling the resolved addresses in turn, redirects, the
reads of a TCP answer and the match over them, and the bounds on DNS values.
The network answers anything and the deadline may pass in any wait.

**Console, Refresh.**  The UI between the tabs of a browser and the control
plane: cookies, sign-out, the bounded walk of a search (`Console`), and the
script that refreshes a page taken from the browser's history while the user
navigates on (`Refresh`, every `await` a step).

`Unauthorized` is the 401 of `BearerAuth`, which answers it for a session that
ended and for one whose lookup failed; `unread` remembers the second.

**Migration.**  `db migrate` on every profile.  A schema is the set of what it
contains, a file a list of statements; the second SQLite file commits each
statement by itself, the remote profile sends one atomic batch.

**Backup.**  `db backup`: the destination is reserved, filled by SQLite's
online copy while a server writes, given its mode, synced and closed, and
removed on an error; a kill leaves what is there.

**Lifecycle.**  `serveCommand` with its deferred calls, the two loops and the
handlers; the UI's listener and its readiness flag.

**MCReplicas.**  The server processes at one PostgreSQL database: Scheduler and
ReadCommitted side by side, which share no row.  `focus`, chosen initially,
names the one that moves.  While the schedulers move no session begins; while
the sessions move the clock has stopped and every run is enqueued.

**MCComponents.**  HealthHistory, the eight modules from Accounts to Lifecycle
and, through MCConformance, the two stores: none shares state with another or
with the run tables.  `focus` again names the one that moves; the others stand
still at one initial state, the stores empty.  One run checks all of them, and
no state space is multiplied by another.

Mutant operators stand directly before the definition they change and are used
by no specification.

### Atomicity

A transaction is one step in RunTable, Scheduler, Projection, ControlPlane and
AgentWorker: with one connection nothing runs inside it.  A statement outside
of a transaction is a step.  RunTable and Scheduler are also right for
PostgreSQL, where the run tables are changed by single guarded UPDATEs whose
WHERE is evaluated on the locked row; Scheduler is run with two replicas, as
PostgreSQL and managed Turso allow.  The projection reads before it writes, so for
PostgreSQL it has the module of its own, ReadCommitted.  Managed Turso is the
SQLite dialect behind a remote service with ten connections: the modules take
its transactions for serial, as SQLite's are, a writer with an old snapshot
being refused (`MayWrite` of Accounts).  The service itself is not in the
repository.

## 3. Runs

| Run | Instance | Shows |
|---|---|---|
| `worker` | 2 agents, runs at 0 and 1, queue of 2, 1 fault of any kind, clock to 2 | takeover only after expiry, a run resolved once by its last lease, RunPromise implemented; only a crash or an unreadable credential drops a result, queue bounded, an upload ends |
| `projection` | 2 required places of one monitor, 1 sweeper, results of any finish time | health, incident, event log agree; stale only when overdue |
| `control_plane` | 1 replica, 1 sweeper that may fail, 1 agent uploading any lease it ever had, clock to 3 | an armed deadline is that of a stored result, an overdue one is eventually acted on |
| `replicas` | 2 schedulers on monitors of interval 1 and 2 with 1 row per tick and a clock to 3; 2 sessions on one location with 3 results of any outcomes | the grid, catch-up only, no rewind, a due monitor is scheduled; commits consistent, no lost incident update, no double count, no session waits for ever |
| `components` | the nine modules and two stores of MCComponents | one administrator and one agent per token, nothing after revocation; what is created is read; only allowed addresses dialled, a pass means a match, results acceptable; searches miss nothing, a session is given up only when it ended or could not be looked up, a page shows its URL; version and schema agree; backups whole or absent; orderly stop; counters and state are those of the history; what is written is read back, both profiles answer alike, what is listed can be taken |
| `poisoned_batch`, `unread_credential`, `early_stale`, `forgotten_session`, `optional_location`, `lost_failure`, `dotted_host` | see section 7 | disagreements of code and documents |

Each property of a passing run has a mutant in `PROJECT.json` that breaks it.

### Bounds, and why they are enough

* `MaxTime` stops the clock.  With a lease of 1 and a grace of 1 a clock to 3
  lets a run be leased, expire, be leased again and time out of the grace.
  With a deadline three units after a probe, a clock to 3 lets the deadline of
  a probe that ended at 0 pass and be acted on before or after another result
  arrives; `early_stale` has one unit more.  Liveness properties hold for steps up
  to the last time: the clock stops, the rest of the system does not.
* `Slots` bounds the times of runs; two are enough for one to be passed over
  for the other.  For the scheduler every time is a slot.
* The clock of `worker` stops at 2: a lease can expire and be taken over by
  either agent, and the first result is then rejected for its token.  A result
  too late for the grace is in `control_plane`.
* `FewRuns` (control_plane only): two runs, each leased at most twice.  It
  holds back only steps of the scheduler and the agent, of which
  `StaleDetected` asks nothing.
* `replicas`: how many of the three results pass is chosen, not which: they
  arrive in any order, and their numbers are compared for equality only.
* `UploadDelay`: a probe reported now ended at most that long ago, and not in
  the future: in ControlPlane the agent's clock is not ahead.  Projection
  takes any finish time up to `now + Skew`.
* `MaxFaults` bounds mishaps, and with them the retries of liveness runs.
* `CounterModulus` is small so that counters do wrap in the runs, and
  `MaxHistory` is more than twice the modulus.
* `OrderlyAgents` (early_stale only): each agent leases one run, and a probe
  ends after its lease began.  It leaves only counterexamples in which the two
  results come from two agents with clocks that agree.
* `early_stale` starts with two runs enqueued and no scheduler: the sweep and
  the results are what it is about.
* The stores in `components`: base-two digits give a second eight instants, a
  millisecond four and a microsecond two.  The four instants include pairs that
  are equal to PostgreSQL and not to Go, equal to `julianday` and not as text,
  and with and without a fraction.  A behaviour exercises one of six families of
  repositories.  Two entities of a table are enough for a conflict of each key.
  A run is leased at most twice.
* The others in `components`: two callers, two addresses, one token; three monitors
  listed, two of them found, pages of one and a window of two; two refreshes
  and two navigations; two migration commands at a time of three in all, so
  that one starts after a crash; two copies of a source of two steps with two
  writes; three characters of a host, one more than the shortest at which
  normalisation is not idempotent; TCP answers of up to four bytes in reads of
  two.
* Symmetry is used in `components` only, over callers and addresses; it states
  no liveness.

### Deadlock

`CHECK_DEADLOCK FALSE` stands in every cfg whose instance ends: the clock
stops, and agents are free not to upload.  That no actor waits for another for
ever is stated as liveness instead (`SessionEnds`, `UploadEnds`,
`StaleDetected`, `DueIsScheduled`).

### Fairness

* The clock: weak.
* Scheduler and staleness loops: `runScheduler` and `runStaleness` start a new
  tick every second whatever happened to the last, so a tick begins (weak) and
  its statements, which may fail again and again, do not fail for ever
  (strong).
* Agent: weak for the loop of a worker, none for faults.
* PostgreSQL: strong for each session's statements, since the row lock queue
  serves waiters in turn and an aborted transaction is tried again.  In
  `replicas` one strong condition per server covers the rows of its scheduler
  and the statements of its session, of which only one ever moves.
* Configuration (`dotted_host`): weak for the scheduler's tick, the same ticker.
* `ControlPlane` assumes nothing of agents.

## 4. Proofs

The first part of `WorkerProofs` is about RunTable.  It proves, for every set of
monitors, agents and slots and every duration that meets the named assumptions
(`DeploymentAssumption`, `RunTableAssumption`), that RunSpec keeps
`ResolvedByLastLease`, `TakeoverOnlyAfterExpiry` and `ResolutionIsFinal`, and
implements RunPromise.

The inductive invariant is `RunInv`: the type invariant, `ReadsArePast` and
`ResolvedByLastLease`.  `ReadsArePast` (a claim holds a time
that is not in the future) is the strengthening: `TakeoverOnlyAfterExpiry`
compares the expiry with `now`, the code with an older time.
`ResolvedByLastLease` is needed by `ResolutionIsFinal`: only because a stored
result means status resolved, no claim can touch the row.  `ClaimEffect` and
`AcceptEffect` state what the two interesting steps do; every other lemma uses
those and not the actions.  The refinement has the two usual parts,
`PromiseInitially` and `PromiseStep`.

The first part of `ControlPlaneProofs` does the same for the properties of `projection`, for any
number of required and optional locations, sweepers and monitors, under
`DeploymentAssumption`, `CounterAssumption` and `ProjectionAssumption`.  Its
inductive invariant `ProjectionInv` is the conjunction of the run's
`MonitorMatchesLocations`, `IncidentMatchesMonitor` and
`LostLocationHasIncident`, of the types, of `DeadlineArmed` (a deadline exactly
while there is an observation) and `LastEventMatchesIncident`, and of
`SweepsPast` (a sweep uses a time that is not in the future).
None of them is inductive alone: what a step writes into an incident depends
on the incident that is there, hence on what the monitor was, and the event
on both.  `ProjectEffect` reduces `Project` to three outcomes (`Kept`,
`Raised`, `Recovered`); `ProjectKeeps` shows that any well-formed row that is
projected keeps the invariant, provided that only staleness writes unknown;
`ObserveKeeps` and `MarkStaleKeeps` apply it to a result and to a claim.

Its second part proves the safety properties of
Scheduler in `replicas` for any intervals, replicas and row limits.  `ScheduleInv` adds to the types and
`RunsOnGrid`: a tick's time is of the past, `next_run_at` and every listed row
are on the grid, a listed row was due at the tick's time, and the slot just
before `next_run_at` has its run (`LatestEnqueued`).  The arithmetic of
`boundedSchedule` is in `LatestDueOnGrid`, from facts about integer division.
`ScheduleDroppedOnlyForLater` assumes `OneLocation`, which is what
`CreateMonitor` does; with two places per monitor the property is false, since
the first row of a list advances the monitor for both (see section 5).

Its third part composes: every step of the server is a step of the run
tables or leaves them alone, and the same for the projection
(`ControlRunStep`, `ControlProjectionStep`).  The first needs `ScheduleInv`,
because RunTable inserts no run of the future; the second that a result is
not newer than the server's clock.  Hence `ControlSpec => RunSpec` and
`ControlSpec => ProjectionSpec`, and each theorem about the parts holds of the
server.  `ControlInv` adds `PendingUntilFirstResult` and `DeadlineFromResult`,
which relate the two halves of the transaction of a result.

The second part of `WorkerProofs` proves all invariants and action properties of `worker` for any
number of agents, runs, queue capacity and faults.  `WorkerRunStep` shows that
whatever a worker or a mishap does is a step of the run tables or leaves them
alone, because every result in memory was made under a lease that was granted
(`HeldIsGranted`); with it `WorkerSpec => RunSpec`, and the theorems about the
tables hold of the workers.  `RoomLeft` is what makes `QueueWithinCapacity`
inductive: a worker that executes a run has a free entry for its result, and
queue and batch together never exceed the capacity, so putting a rejected batch
back cannot block.  `HandledIsStored` says that the commands of a batch that
the server has handled are stored: when the last one is, the batch may be
forgotten.  So of all that empties a batch only a crash and an unreadable
credential can lose one (`KeptUntilStored`).

`ReadCommittedProofs` proves the safety properties of ReadCommitted in `replicas` for any
number of sessions, results, counter width and thresholds.  `ReadCommittedInv`
adds to them that one session at most inserts a result (`OneInserts`) and, per
session (`SessionHolds`): a written row is an observation of its result or
replaces the row that was listed (`DraftFits`), it counts no more than the
stored results and its own (`CountFits`), and the incident that was read is
still the active one (`IncidentRead`).  The argument is the row lock: a session
that has written the location is the only one (`HolderHolds`), and only such a
session commits, so nothing changes under it.  Hence the branch of `Commit`
that answers ErrConflict is never taken (`CommitWrites`).  That the count may
lag behind the results, as in `lost_failure`, is why `CountFits` has `<=`.

`AdministrationProofs` begins with Accounts: it proves `EnrolledOnce`, `NothingAfterRevocation` and, for the
serial profiles, `SingleAdministrator`, for any number of calls at once and any
numbers of rows.  `AccountsInv` says of a transaction that marked a token that
no other call holds that token and that it is still unused in the table
(`EnrollFits`, `OneEnrolls`); of SQLite that one transaction holds the write
lock (`OneWrites`) and that a bootstrap which may still write, because nothing
was committed since it counted, is right that there is no administrator
(`BootstrapFits`).  `TokenBehind` is `EnrolledOnce` without cardinalities.
`OneCallMoves` states what must be shown of a step that commits nothing,
`CommitMoves` of one that commits, and each statement is one lemma.

It goes on with the commands and servers of an operator.

* Configuration.  `RowsAreMade`: every stored monitor is what `Normalized` made
  of an accepted request.  The rest of `CreatedIsRead` is about texts of any
  length (`NormalizedOnce`): trimming and dropping one dot a second time
  changes nothing when the request had at most one trailing dot.  From
  `RequestAssumption`, the types of a request.
* Backup.  `AtWork` says of a command which holds the name: the file is its
  own, its copy began at a version between the one it reserved the name at and
  the present one, and after the copy the file is whole, then private.  A write
  of the server restarts the copy, so it never mixes two versions.
* Lifecycle.  What is still open follows from where `serveCommand` and `run`
  are: `LoopsMeetDatabase`, `HandlersMeetServer`, `StopperHasDone`.
* Migration.  `Halfway(k, u)` writes out the schema after k statements of the
  second SQLite file, `Contents(v, u)` that of a version; `HalfwayNext`,
  `SecondWhole`, `ThirdFile` and `ShapeIs` show that the statements make them,
  `SecondAgain` that a file never applies twice.  (`Through` and `Shape` are
  functions with a bounded domain: `ThroughIs` reads off their value from a
  list of schemas, by the least number at which they would differ.)
  `SchemaFits` is the invariant: the schema is that of the recorded version and
  every command is *behind*, that is, has changed nothing but perhaps made a
  `monitors_v2` that it can never fill; or, on SQLite at version 1, it is
  `Halfway(k)` and one command at most is ahead, at statement k + 1.  So of two
  commands in 00002 one is stuck at its second statement, and no interleaving,
  failure or crash loses the monitors of the first release or records a
  version whose schema is not there.

`MonitoringProofs` is about a monitor from its probe to the browser.

* Probing.  `DialsAllowed` (what is left to dial was validated, after every
  redirect again), `ReportIsOpen` and `AssertedSoFar` (how much of the
  assertions holds at each stage) give `OnlyAllowedDialled`,
  `PassedMeansAsserted` and `AcceptableResult`, for answers in pieces of any
  size.  `BoundedValuesFit` is the bound on DNS values, for any list.
  `ProbeAssumption` is what `tcp.go:113` and the constructors guarantee.
* HealthHistory.  `Counts(history, outcome, n)` says that a counter is the
  length of the last stretch of an outcome up to its wrap, `StateIn` what the
  last decisive stretch says.  `StateFromHistory` needs no induction over the
  history: one observation extends it by one element.
* Refresh.  `OwnerIsLast`: a controller that is set is that of the newest
  refresh, begun on the present page; hence whoever passes `OwnsPage` after an
  await is that one.
* Console.  `SessionInv` (a credential a request carries was issued, and one
  that the browser is told to forget is not accepted or could not be looked up)
  and `SearchInv` (what a
  search has shown is ascending and complete up to its cursor, and the request
  under way continues it) for pages of any size and any set of monitors.

`StoreRowProofs` and `StoreProofs` are about the two stores: whatever entities,
instants and thresholds callers pass, in any sequence of calls, with digits of
any base.

* `Inv(p, db, bk)`: the database of profile p keeps the book.  Each row is what
  the profile writes for an entity (`Keeps`), one row to an entity and one
  entity to a row; entities are well formed, a stored monitor is valid, no two
  entities share a key, each assignment has its monitor.
* `StoreOK` is inductive: SQLite keeps the book, PostgreSQL keeps some book, and
  this very one while `clear` holds, and the answers agreed.  PostgreSQL needs
  the weaker half: once two instants less than a millisecond apart were
  compared, the profiles may have claimed different rows, and the steps after
  that must still be steps over a well-formed database.
* One lemma for each method says what it answers in terms of the book, for
  either profile (`ClaimIs`, `UpdateIs`, `SessionIs`, `DueListIs`...).  One
  lemma for each call compares the two (`ClaimKeeps`, `StaleKeeps`...).
* Formats.  `DigitsAre` writes an instant as its digits; `FormatTime` drops
  trailing zeros, and a text read by `julianday` is the instant to the
  millisecond.  `LiteTimes` and `PgTimes` give the round trip and the order.
  `LiteReads` and `PgReads` map every column back.  Hence `StoresReadBack`.
* Agreement.  `RankSame`: instants that are equal or a millisecond apart compare
  alike in both.  `FirstPaired` is about ORDER BY and LIMIT over paired rows.
  Hence `StoresAgree`.
* Taking what is listed.  A stale row is claimed because the deadline that was
  read is written again as the same text.  `DueAdvanced` is about the schedule,
  which SQLite compares as text: a text without a fraction sorts behind all of
  its second.  `OnGrid` shows that the next run is a whole second or more later,
  where the seconds decide.  Hence `StoresListWhatCanBeTaken`.  SQLite lists a
  monitor again whose next run is due within the same millisecond, PostgreSQL
  does not.
* From `ConformanceAssumption` (intervals of whole seconds),
  `SentinelAssumption` (NULL and nothing are no values), `EntityAssumption` and
  `SeedAssumption` (the rows the tests start from).  An instant is taken as a
  number of the finest unit, years and months are not modelled.

`RunTypeOK`, `SchedulerTypeOK`, `ProjectionTypeOK`, `WorkerTypeOK`,
`ReadCommittedTypeOK`, `AccountsTypeOK`, `StoreOK`, `ResolutionIsFinal`, `DeadlineArmed`,
`LastEventMatchesIncident`, `PendingUntilFirstResult`, `BackupInv`,
`LifecycleInv`, `RowsAreMade`, `MigrationInv`, `ProbingInv`, `HistoryInv`,
`RefreshInv` and `ConsoleInv` are stated by theorems only: no run repeats them.

### Model-checked only

Liveness (every `~>`): `DueIsScheduled`, `StaleDetected`, `SessionEnds`,
`UploadEnds`; liveness is out of the reach of the prover.  Every other property
of a passing run is a theorem.  What the seven runs that expect a violation
show is a counterexample each.

## 5. Not modelled

* Revocation and capability changes in RunTable, where an agent is a constant:
  they are in Accounts.
* Size and format checks of `validateResult`, except the bounds on DNS values
  and payloads that Probing compares with what an agent sends.  Result
  identifiers: a result is named by its lease.
* The times a result reports as its start: `Acceptable` takes the finish, some
  start before it must be acceptable.
* A 200 answer that misses an acknowledgement: `UploadBatch` answers for all
  commands or for none.
* Two places per monitor.  `CreateMonitor` assigns one place and nothing adds
  another, so no program state has two.  Two hazards wait for such a feature:
  `next_run_at` belongs to the monitor while rows are listed per place
  (`scheduler.go:79`), so a crash between two places' transactions would drop
  the second one's slot; and on PostgreSQL two sessions that write different
  places could each roll up without seeing the other (`store.go:761`).
  `Projection` is run and proved with several, for the tables and services
  support them.
* Cursors and filters of the read-only API, its answers' layout, the SDK, the
  site and generated code, statistics, logging and tracing, CSRF tokens and the
  rendering of the UI, flags and addresses of the commands, CI.
* The field checks of a probe body are one predicate in Configuration, the
  wire formats of DNS, TLS and HTTP are one exchange in Probing.

Things that were read and that no property states:

* On PostgreSQL two bootstrap commands with different addresses can both
  create an administrator; `SingleAdministrator` is stated for the profiles
  with serial transactions.
* A long poll that is waiting when the process is told to stop may still claim
  a run during the ten seconds that `Shutdown` waits.
* After a crash between two statements of the second SQLite migration every
  later command fails on it: `SchemaMatchesVersion` shows that the version then
  still says so, nothing repairs the schema.
* The remote profile sends `PRAGMA foreign_keys=OFF` inside a batch, where a
  transaction may ignore it.
* `db backup` does not look at signals: one that comes during the copy leaves
  the reserved file, as a kill does.
* A 401 that arrives late may clear the cookie of a newer session.
* An HTTP probe reports whatever status the target sent, and Go's client
  accepts 600 to 999 (`agent/probe/http.go:181`), which the contract of the
  server does not: such a result is answered 400 for ever.  `AcceptableResult`
  and its theorem leave that status out.
* `DeadlineFromResult` says that a deadline is that of *some* stored result of
  its place.  That it need not be the newest is in section 7.

## 6. Plan

Done: all components of 1.1 except the ones of section 5; proofs of RunTable,
Scheduler, Projection, ControlPlane, AgentWorker, ReadCommitted, Accounts,
Configuration, Backup, Lifecycle, Migration, Probing, HealthHistory, Refresh,
Console and the two stores.

Next, in this order:

1. That what ReadCommitted commits are steps of Projection for one location
   whose results are stored.
2. An abstract specification of a place (reported, silent, noticed) that
   ControlPlane implements.
3. The listings of the read-only API with their cursors.

## 7. Disagreements found

* **A rejected result blocks its batch** (`poisoned_batch`): `UploadBatch`
  stops at the first rejected command, the agent puts the whole batch back in
  order, and the valid result behind it is never ingested.  The rejected
  command is a late upload: the design says that one is acknowledged as a
  duplicate, but while its run was leased again and is not resolved, it is
  answered 400.
* **An unreadable credential loses a batch** (`unread_credential`): the worker
  drains its queue, reads the credential file for the attempt, and returns on an
  error without putting the batch back.  The design lets only a crash discard
  results.
* **An older result moves the deadline back** (`early_stale`): ingestion takes
  the deadline of the result that arrives.  Of two agents of a location the one
  with the older result may be the later to upload; the location is then marked
  stale, with its incident, before the deadline of the newer result.
* **A session is forgotten alive** (`forgotten_session`): a database failure
  during authentication is answered 401, as an ended session is, and the UI
  clears the cookie on it.
* **An optional location alone raises an incident** (`optional_location`): the
  rollup of no required locations is unknown, and the sweep opens an incident
  for unknown.
* **A failure is lost on PostgreSQL** (`lost_failure`): two ingestions of one
  location read the same counters, and the location is not down although the
  threshold was reached.
* **One monitor stops all** (`dotted_host`): the host ".." is accepted, stored
  as "." and refused on every read; the list of due monitors fails as a whole
  with it, and nothing is scheduled any more.
