----------------------------- MODULE Migration -----------------------------
(***************************************************************************)
(* The command "db migrate" (cmd/xisnove-server/database.go) on the four   *)
(* database profiles, with commands side by side, statements that fail and *)
(* crashes.  A file of migrations is a list of statements.  SQLite and     *)
(* local Turso run each file in a transaction except the second, whose     *)
(* statements commit one by one (NO TRANSACTION).  PostgreSQL runs each in *)
(* a transaction, managed Turso in an atomic batch.  Goose, which the code *)
(* calls for all but managed Turso, is external.                           *)
(*                                                                         *)
(* A schema is the set of what it contains.  "rows" are the monitors that  *)
(* the first release, which had SQLite only, has stored, "copies" those in *)
(* monitors_v2.                                                            *)
(***************************************************************************)
EXTENDS Integers, Sequences

CONSTANTS
  Command,       \* migration commands
  MaxCommands    \* bound on how many are run

VARIABLES
  dbProfile,     \* "sqlite", "turso-cloud" or "postgres"
  schema,        \* what the database contains
  recorded,      \* the versions in schema_migrations, in the order of their rows
  upgraded,      \* were there monitors before the upgrade?
  migrating,     \* what each command is doing
  commands       \* commands run so far

migrationVars == <<dbProfile, schema, recorded, upgraded, migrating, commands>>

LatestVersion == 3

\* A statement fails without what it needs or with what it would create.  It
\* drops, creates, and makes the second of a pair where the first is.
Statement(needs, clashes, drops, pairs, creates) ==
  [needs |-> needs, clashes |-> clashes, drops |-> drops, pairs |-> pairs, creates |-> creates]
Create(object) == Statement({}, {object}, {}, {}, {object})

Initial == <<Statement({}, {"tables", "monitors"}, {}, {}, {"tables", "monitors", "http_json"})>>

\* The columns and the rows of monitors are copied and the table is replaced.
ReplaceMonitors == <<
  Create("monitors_v2"),
  Statement({"http_json", "monitors_v2"}, {"copies"}, {}, {<<"rows", "copies">>}, {}),
  Statement({"monitors"}, {}, {"monitors", "http_json", "rows", "monitor_schedule"}, {}, {}),
  Statement({"monitors_v2"}, {"monitors"}, {"monitors_v2", "copies"}, {<<"copies", "rows">>}, {"monitors", "probe_json"})>>

Columns == <<Create("probe_kind"), Create("observed_values_json"), Create("tls_not_after"),
             Create("protocol_timings_json"), Create("monitor_schedule")>>

ProtocolBreadth ==
  IF dbProfile = "postgres"
  THEN <<Statement({"http_json"}, {}, {"http_json"}, {}, {"probe_json"})>> \o Columns
  ELSE ReplaceMonitors \o Columns

Staleness == <<Create("stale_at"), Create("due_location_health")>>

File(version) == CASE version = 1 -> Initial [] version = 2 -> ProtocolBreadth [] OTHER -> Staleness

Runs(s, in) == s.needs \subseteq in /\ s.clashes \cap in = {}
After(s, in) == (in \ s.drops) \cup s.creates \cup {p[2] : p \in {q \in s.pairs : q[1] \in in}}

\* The schemas between the statements of a file, as far as they succeed.
Through(version, in) ==
  LET file == File(version)
      at[n \in 0 .. Len(file)] ==
        IF n = 0 THEN <<in>>
        ELSE LET before == at[n - 1] IN
             IF Len(before) = n /\ Runs(file[n], before[n]) THEN Append(before, After(file[n], before[n])) ELSE before
  IN  at[Len(file)]

Succeeds(version, in) == Len(Through(version, in)) = Len(File(version)) + 1
Result(version, in) == Through(version, in)[Len(File(version)) + 1]

\* The schema of a version, with or without monitors of before.
Shape(version) ==
  LET at[v \in 0 .. LatestVersion] ==
        IF v = 0 THEN {} ELSE Result(v, at[v - 1]) \cup (IF v = 1 /\ upgraded THEN {"rows"} ELSE {})
  IN  at[version]

Version == IF recorded = <<>> THEN 0 ELSE recorded[Len(recorded)]
NoCommand == [pc |-> "idle", next |-> 0, statement |-> 0]

MigrationInit ==
  /\ dbProfile \in {"sqlite", "turso-cloud", "postgres"}
  /\ upgraded \in BOOLEAN /\ (upgraded => dbProfile = "sqlite")
  /\ recorded = (IF upgraded THEN <<1>> ELSE <<>>)
  /\ schema = Shape(Version)
  /\ migrating = [c \in Command |-> NoCommand] /\ commands = 0
-----------------------------------------------------------------------------
StartMigrate(c) ==
  /\ migrating[c].pc = "idle" /\ commands < MaxCommands /\ commands' = commands + 1
  /\ migrating' = [migrating EXCEPT ![c].pc = "read"]
  /\ UNCHANGED <<dbProfile, schema, recorded, upgraded>>

\* Finished, failed, interrupted or crashed; an open transaction is rolled
\* back.  The next command starts from what is stored.
EndMigrate(c) ==
  /\ migrating[c].pc # "idle"
  /\ migrating' = [migrating EXCEPT ![c] = NoCommand]
  /\ UNCHANGED <<dbProfile, schema, recorded, upgraded, commands>>

\* The versions are read once; the files after the last are applied in order.
ReadVersion(c) ==
  /\ migrating[c].pc = "read"
  /\ migrating' = [migrating EXCEPT ![c] = [pc |-> "apply", next |-> Version + 1, statement |-> 1]]
  /\ UNCHANGED <<dbProfile, schema, recorded, upgraded, commands>>

Transactional(version) == dbProfile # "sqlite" \/ version # 2
NextFile(c) == [migrating EXCEPT ![c].next = @ + 1, ![c].statement = 1]

Pending(c) == migrating[c].pc = "apply" /\ migrating[c].next <= LatestVersion

\* Mutant: the version is recorded although a statement failed.
AppliesRegardless(version) ==
  LET through == Through(version, schema) IN schema' = through[Len(through)]

AppliesWhole(version) == Succeeds(version, schema) /\ schema' = Result(version, schema)

\* A file and its version in one transaction or batch.
ApplyFile(c) ==
  LET version == migrating[c].next IN
  /\ Pending(c) /\ Transactional(version)
  /\ AppliesWhole(version)
  /\ recorded' = Append(recorded, version)
  /\ migrating' = NextFile(c)
  /\ UNCHANGED <<dbProfile, upgraded, commands>>

\* A statement that commits by itself.
ApplyStatement(c) ==
  LET version == migrating[c].next
      n       == migrating[c].statement
  IN
  /\ Pending(c) /\ ~ Transactional(version) /\ n <= Len(File(version))
  /\ Runs(File(version)[n], schema)
  /\ schema' = After(File(version)[n], schema)
  /\ migrating' = [migrating EXCEPT ![c].statement = n + 1]
  /\ UNCHANGED <<dbProfile, recorded, upgraded, commands>>

RecordVersion(c) ==
  LET version == migrating[c].next IN
  /\ Pending(c) /\ ~ Transactional(version) /\ migrating[c].statement > Len(File(version))
  /\ recorded' = Append(recorded, version)
  /\ migrating' = NextFile(c)
  /\ UNCHANGED <<dbProfile, schema, upgraded, commands>>

MigrationNext ==
  \E c \in Command : \/ StartMigrate(c) \/ EndMigrate(c) \/ ReadVersion(c)
                     \/ ApplyFile(c) \/ ApplyStatement(c) \/ RecordVersion(c)

MigrationSpec == MigrationInit /\ [][MigrationNext]_migrationVars

\* "Ready", which "serve" and "db backup" ask first and /readyz always.
Ready == Version = LatestVersion
-----------------------------------------------------------------------------
(***************************************************************************)
(* Properties.                                                             *)
(***************************************************************************)
\* Whichever commands run side by side and wherever they fail, each version is
\* recorded once and in order, and the schema is that of the last one with the
\* monitors of before in it: a server that is ready finds everything.  Only on
\* SQLite may 00002 stop half-way, for ever; even then the monitors are in one
\* of the two tables.
SchemaMatchesVersion ==
  /\ recorded = [v \in 1 .. Len(recorded) |-> v]
  /\ upgraded => {"rows", "copies"} \cap schema # {}
  /\ Ready => Shape(LatestVersion) \subseteq schema
  /\ \/ schema \ {"monitors_v2"} = Shape(Version)
     \/ dbProfile = "sqlite" /\ Version = 1
=============================================================================
