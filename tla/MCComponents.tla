----------------------------- MODULE MCComponents -----------------------------
(***************************************************************************)
(* The components that share no state, each by itself: one run checks them *)
(* all.  The initial state chooses the one that moves; the others stay at  *)
(* one initial state.                                                      *)
(***************************************************************************)
EXTENDS HealthHistory, Accounts, Configuration, Probing, Console, Refresh, Migration, Backup, Lifecycle,
        MCConformance, TLC

CONSTANTS c1, c2, e1, e2

VARIABLE focus     \* the component that moves

MCSymmetry == Permutations({c1, c2}) \cup Permutations({e1, e2})

(* HealthHistory: counters narrow enough to wrap, a threshold at their limit. *)
MCRule == [failures |-> 3, recoveries |-> 2]

(* Configuration: every host of up to three characters, names that are     *)
(* alike when trimmed, one of each other fault.                            *)
x == <<"x">>
Texts(n) == UNION {[1 .. k -> {"x", ".", " "}] : k \in 0 .. n}
Plain == [kind |-> "tcp", name |-> x, target |-> x, interval |-> 5, timeout |-> 100,
          failures |-> 1, recoveries |-> 1, secret |-> FALSE]

MCLocationName == {<<>>, <<" ">>, x, <<" ", "x">>}
MCRequest ==
  {[Plain EXCEPT !.target = t, !.name = n] : t \in Texts(3), n \in {x, <<"x", "x">>, <<" ", "x">>, <<" ">>}}
  \cup {[Plain EXCEPT !.target = t, !.kind = "dns"] : t \in Texts(2)}
  \cup {[Plain EXCEPT !.kind = "http"], [Plain EXCEPT !.kind = "http", !.secret = TRUE],
        [Plain EXCEPT !.timeout = 5000], [Plain EXCEPT !.failures = 101]}

(* Probing: definitions of each kind with and without each assertion.      *)
Definition == [kind |-> "http", wellFormed |-> TRUE, host |-> "name", tls |-> FALSE, remaining |-> FALSE,
               follow |-> FALSE, statuses |-> {200}, send |-> FALSE, expect |-> <<>>]

MCProbe ==
  {[Definition EXCEPT !.wellFormed = w, !.kind = k] : w \in BOOLEAN, k \in {"http", "tcp", "dns", "other"}}
  \cup {[Definition EXCEPT !.follow = f, !.tls = t, !.remaining = r, !.host = h] :
           f, t, r \in BOOLEAN, h \in {"name", "global", "private"}}
  \cup {[Definition EXCEPT !.kind = "tcp", !.tls = t, !.remaining = t, !.send = s, !.expect = e] :
           t, s \in BOOLEAN, e \in {<<>>, <<1>>, <<1, 0>>}}
MCAnswers == {<<>>, <<1>>, <<2>>, <<1, 1>>, <<1, 2>>, <<2, 1>>, <<1, 1, 1>>, <<2, 2>>, <<3>>}
-----------------------------------------------------------------------------
\* A component that does not move starts in one way.
Still(component, variable, value) == focus # component => variable = value

\* Both databases empty, as after the migrations.
EmptyStores ==
  /\ family = "access" /\ lite = Empty /\ pg = Empty /\ book = Empty
  /\ clear = TRUE /\ agree = TRUE

ComponentsInit ==
  /\ focus \in {"history", "accounts", "configuration", "probing", "console", "refresh", "migration", "backup",
                "lifecycle", "store"}
  /\ HistoryInit /\ ConfigurationInit /\ ConsoleInit /\ LifecycleInit
  /\ AccountsInit /\ Still("accounts", profile, "sqlite")
  /\ ProbingInit /\ Still("probing", probe, Definition)
  /\ RefreshInit /\ Still("refresh", location, "u1")
  /\ MigrationInit /\ Still("migration", dbProfile, "sqlite") /\ Still("migration", upgraded, FALSE)
  /\ BackupInit /\ Still("backup", file, Absent)
  /\ IF focus = "store" THEN StoreInit ELSE EmptyStores

\* Every component but the one named.
Rest(component) ==
  /\ UNCHANGED focus
  /\ IF component = "history" THEN TRUE ELSE UNCHANGED historyVars
  /\ IF component = "accounts" THEN TRUE ELSE UNCHANGED accountVars
  /\ IF component = "configuration" THEN TRUE ELSE UNCHANGED configurationVars
  /\ IF component = "probing" THEN TRUE ELSE UNCHANGED probingVars
  /\ IF component = "console" THEN TRUE ELSE UNCHANGED consoleVars
  /\ IF component = "refresh" THEN TRUE ELSE UNCHANGED refreshVars
  /\ IF component = "migration" THEN TRUE ELSE UNCHANGED migrationVars
  /\ IF component = "backup" THEN TRUE ELSE UNCHANGED backupVars
  /\ IF component = "lifecycle" THEN TRUE ELSE UNCHANGED lifecycleVars
  /\ IF component = "store" THEN TRUE ELSE UNCHANGED storeVars

ComponentsNext ==
  \/ focus = "history" /\ HistoryNext /\ Rest("history")
  \/ focus = "accounts" /\ AccountsNext /\ Rest("accounts")
  \/ focus = "configuration" /\ ConfigurationNext /\ Rest("configuration")
  \/ focus = "probing" /\ ProbingNext /\ Rest("probing")
  \/ focus = "console" /\ ConsoleNext /\ Rest("console")
  \/ focus = "refresh" /\ RefreshNext /\ Rest("refresh")
  \/ focus = "migration" /\ MigrationNext /\ Rest("migration")
  \/ focus = "backup" /\ BackupNext /\ Rest("backup")
  \/ focus = "lifecycle" /\ LifecycleNext /\ Rest("lifecycle")
  \/ focus = "store" /\ StoreNext /\ Rest("store")

ComponentsSpec ==
  ComponentsInit /\ [][ComponentsNext]_<<focus, historyVars, accountVars, configurationVars, probingVars,
                                         consoleVars, refreshVars, migrationVars, backupVars, lifecycleVars, storeVars>>
=============================================================================
