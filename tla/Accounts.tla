------------------------------ MODULE Accounts ------------------------------
(***************************************************************************)
(* Administrators, sessions, enrollment tokens and agents (auth.go,        *)
(* agents.go, leasing.go of the application under the handlers of          *)
(* httpapi), statement by statement: several calls run at once.  A call    *)
(* reads what is committed.  What it writes inside a transaction is seen   *)
(* when that commits.                                                      *)
(*                                                                         *)
(* On SQLite and Turso one transaction writes at a time, and one that read *)
(* before another committed cannot write.  PostgreSQL at READ COMMITTED    *)
(* excludes only writers of the same row or key.                           *)
(***************************************************************************)
EXTENDS Integers, Sequences, FiniteSets

CONSTANTS
  Caller,               \* requests and commands in progress at once
  Email,                \* normalised addresses
  Kind,                 \* probe kinds an agent may be capable of
  WaitingRun,           \* runs waiting at the location
  SessionDuration,      \* 24 h
  RequestedTTL,         \* lifetimes that are asked of a token
  DefaultTTL, ShortestTTL, LongestTTL,   \* 15 min, 1 min, 1 h
  MaxTime,              \* bound on the clock
  MaxSessions, MaxTokens                 \* bounds on rows

ASSUME AccountsAssumption ==
  /\ {SessionDuration, DefaultTTL, ShortestTTL, LongestTTL} \subseteq Nat \ {0}
  /\ ShortestTTL <= DefaultTTL /\ DefaultTTL <= LongestTTL
  /\ RequestedTTL \subseteq Nat /\ {MaxTime, MaxSessions, MaxTokens} \subseteq Nat

VARIABLES
  profile,    \* "sqlite" or "postgres"
  time,       \* the clock
  admins,     \* the addresses in admins
  sessions,   \* sessions, in the order of their insertion
  tokens,     \* agent_enrollment_tokens, likewise
  agents,     \* agents, likewise
  leased,     \* work -> the agent it was handed to, 0 for none
  call        \* what each caller is doing

accountTables == <<admins, sessions, tokens, agents, leased>>
accountVars == <<profile, time, accountTables, call>>

Operation == {"bootstrap", "login", "issue", "enroll", "heartbeat", "lease"}
Progress == {"idle", "authenticate", "find", "load", "count", "consume", "create", "insert", "update", "poll", "commit"}
ReplyCode == {"200", "201", "204", "400", "401", "404", "500", "bootstrapped"}
\* A call, with its key: an address, or the row that its credential or token names.
Call == [op : Operation \cup {"none"}, pc : Progress, key : Email \cup Nat, began : 0 .. MaxTime,
         kinds : SUBSET Kind, fresh : BOOLEAN, answer : ReplyCode \cup {"none"}]
NoCall == [op |-> "none", pc |-> "idle", key |-> 0, began |-> 0, kinds |-> {}, fresh |-> TRUE, answer |-> "none"]

Keys(op) ==
  CASE op \in {"bootstrap", "login"} -> Email
    [] op = "issue"                  -> DOMAIN sessions
    [] op = "enroll"                 -> DOMAIN tokens
    [] op \in {"heartbeat", "lease"} -> DOMAIN agents
    [] OTHER                         -> {0}

AccountsTypeOK ==
  /\ profile \in {"sqlite", "postgres"} /\ time \in 0 .. MaxTime
  /\ admins \subseteq Email
  /\ sessions \in Seq([admin : Email, expires : Nat])
  /\ tokens \in Seq([expires : Nat, consumed : BOOLEAN])
  /\ agents \in Seq([token : DOMAIN tokens, enrolled : Nat, kinds : SUBSET Kind, seen : Nat, revoked : BOOLEAN])
  /\ leased \in [WaitingRun -> {0} \cup DOMAIN agents]
  /\ call \in [Caller -> Call]
  /\ \A c \in Caller : call[c].key \in Keys(call[c].op)

AccountsInit ==
  /\ profile \in {"sqlite", "postgres"} /\ time = 0
  /\ admins = {} /\ sessions = <<>> /\ tokens = <<>> /\ agents = <<>>
  /\ leased = [w \in WaitingRun |-> 0]
  /\ call = [c \in Caller |-> NoCall]
-----------------------------------------------------------------------------
(* Calls and transactions.                                                 *)

At(c, op, pc) == call[c].op = op /\ call[c].pc = pc
Free(c) == call[c].pc = "idle"

Begin(c, op, pc, key, kinds) ==
  /\ Free(c)
  /\ call' = [call EXCEPT ![c] = [NoCall EXCEPT !.op = op, !.pc = pc, !.key = key, !.kinds = kinds,
                                                 !.began = IF op = "enroll" THEN time ELSE 0]]
  /\ UNCHANGED <<profile, time, accountTables>>

Goto(c, pc) == call' = [call EXCEPT ![c].pc = pc]
Reply(c, answer) == call' = [call EXCEPT ![c] = [NoCall EXCEPT !.answer = answer]]

\* A commit makes what other transactions read before it outdated.
ReplyCommitted(c, answer) ==
  call' = [d \in Caller |-> IF d = c THEN [NoCall EXCEPT !.answer = answer]
                            ELSE [call[d] EXCEPT !.fresh = ~ At(d, "bootstrap", "create")]]

\* Does caller d hold what it wrote and did not commit?
Holds(d) == \/ call[d].pc = "commit"
            \/ At(d, "enroll", "create")

\* May the statement of caller c that writes `key` run, or must it wait?
MayWrite(c, op, key) ==
  \A d \in Caller \ {c} :
    Holds(d) => profile = "postgres" /\ ~ (call[d].op = op /\ call[d].key = key)

\* Any statement may fail; an open transaction is rolled back.
Fail(c) ==
  /\ ~ Free(c)
  /\ Reply(c, IF call[c].pc = "authenticate" THEN "401" ELSE "500")
  /\ UNCHANGED <<profile, time, accountTables>>
-----------------------------------------------------------------------------
(* BootstrapAdmin: count, create, commit.                                  *)

StartBootstrap(c, email) == Begin(c, "bootstrap", "count", email, {})

CountAdmins(c) ==
  /\ At(c, "bootstrap", "count")
  /\ IF admins = {} THEN call' = [call EXCEPT ![c].pc = "create", ![c].fresh = TRUE]
                    ELSE Reply(c, "bootstrapped")
  /\ UNCHANGED <<profile, time, accountTables>>

\* Mutant: the count is not part of the transaction that creates.
SnapshotIgnored(c) == TRUE

\* SQLite refuses to turn a read into a write when the snapshot is old.
SnapshotCurrent(c) == profile = "sqlite" => call[c].fresh

CreateAdmin(c) ==
  /\ At(c, "bootstrap", "create")
  /\ MayWrite(c, "bootstrap", call[c].key)
  /\ IF SnapshotCurrent(c) /\ call[c].key \notin admins THEN Goto(c, "commit") ELSE Reply(c, "500")
  /\ UNCHANGED <<profile, time, accountTables>>

CommitAdmin(c) ==
  /\ At(c, "bootstrap", "commit")
  /\ admins' = admins \cup {call[c].key}
  /\ \E answer \in {"201", "500"} : ReplyCommitted(c, answer)   \* the outcome of a commit may be lost
  /\ UNCHANGED <<profile, time, sessions, tokens, agents, leased>>
-----------------------------------------------------------------------------
(* CreateSession and AuthenticateSession.                                  *)

StartLogin(c, email) == Begin(c, "login", "find", email, {})

FindAdmin(c) ==
  /\ At(c, "login", "find")
  /\ IF call[c].key \in admins
     THEN \/ Goto(c, "insert")
          \/ Reply(c, "401")          \* the password does not verify
     ELSE Reply(c, "401")
  /\ UNCHANGED <<profile, time, accountTables>>

CreateSession(c) ==
  /\ At(c, "login", "insert") /\ Len(sessions) < MaxSessions
  /\ MayWrite(c, "login", call[c].key)
  /\ sessions' = Append(sessions, [admin |-> call[c].key, expires |-> time + SessionDuration])
  /\ ReplyCommitted(c, "201")
  /\ UNCHANGED <<profile, time, admins, tokens, agents, leased>>

SessionActive(s) == sessions[s].expires > time

AuthenticateSession(c) ==
  /\ At(c, "issue", "authenticate")
  /\ IF SessionActive(call[c].key) THEN Goto(c, "find") ELSE Reply(c, "401")
  /\ UNCHANGED <<profile, time, accountTables>>
-----------------------------------------------------------------------------
(* CreateEnrollmentToken, with a session.                                  *)

StartIssue(c, session) == Begin(c, "issue", "authenticate", session, {})

\* enrollmentTTL
EnrollmentTTL(ttl) ==
  CASE ttl = 0           -> DefaultTTL
    [] 0 < ttl /\ ttl < ShortestTTL -> ShortestTTL
    [] ttl > LongestTTL  -> LongestTTL
    [] OTHER             -> ttl

FindLocation(c) ==
  /\ At(c, "issue", "find")
  /\ Goto(c, "insert") \/ Reply(c, "404")
  /\ UNCHANGED <<profile, time, accountTables>>

CreateEnrollmentToken(c) ==
  /\ At(c, "issue", "insert") /\ Len(tokens) < MaxTokens
  /\ MayWrite(c, "issue", call[c].key)
  /\ \E ttl \in RequestedTTL :
       tokens' = Append(tokens, [expires |-> time + EnrollmentTTL(ttl), consumed |-> FALSE])
  /\ ReplyCommitted(c, "201")
  /\ UNCHANGED <<profile, time, admins, sessions, agents, leased>>
-----------------------------------------------------------------------------
(* Enroll: consume the token, create the agent, commit.                    *)

\* The time the token is compared with is read before the transaction.
StartEnroll(c, token, kinds) == Begin(c, "enroll", "consume", token, kinds)

\* Mutant: the token is found in one statement and marked in another.
TokenFound(c) == LET token == tokens[call[c].key] IN token.expires > call[c].began

TokenUsable(c) ==
  LET token == tokens[call[c].key] IN ~ token.consumed /\ token.expires > call[c].began

ConsumeToken(c) ==
  /\ At(c, "enroll", "consume")
  /\ MayWrite(c, "enroll", call[c].key)
  /\ IF TokenUsable(c) THEN Goto(c, "create") ELSE Reply(c, "401")
  /\ UNCHANGED <<profile, time, accountTables>>

CreateAgent(c) ==
  /\ At(c, "enroll", "create")
  /\ \/ Goto(c, "commit")
     \/ Reply(c, "400")               \* NewAgent refuses the name or the kinds
  /\ UNCHANGED <<profile, time, accountTables>>

CommitAgent(c) ==
  /\ At(c, "enroll", "commit")
  /\ tokens' = [tokens EXCEPT ![call[c].key].consumed = TRUE]
  /\ agents' = Append(agents, [token |-> call[c].key, enrolled |-> call[c].began, kinds |-> call[c].kinds,
                               seen |-> 0, revoked |-> FALSE])
  /\ \E answer \in {"201", "500"} : ReplyCommitted(c, answer)
  /\ UNCHANGED <<profile, time, admins, sessions, leased>>
-----------------------------------------------------------------------------
(* Heartbeat and LeaseProbe, with the credential of an agent.              *)

StartHeartbeat(c, agent, kinds) == Begin(c, "heartbeat", "authenticate", agent, kinds)
StartLease(c, agent, kinds) == Begin(c, "lease", "authenticate", agent, kinds)

Authenticate(c) ==
  /\ call[c].op \in {"heartbeat", "lease"} /\ call[c].pc = "authenticate"
  /\ CASE agents[call[c].key].revoked -> Reply(c, "401")
       [] call[c].op = "heartbeat"    -> Goto(c, "update")
       [] OTHER                       -> Goto(c, "load")
  /\ UNCHANGED <<profile, time, accountTables>>

\* The UPDATE names the generation and an agent that is not revoked.
UpdateHeartbeat(c) ==
  LET agent == agents[call[c].key] IN
  /\ At(c, "heartbeat", "update")
  /\ MayWrite(c, "heartbeat", call[c].key)
  /\ IF ~ agent.revoked
     THEN /\ agents' = [agents EXCEPT ![call[c].key].seen = time, ![call[c].key].kinds = call[c].kinds]
          /\ ReplyCommitted(c, "204")
     ELSE Reply(c, "401") /\ UNCHANGED agents
  /\ UNCHANGED <<profile, time, admins, sessions, tokens, leased>>

\* Another generation than the agent's: no row is updated.
OldGeneration(c) ==
  /\ At(c, "heartbeat", "update")
  /\ Reply(c, "401")
  /\ UNCHANGED <<profile, time, accountTables>>

LoadAgent(c) ==
  LET agent == agents[call[c].key] IN
  /\ At(c, "lease", "load")
  /\ IF agent.revoked \/ ~ call[c].kinds \subseteq agent.kinds THEN Reply(c, "401") ELSE Goto(c, "poll")
  /\ UNCHANGED <<profile, time, accountTables>>

\* Mutant: the claim relies on what was loaded when the poll began.
ClaimantLoaded(agent) == TRUE

\* The claim joins the row of the agent.
ClaimantActive(agent) == ~ agents[agent].revoked

ClaimProbe(c, w) ==
  /\ At(c, "lease", "poll")
  /\ ClaimantActive(call[c].key) /\ leased[w] = 0
  /\ MayWrite(c, "lease", w)
  /\ leased' = [leased EXCEPT ![w] = call[c].key]
  /\ ReplyCommitted(c, "200")
  /\ UNCHANGED <<profile, time, admins, sessions, tokens, agents>>

\* The wait of the poll is over; until then an empty poll changes nothing.
NoWork(c) ==
  /\ At(c, "lease", "poll")
  /\ Reply(c, "204")
  /\ UNCHANGED <<profile, time, accountTables>>
-----------------------------------------------------------------------------
\* Nothing in the program writes revoked_at: an operator does.
Revoke(agent) ==
  /\ ~ agents[agent].revoked
  /\ agents' = [agents EXCEPT ![agent].revoked = TRUE]
  /\ UNCHANGED <<profile, time, admins, sessions, tokens, leased, call>>

Pass ==
  /\ time < MaxTime /\ time' = time + 1
  /\ UNCHANGED <<profile, accountTables, call>>

Asks(c) ==
  \/ \E email \in Email : StartBootstrap(c, email) \/ StartLogin(c, email)
  \/ \E s \in DOMAIN sessions : StartIssue(c, s)
  \/ \E t \in DOMAIN tokens, kinds \in SUBSET Kind \ {{}} : StartEnroll(c, t, kinds)
  \/ \E a \in DOMAIN agents, kinds \in SUBSET Kind \ {{}} : StartHeartbeat(c, a, kinds) \/ StartLease(c, a, kinds)

Serve(c) ==
  \/ CountAdmins(c) \/ CreateAdmin(c) \/ CommitAdmin(c)
  \/ FindAdmin(c) \/ CreateSession(c)
  \/ AuthenticateSession(c) \/ FindLocation(c) \/ CreateEnrollmentToken(c)
  \/ ConsumeToken(c) \/ CreateAgent(c) \/ CommitAgent(c)
  \/ Authenticate(c) \/ UpdateHeartbeat(c) \/ OldGeneration(c)
  \/ LoadAgent(c) \/ (\E w \in WaitingRun : ClaimProbe(c, w)) \/ NoWork(c)

AccountsNext ==
  \/ \E c \in Caller : Asks(c) \/ Serve(c) \/ Fail(c)
  \/ \E a \in DOMAIN agents : Revoke(a)
  \/ Pass

AccountsSpec == AccountsInit /\ [][AccountsNext]_accountVars
-----------------------------------------------------------------------------
(***************************************************************************)
(* Properties.                                                             *)
(***************************************************************************)
\* "One bootstrapped local administrator" (BootstrapAdmin counts first): holds
\* where transactions are serial.  On PostgreSQL two commands with different
\* addresses may both create one, each answered "201".
SingleAdministrator == profile = "sqlite" => Cardinality(admins) <= 1

\* Enroll is all or nothing, whatever fails and whoever else uses the token: a
\* token is consumed exactly when it is behind one agent, which asked before
\* the token expired.
EnrolledOnce ==
  /\ \A t \in DOMAIN tokens :
       Cardinality({a \in DOMAIN agents : agents[a].token = t}) = (IF tokens[t].consumed THEN 1 ELSE 0)
  /\ \A a \in DOMAIN agents : agents[a].enrolled < tokens[agents[a].token].expires

\* No heartbeat is recorded and no work handed out for an agent once it is
\* revoked, not even by calls that were authenticated before (the claim of a
\* long poll, the UPDATE of a heartbeat).
NothingAfterRevocation ==
  [][\A a \in DOMAIN agents :
       agents[a].revoked => /\ agents'[a] = agents[a]
                            /\ \A w \in WaitingRun : leased'[w] = a => leased[w] = a]_accountVars
=============================================================================
