------------------------ MODULE AdministrationProofs ------------------------
(***************************************************************************)
(* Proofs about what operators and their commands do: accounts, monitors,  *)
(* backups, migrations and the lives of the two servers.                   *)
(*                                                                         *)
(* Accounts, for any number of calls at once, addresses, sessions, tokens  *)
(* and agents: what the key of a row (PostgreSQL) or the write lock and the*)
(* snapshot (SQLite) are enough for.                                       *)
(***************************************************************************)
EXTENDS Accounts, Configuration, Backup, Lifecycle, Migration, Lemmas,
        SequenceTheorems, FiniteSetTheorems

\* A call that has marked its token, in a transaction that is not committed.
Enrolling(c) == call[c].op = "enroll" /\ call[c].pc \in {"create", "commit"}

\* Such a token is still usable for everybody else who looks.
EnrollFits(c) ==
  Enrolling(c) => /\ ~ tokens[call[c].key].consumed
                  /\ call[c].began < tokens[call[c].key].expires

\* A bootstrap on SQLite writes, or still may write, only without administrator.
BootstrapFits(c) ==
  profile = "sqlite" /\ (At(c, "bootstrap", "commit") \/ (At(c, "bootstrap", "create") /\ call[c].fresh))
    => admins = {}

\* Writers exclude each other by the key of their row ...
OneEnrolls ==
  \A c, d \in Caller : Enrolling(c) /\ Enrolling(d) /\ call[c].key = call[d].key => c = d

\* ... and on SQLite altogether.
OneWrites ==
  profile = "sqlite" => \A c, d \in Caller : Holds(c) /\ Holds(d) => c = d

OneAdmin == profile = "sqlite" => \A e, f \in admins : e = f

\* EnrolledOnce, without counting.
TokenBehind ==
  /\ \A t \in DOMAIN tokens : tokens[t].consumed <=> \E a \in DOMAIN agents : agents[a].token = t
  /\ \A a, b \in DOMAIN agents : agents[a].token = agents[b].token => a = b
  /\ \A a \in DOMAIN agents : agents[a].enrolled < tokens[agents[a].token].expires

AccountsInv ==
  /\ AccountsTypeOK
  /\ \A c \in Caller : EnrollFits(c) /\ BootstrapFits(c)
  /\ OneEnrolls
  /\ OneWrites
  /\ OneAdmin
  /\ TokenBehind

-----------------------------------------------------------------------------
TokenRow == [expires : Nat, consumed : BOOLEAN]
AgentRow == [token : DOMAIN tokens, enrolled : Nat, kinds : SUBSET Kind, seen : Nat, revoked : BOOLEAN]

\* The tables' part of AccountsTypeOK.
TablesTyped ==
  /\ profile \in {"sqlite", "postgres"} /\ time \in 0 .. MaxTime
  /\ admins \subseteq Email
  /\ sessions \in Seq([admin : Email, expires : Nat])
  /\ tokens \in Seq(TokenRow)
  /\ agents \in Seq(AgentRow)
  /\ leased \in [WaitingRun -> {0} \cup DOMAIN agents]

LEMMA TypeParts ==
  AccountsTypeOK <=> /\ TablesTyped /\ call \in [Caller -> Call]
                     /\ \A c \in Caller : call[c].key \in Keys(call[c].op)
BY DEF AccountsTypeOK, TablesTyped, TokenRow, AgentRow

\* A row has the number of its place in its table.
LEMMA RowNumbers ==
  ASSUME TablesTyped
  PROVE  /\ DOMAIN sessions = 1 .. Len(sessions) /\ Len(sessions) \in Nat
         /\ DOMAIN tokens = 1 .. Len(tokens) /\ Len(tokens) \in Nat
         /\ DOMAIN agents = 1 .. Len(agents) /\ Len(agents) \in Nat
         /\ \A t \in DOMAIN tokens : tokens[t] \in TokenRow
         /\ \A a \in DOMAIN agents : agents[a] \in AgentRow
BY LenProperties, ElementOfSeq DEF TablesTyped

LEMMA KeyTypes ==
  ASSUME TablesTyped, NEW op, NEW key \in Keys(op)
  PROVE  key \in Email \cup Nat
<1>1. DOMAIN sessions \subseteq Nat /\ DOMAIN tokens \subseteq Nat /\ DOMAIN agents \subseteq Nat
  BY RowNumbers
<1>2. QED
  BY <1>1 DEF Keys

LEMMA NoCallType == NoCall \in Call
<1>1. 0 \in 0 .. MaxTime /\ 0 \in Email \cup Nat
  BY AccountsAssumption
<1>2. "none" \in Operation \cup {"none"} /\ "none" \in ReplyCode \cup {"none"} /\ "idle" \in Progress
  BY DEF Progress
<1>3. QED
  BY <1>1, <1>2 DEF NoCall, Call

-----------------------------------------------------------------------------
\* What must be shown of a step of call c that commits nothing.
LEMMA OneCallMoves ==
  ASSUME AccountsInv, NEW c \in Caller, NEW r \in Call, r.key \in Keys(r.op),
         call' = [call EXCEPT ![c] = r], UNCHANGED <<profile, time, accountTables>>,
         EnrollFits(c)', BootstrapFits(c)',
         Holds(c)' /\ profile = "sqlite" => \A d \in Caller \ {c} : ~ Holds(d),
         Enrolling(c)' => \A d \in Caller \ {c} : ~ (Enrolling(d) /\ call[d].key = r.key)
  PROVE  AccountsInv'
<1>1. UNCHANGED <<profile, time, admins, sessions, tokens, agents, leased>>
  BY DEF accountTables
<1>2. call \in [Caller -> Call] /\ TablesTyped
  BY TypeParts DEF AccountsInv
<1>3. call'[c] = r /\ \A d \in Caller \ {c} : call'[d] = call[d]
  BY <1>2
<1>4. call' \in [Caller -> Call] /\ \A d \in Caller : (call[d].key \in Keys(call[d].op))'
  <2>1. call' \in [Caller -> Call]
    BY <1>2
  <2>2. \A d \in Caller : call'[d].key \in Keys(call'[d].op)
    BY <1>2, <1>3, TypeParts DEF AccountsInv
  <2>3. QED
    BY <1>1, <2>1, <2>2 DEF Keys
<1>5. AccountsTypeOK'
  <2>1. TablesTyped'
    BY <1>1, <1>2 DEF TablesTyped, AgentRow
  <2>2. QED
    BY <1>4, <2>1 DEF AccountsTypeOK, TablesTyped, TokenRow, AgentRow
<1>6. \A d \in Caller \ {c} : EnrollFits(d)' /\ BootstrapFits(d)'
  BY <1>1, <1>3 DEF AccountsInv, EnrollFits, BootstrapFits, Enrolling, At
<1>7. OneEnrolls'
  BY <1>3 DEF AccountsInv, OneEnrolls, Enrolling
<1>8. OneWrites'
  BY <1>1, <1>3 DEF AccountsInv, OneWrites, Holds, At
<1>9. OneAdmin' /\ TokenBehind'
  BY <1>1 DEF AccountsInv, OneAdmin, TokenBehind
<1>10. QED
  BY <1>5, <1>6, <1>7, <1>8, <1>9 DEF AccountsInv

\* A call that neither holds nor is about to create an administrator.
LEMMA FreeMoves ==
  ASSUME AccountsInv, NEW c \in Caller, NEW r \in Call, r.key \in Keys(r.op),
         call' = [call EXCEPT ![c] = r], UNCHANGED <<profile, time, accountTables>>,
         r.pc \notin {"create", "commit"}
  PROVE  AccountsInv'
<1>1. call'[c] = r
  BY TypeParts DEF AccountsInv
<1>2. EnrollFits(c)' /\ BootstrapFits(c)' /\ ~ Holds(c)' /\ ~ Enrolling(c)'
  BY <1>1 DEF EnrollFits, BootstrapFits, Holds, Enrolling, At
<1>3. QED
  BY <1>2, OneCallMoves

LEMMA BeginKeeps ==
  ASSUME AccountsInv, NEW c \in Caller, NEW op \in Operation, NEW pc \in Progress \ {"create", "commit"},
         NEW key \in Keys(op), NEW kinds \in SUBSET Kind, Begin(c, op, pc, key, kinds)
  PROVE  AccountsInv'
<1> DEFINE r == [NoCall EXCEPT !.op = op, !.pc = pc, !.key = key, !.kinds = kinds,
                               !.began = IF op = "enroll" THEN time ELSE 0]
<1>1. key \in Email \cup Nat /\ time \in 0 .. MaxTime
  BY TypeParts, KeyTypes DEF AccountsInv, TablesTyped
<1>2. r \in Call /\ r.op = op /\ r.key = key /\ r.pc = pc
  <2>1. 0 \in 0 .. MaxTime
    BY AccountsAssumption
  <2>2. (IF op = "enroll" THEN time ELSE 0) \in 0 .. MaxTime
    BY <1>1, <2>1
  <2>3. QED
    BY <1>1, <2>2, NoCallType DEF Call
<1>3. call' = [call EXCEPT ![c] = r] /\ UNCHANGED <<profile, time, accountTables>>
  BY DEF Begin
<1> HIDE DEF r
<1>4. QED
  BY <1>2, <1>3, FreeMoves

LEMMA ReplyKeeps ==
  ASSUME AccountsInv, NEW c \in Caller, NEW reply \in ReplyCode, Reply(c, reply),
         UNCHANGED <<profile, time, accountTables>>
  PROVE  AccountsInv'
<1> DEFINE r == [NoCall EXCEPT !.answer = reply]
<1>1. r \in Call
  BY NoCallType DEF Call
<1>2. r.key \in Keys(r.op) /\ r.pc = "idle"
  BY DEF NoCall, Keys
<1>3. call' = [call EXCEPT ![c] = r]
  BY DEF Reply
<1> HIDE DEF r
<1>4. QED
  BY <1>1, <1>2, <1>3, FreeMoves

LEMMA GotoKeeps ==
  ASSUME AccountsInv, NEW c \in Caller, NEW pc \in Progress \ {"create", "commit"}, Goto(c, pc),
         UNCHANGED <<profile, time, accountTables>>
  PROVE  AccountsInv'
<1> DEFINE r == [call[c] EXCEPT !.pc = pc]
<1>1. call \in [Caller -> Call] /\ call[c] \in Call /\ call[c].key \in Keys(call[c].op)
  BY TypeParts DEF AccountsInv
<1>2. r \in Call /\ r.key \in Keys(r.op) /\ r.pc = pc
  BY <1>1 DEF Call
<1>3. call' = [call EXCEPT ![c] = r]
  BY DEF Goto
<1> HIDE DEF r
<1>4. QED
  BY <1>2, <1>3, FreeMoves

\* The reads, whatever they find.
LEMMA ReadsKeep ==
  ASSUME AccountsInv, NEW c \in Caller,
         \/ FindAdmin(c) \/ AuthenticateSession(c) \/ FindLocation(c) \/ Authenticate(c)
         \/ OldGeneration(c) \/ LoadAgent(c) \/ NoWork(c) \/ Fail(c)
  PROVE  AccountsInv'
<1>1. UNCHANGED <<profile, time, accountTables>>
  BY DEF FindAdmin, AuthenticateSession, FindLocation, Authenticate, OldGeneration, LoadAgent, NoWork, Fail
<1>2. \/ \E reply \in ReplyCode : Reply(c, reply)
      \/ \E pc \in Progress \ {"create", "commit"} : Goto(c, pc)
  BY DEF FindAdmin, AuthenticateSession, FindLocation, Authenticate, OldGeneration, LoadAgent, NoWork, Fail,
         ReplyCode, Progress
<1>3. QED
  BY <1>1, <1>2, ReplyKeeps, GotoKeeps

-----------------------------------------------------------------------------
\* The statements that write inside a transaction.
LEMMA CountKeeps ==
  ASSUME AccountsInv, NEW c \in Caller, CountAdmins(c)
  PROVE  AccountsInv'
<1>1. CASE admins # {}
  BY <1>1, ReplyKeeps DEF CountAdmins, ReplyCode
<1>2. CASE admins = {}
  <2> DEFINE r == [call[c] EXCEPT !.pc = "create", !.fresh = TRUE]
  <2>1. call \in [Caller -> Call] /\ call[c] \in Call /\ call[c].key \in Keys(call[c].op)
    BY TypeParts DEF AccountsInv
  <2>2. r \in Call /\ r.key \in Keys(r.op) /\ r.pc = "create" /\ r.op = "bootstrap"
    BY <2>1 DEF Call, Progress, CountAdmins, At
  <2>3. call' = [call EXCEPT ![c] = r] /\ UNCHANGED <<profile, time, accountTables>> /\ admins' = {}
    BY <1>2 DEF CountAdmins, accountTables
  <2> HIDE DEF r
  <2>4. call'[c] = r
    BY <2>1, <2>3
  <2>5. EnrollFits(c)' /\ BootstrapFits(c)' /\ ~ Holds(c)' /\ ~ Enrolling(c)'
    BY <2>2, <2>3, <2>4 DEF EnrollFits, BootstrapFits, Holds, Enrolling, At
  <2>6. QED
    BY <2>2, <2>3, <2>5, OneCallMoves
<1>3. QED
  BY <1>1, <1>2

LEMMA CreateAdminKeeps ==
  ASSUME AccountsInv, NEW c \in Caller, CreateAdmin(c)
  PROVE  AccountsInv'
<1>1. CASE ~ (SnapshotCurrent(c) /\ call[c].key \notin admins)
  BY <1>1, ReplyKeeps DEF CreateAdmin, ReplyCode
<1>2. CASE SnapshotCurrent(c) /\ call[c].key \notin admins
  <2> DEFINE r == [call[c] EXCEPT !.pc = "commit"]
  <2>1. call \in [Caller -> Call] /\ call[c] \in Call /\ call[c].key \in Keys(call[c].op)
    BY TypeParts DEF AccountsInv
  <2>2. r \in Call /\ r.key \in Keys(r.op) /\ r.pc = "commit" /\ r.op = "bootstrap"
    BY <2>1 DEF Call, Progress, CreateAdmin, At
  <2>3. call' = [call EXCEPT ![c] = r] /\ UNCHANGED <<profile, time, accountTables>>
    BY <1>2 DEF CreateAdmin, Goto
  <2> HIDE DEF r
  <2>4. call'[c] = r /\ admins' = admins /\ profile' = profile
    BY <2>1, <2>3 DEF accountTables
  <2>5. profile = "sqlite" => admins = {}
    BY <1>2 DEF AccountsInv, BootstrapFits, SnapshotCurrent, CreateAdmin
  <2>6. EnrollFits(c)' /\ BootstrapFits(c)' /\ ~ Enrolling(c)'
    BY <2>2, <2>4, <2>5 DEF EnrollFits, BootstrapFits, Enrolling, At
  <2>7. profile = "sqlite" => \A d \in Caller \ {c} : ~ Holds(d)
    BY DEF CreateAdmin, MayWrite
  <2>8. QED
    BY <2>2, <2>3, <2>6, <2>7, OneCallMoves
<1>3. QED
  BY <1>1, <1>2

LEMMA ConsumeKeeps ==
  ASSUME AccountsInv, NEW c \in Caller, ConsumeToken(c)
  PROVE  AccountsInv'
<1>1. CASE ~ TokenUsable(c)
  BY <1>1, ReplyKeeps DEF ConsumeToken, ReplyCode
<1>2. CASE TokenUsable(c)
  <2> DEFINE r == [call[c] EXCEPT !.pc = "create"]
  <2>1. call \in [Caller -> Call] /\ call[c] \in Call /\ call[c].key \in Keys(call[c].op)
    BY TypeParts DEF AccountsInv
  <2>2. /\ r \in Call /\ r.key \in Keys(r.op) /\ r.pc = "create" /\ r.op = "enroll"
        /\ r.key = call[c].key /\ r.began = call[c].began
    BY <2>1 DEF Call, Progress, ConsumeToken, At
  <2>3. call' = [call EXCEPT ![c] = r] /\ UNCHANGED <<profile, time, accountTables>>
    BY <1>2 DEF ConsumeToken, Goto
  <2> HIDE DEF r
  <2>4. call'[c] = r /\ tokens' = tokens
    BY <2>1, <2>3 DEF accountTables
  <2>5. call[c].key \in DOMAIN tokens
    BY <2>1 DEF ConsumeToken, At, Keys
  <2>6. tokens[call[c].key].expires > call[c].began /\ ~ tokens[call[c].key].consumed
    BY <1>2 DEF TokenUsable
  <2>7. call[c].began < tokens[call[c].key].expires
    <3>1. tokens[call[c].key].expires \in Int /\ call[c].began \in Int
      BY <2>1, <2>5, RowNumbers, TypeParts, AccountsAssumption DEF AccountsInv, TokenRow, Call
    <3>2. QED
      BY <2>6, <3>1
  <2>8. EnrollFits(c)' /\ BootstrapFits(c)'
    BY <2>2, <2>4, <2>6, <2>7 DEF EnrollFits, BootstrapFits, At
  <2>9. \A d \in Caller \ {c} : Holds(d) => profile = "postgres" /\ ~ (call[d].op = "enroll" /\ call[d].key = r.key)
    BY <2>2 DEF ConsumeToken, MayWrite
  <2>10. \A d \in Caller \ {c} : ~ (Enrolling(d) /\ call[d].key = r.key)
    BY <2>9 DEF Enrolling, Holds, At
  <2>11. profile = "sqlite" => \A d \in Caller \ {c} : ~ Holds(d)
    BY <2>9
  <2>12. QED
    BY <2>2, <2>3, <2>8, <2>10, <2>11, OneCallMoves
<1>3. QED
  BY <1>1, <1>2

LEMMA CreateAgentKeeps ==
  ASSUME AccountsInv, NEW c \in Caller, CreateAgent(c)
  PROVE  AccountsInv'
<1>1. CASE Reply(c, "400")
  BY <1>1, ReplyKeeps DEF CreateAgent, ReplyCode
<1>2. CASE Goto(c, "commit")
  <2> DEFINE r == [call[c] EXCEPT !.pc = "commit"]
  <2>1. call \in [Caller -> Call] /\ call[c] \in Call /\ call[c].key \in Keys(call[c].op)
    BY TypeParts DEF AccountsInv
  <2>2. /\ r \in Call /\ r.key \in Keys(r.op) /\ r.pc = "commit" /\ r.op = "enroll"
        /\ r.key = call[c].key /\ r.began = call[c].began /\ Holds(c) /\ Enrolling(c)
    BY <2>1 DEF Call, Progress, CreateAgent, At, Holds, Enrolling
  <2>3. call' = [call EXCEPT ![c] = r] /\ UNCHANGED <<profile, time, accountTables>>
    BY <1>2 DEF CreateAgent, Goto
  <2> HIDE DEF r
  <2>4. call'[c] = r /\ tokens' = tokens
    BY <2>1, <2>3 DEF accountTables
  <2>5. EnrollFits(c)' /\ BootstrapFits(c)'
    BY <2>2, <2>4 DEF EnrollFits, BootstrapFits, At, AccountsInv
  <2>6. profile = "sqlite" => \A d \in Caller \ {c} : ~ Holds(d)
    BY <2>2 DEF AccountsInv, OneWrites
  <2>7. \A d \in Caller \ {c} : ~ (Enrolling(d) /\ call[d].key = r.key)
    BY <2>2 DEF AccountsInv, OneEnrolls
  <2>8. QED
    BY <2>2, <2>3, <2>5, <2>6, <2>7, OneCallMoves
<1>3. QED
  BY <1>1, <1>2 DEF CreateAgent

-----------------------------------------------------------------------------
\* The answer of a call that committed: the other calls go on, and none of
\* them can create an administrator from what it read before.
LEMMA Replied ==
  ASSUME AccountsInv, NEW c \in Caller, NEW reply \in ReplyCode, ReplyCommitted(c, reply)
  PROVE  /\ call' \in [Caller -> Call]
         /\ call'[c].op = "none" /\ call'[c].pc = "idle" /\ call'[c].key = 0
         /\ \A d \in Caller \ {c} :
              /\ call'[d].op = call[d].op /\ call'[d].pc = call[d].pc
              /\ call'[d].key = call[d].key /\ call'[d].began = call[d].began
              /\ At(d, "bootstrap", "create") => ~ call'[d].fresh
<1>1. call \in [Caller -> Call]
  BY TypeParts DEF AccountsInv
<1>2. [NoCall EXCEPT !.answer = reply] \in Call
  BY NoCallType DEF Call
<1>3. ASSUME NEW d \in Caller \ {c}
      PROVE  /\ call'[d] = [call[d] EXCEPT !.fresh = ~ At(d, "bootstrap", "create")]
             /\ call'[d] \in Call
  <2>1. call'[d] = [call[d] EXCEPT !.fresh = ~ At(d, "bootstrap", "create")]
    BY DEF ReplyCommitted
  <2>2. QED
    BY <1>1, <2>1 DEF Call
<1>4. call'[c] = [NoCall EXCEPT !.answer = reply]
  BY DEF ReplyCommitted
<1>5. call' \in [Caller -> Call]
  BY <1>2, <1>3, <1>4 DEF ReplyCommitted
<1>6. call'[c].op = "none" /\ call'[c].pc = "idle" /\ call'[c].key = 0
  BY <1>4 DEF NoCall
<1>7. QED
  BY <1>1, <1>3, <1>5, <1>6 DEF Call

\* What must be shown of a commit.
LEMMA CommitMoves ==
  ASSUME AccountsInv, NEW c \in Caller, NEW reply \in ReplyCode, ReplyCommitted(c, reply),
         UNCHANGED profile, TablesTyped',
         DOMAIN sessions \subseteq DOMAIN sessions', DOMAIN tokens \subseteq DOMAIN tokens',
         DOMAIN agents \subseteq DOMAIN agents',
         \A d \in Caller \ {c} : Enrolling(d) =>
            /\ tokens'[call[d].key].consumed = tokens[call[d].key].consumed
            /\ tokens'[call[d].key].expires = tokens[call[d].key].expires,
         admins' = admins \/ At(c, "bootstrap", "commit"),
         OneAdmin', TokenBehind'
  PROVE  AccountsInv'
<1>1. /\ call' \in [Caller -> Call]
      /\ call'[c].op = "none" /\ call'[c].pc = "idle" /\ call'[c].key = 0
      /\ \A d \in Caller \ {c} :
           /\ call'[d].op = call[d].op /\ call'[d].pc = call[d].pc
           /\ call'[d].key = call[d].key /\ call'[d].began = call[d].began
           /\ At(d, "bootstrap", "create") => ~ call'[d].fresh
  BY Replied
<1>2. \A d \in Caller : (call[d].key \in Keys(call[d].op))'
  <2>1. \A d \in Caller : call[d].key \in Keys(call[d].op)
    BY TypeParts DEF AccountsInv
  <2>2. QED
    BY <1>1, <2>1 DEF Keys
<1>3. AccountsTypeOK'
  BY <1>1, <1>2 DEF AccountsTypeOK, TablesTyped, TokenRow, AgentRow
<1>4. ASSUME NEW d \in Caller PROVE EnrollFits(d)'
  BY <1>1 DEF AccountsInv, EnrollFits, Enrolling
<1>5. ASSUME NEW d \in Caller PROVE BootstrapFits(d)'
  <2>1. CASE d = c
    BY <1>1, <2>1 DEF BootstrapFits, At
  <2>2. CASE d # c
    <3>1. ~ (At(d, "bootstrap", "create")' /\ call'[d].fresh)
      BY <1>1, <2>2 DEF At
    <3>2. At(d, "bootstrap", "commit")' => At(d, "bootstrap", "commit") /\ Holds(d)
      BY <1>1, <2>2 DEF At, Holds
    <3>3. At(c, "bootstrap", "commit") => Holds(c)
      BY DEF At, Holds
    <3>4. At(d, "bootstrap", "commit")' /\ profile = "sqlite" => admins' = admins /\ admins = {}
      BY <2>2, <3>2, <3>3 DEF AccountsInv, OneWrites, BootstrapFits
    <3>5. QED
      BY <3>1, <3>4 DEF BootstrapFits
  <2>3. QED
    BY <2>1, <2>2
<1>6. OneEnrolls'
  BY <1>1 DEF AccountsInv, OneEnrolls, Enrolling
<1>7. OneWrites'
  BY <1>1 DEF AccountsInv, OneWrites, Holds, At
<1>8. QED
  BY <1>3, <1>4, <1>5, <1>6, <1>7 DEF AccountsInv

LEMMA AnswerTypes == {"200", "201", "204", "400", "401", "500"} \subseteq ReplyCode
BY DEF ReplyCode

LEMMA CommitAdminKeeps ==
  ASSUME AccountsInv, NEW c \in Caller, CommitAdmin(c)
  PROVE  AccountsInv'
<1>1. PICK reply \in ReplyCode : ReplyCommitted(c, reply)
  BY AnswerTypes DEF CommitAdmin
<1>2. UNCHANGED <<profile, time, sessions, tokens, agents, leased>> /\ admins' = admins \cup {call[c].key}
  BY DEF CommitAdmin
<1>3. call[c].key \in Email
  BY TypeParts DEF AccountsInv, CommitAdmin, At, Keys
<1>4. TablesTyped'
  BY <1>2, <1>3, TypeParts DEF AccountsInv, TablesTyped, AgentRow
<1>5. At(c, "bootstrap", "commit") /\ (profile = "sqlite" => admins = {})
  BY DEF CommitAdmin, AccountsInv, BootstrapFits
<1>6. OneAdmin'
  BY <1>2, <1>5 DEF OneAdmin
<1>7. TokenBehind'
  BY <1>2 DEF AccountsInv, TokenBehind
<1>8. QED
  BY <1>1, <1>2, <1>4, <1>5, <1>6, <1>7, CommitMoves

LEMMA CreateSessionKeeps ==
  ASSUME AccountsInv, NEW c \in Caller, CreateSession(c)
  PROVE  AccountsInv'
<1> DEFINE row == [admin |-> call[c].key, expires |-> time + SessionDuration]
<1>1. "201" \in ReplyCode /\ ReplyCommitted(c, "201")
  BY AnswerTypes DEF CreateSession
<1>2. UNCHANGED <<profile, time, admins, tokens, agents, leased>> /\ sessions' = Append(sessions, row)
  BY DEF CreateSession
<1>3. call[c].key \in Email /\ TablesTyped
  BY TypeParts DEF AccountsInv, CreateSession, At, Keys
<1>4. row \in [admin : Email, expires : Nat]
  BY <1>3, AccountsAssumption DEF TablesTyped
<1>5. /\ sessions' \in Seq([admin : Email, expires : Nat])
      /\ DOMAIN sessions \subseteq DOMAIN sessions'
  BY <1>2, <1>3, <1>4 DEF TablesTyped
<1>6. TablesTyped'
  BY <1>2, <1>3, <1>5 DEF TablesTyped, AgentRow
<1>7. OneAdmin' /\ TokenBehind'
  BY <1>2 DEF AccountsInv, OneAdmin, TokenBehind
<1>8. QED
  BY <1>1, <1>2, <1>5, <1>6, <1>7, CommitMoves

LEMMA TTLType == ASSUME NEW ttl \in RequestedTTL PROVE EnrollmentTTL(ttl) \in Nat
BY AccountsAssumption DEF EnrollmentTTL

LEMMA CreateTokenKeeps ==
  ASSUME AccountsInv, NEW c \in Caller, CreateEnrollmentToken(c)
  PROVE  AccountsInv'
<1>1. "201" \in ReplyCode /\ ReplyCommitted(c, "201")
  BY AnswerTypes DEF CreateEnrollmentToken
<1>2. UNCHANGED <<profile, time, admins, sessions, agents, leased>> /\ TablesTyped
  BY TypeParts DEF CreateEnrollmentToken, AccountsInv
<1>3. PICK ttl \in RequestedTTL : tokens' = Append(tokens, [expires |-> time + EnrollmentTTL(ttl), consumed |-> FALSE])
  BY DEF CreateEnrollmentToken
<1> DEFINE row == [expires |-> time + EnrollmentTTL(ttl), consumed |-> FALSE]
<1>4. row \in TokenRow /\ row.consumed = FALSE
  BY <1>2, TTLType, AccountsAssumption DEF TablesTyped, TokenRow
<1> DEFINE n == Len(tokens)
<1>5. /\ n \in Nat /\ DOMAIN tokens = 1 .. n
      /\ DOMAIN agents = 1 .. Len(agents)
      /\ \A a \in DOMAIN agents : agents[a].token \in DOMAIN tokens
  BY <1>2, RowNumbers DEF AgentRow
<1> HIDE DEF row
<1>6. /\ tokens' \in Seq(TokenRow) /\ DOMAIN tokens' = 1 .. n + 1
      /\ \A t \in 1 .. n : tokens'[t] = tokens[t]
      /\ tokens'[n + 1] = row
  BY <1>2, <1>3, <1>4 DEF TablesTyped, row
<1>7. DOMAIN tokens \subseteq DOMAIN tokens' /\ n + 1 \notin DOMAIN tokens
  BY <1>5, <1>6
<1>8. TablesTyped'
  <2>1. AgentRow \subseteq AgentRow'
    BY <1>7 DEF AgentRow
  <2>2. agents \in Seq(AgentRow')
    BY <1>2, <2>1, SeqMonotonic DEF TablesTyped
  <2>3. QED
    BY <1>2, <1>6, <2>2 DEF TablesTyped, TokenRow
<1>9. OneAdmin'
  BY <1>2 DEF AccountsInv, OneAdmin
<1>10. TokenBehind'
  <2>1. ASSUME NEW t \in DOMAIN tokens' PROVE tokens'[t].consumed <=> \E a \in DOMAIN agents : agents[a].token = t
    <3>1. CASE t \in 1 .. n
      BY <1>5, <1>6, <3>1 DEF AccountsInv, TokenBehind
    <3>2. CASE t = n + 1
      BY <1>4, <1>5, <1>6, <1>7, <3>2
    <3>3. QED
      BY <1>5, <1>6, <3>1, <3>2
  <2>2. \A a \in DOMAIN agents : tokens'[agents[a].token] = tokens[agents[a].token]
    BY <1>5, <1>6
  <2>3. QED
    BY <1>2, <2>1, <2>2 DEF AccountsInv, TokenBehind
<1>11. \A d \in Caller \ {c} : Enrolling(d) => tokens'[call[d].key] = tokens[call[d].key]
  <2>1. \A d \in Caller : Enrolling(d) => call[d].key \in DOMAIN tokens
    BY TypeParts DEF AccountsInv, Enrolling, Keys
  <2>2. QED
    BY <1>5, <1>6, <2>1
<1>12. QED
  BY <1>1, <1>2, <1>7, <1>8, <1>9, <1>10, <1>11, CommitMoves

-----------------------------------------------------------------------------
LEMMA CommitAgentKeeps ==
  ASSUME AccountsInv, NEW c \in Caller, CommitAgent(c)
  PROVE  AccountsInv'
<1> DEFINE k == call[c].key
<1> DEFINE n == Len(agents)
<1> DEFINE row == [token |-> k, enrolled |-> call[c].began, kinds |-> call[c].kinds, seen |-> 0, revoked |-> FALSE]
<1>1. PICK reply \in ReplyCode : ReplyCommitted(c, reply)
  BY AnswerTypes DEF CommitAgent
<1>2. /\ UNCHANGED <<profile, time, admins, sessions, leased>> /\ TablesTyped
      /\ tokens' = [tokens EXCEPT ![k].consumed = TRUE] /\ agents' = Append(agents, row)
  BY TypeParts DEF CommitAgent, AccountsInv
<1>3. Enrolling(c) /\ ~ tokens[k].consumed /\ call[c].began < tokens[k].expires
  BY DEF CommitAgent, At, Enrolling, AccountsInv, EnrollFits
<1>4. /\ k \in DOMAIN tokens
      /\ call[c] \in Call
  BY TypeParts DEF AccountsInv, CommitAgent, At, Keys
<1>5. row \in AgentRow
  BY <1>4, AccountsAssumption DEF Call, AgentRow
<1> DEFINE m == Len(tokens)
<1>6. /\ n \in Nat /\ DOMAIN agents = 1 .. n /\ m \in Nat /\ DOMAIN tokens = 1 .. m
      /\ \A t \in DOMAIN tokens : tokens[t] \in TokenRow
      /\ \A a \in DOMAIN agents : agents[a] \in AgentRow
  BY <1>2, RowNumbers
<1>7. row.token = k /\ row.enrolled = call[c].began
  OBVIOUS
<1> HIDE DEF row
<1>8. /\ agents' \in Seq(AgentRow) /\ DOMAIN agents' = 1 .. n + 1
      /\ \A a \in 1 .. n : agents'[a] = agents[a]
      /\ agents'[n + 1] = row
  BY <1>2, <1>5 DEF TablesTyped
<1>9. /\ tokens' \in Seq(TokenRow) /\ DOMAIN tokens' = DOMAIN tokens
      /\ tokens'[k].consumed /\ tokens'[k].expires = tokens[k].expires
      /\ \A t \in DOMAIN tokens \ {k} : tokens'[t] = tokens[t]
  <2> DEFINE used == [tokens[k] EXCEPT !.consumed = TRUE]
  <2>1. used \in TokenRow /\ used.consumed /\ used.expires = tokens[k].expires
    BY <1>4, <1>6 DEF TokenRow
  <2>2. tokens' = [tokens EXCEPT ![k] = used] /\ tokens \in Seq(TokenRow) /\ k \in 1 .. m
    BY <1>2, <1>4, <1>6 DEF TablesTyped
  <2> HIDE DEF used
  <2>3. tokens' \in Seq(TokenRow) /\ Len(tokens') = Len(tokens)
    BY <2>1, <2>2, ExceptSeq
  <2>4. DOMAIN tokens' = DOMAIN tokens /\ tokens'[k] = used /\ \A t \in DOMAIN tokens \ {k} : tokens'[t] = tokens[t]
    BY <1>4, <2>2
  <2>5. QED
    BY <2>1, <2>3, <2>4
<1>10. DOMAIN agents \subseteq DOMAIN agents' /\ n + 1 \notin DOMAIN agents
  BY <1>6, <1>8
<1>11. TablesTyped'
  <2>1. AgentRow' = AgentRow
    BY <1>9 DEF AgentRow
  <2>2. leased' \in [WaitingRun -> {0} \cup DOMAIN agents']
    BY <1>2, <1>10 DEF TablesTyped
  <2>3. QED
    BY <1>2, <1>8, <1>9, <2>1, <2>2 DEF TablesTyped, TokenRow
<1>12. OneAdmin'
  BY <1>2 DEF AccountsInv, OneAdmin
<1>13. \A a \in DOMAIN agents : agents[a].token # k
  BY <1>3, <1>4 DEF AccountsInv, TokenBehind
<1>14. TokenBehind'
  <2>1. ASSUME NEW t \in DOMAIN tokens' PROVE tokens'[t].consumed <=> \E a \in DOMAIN agents' : agents'[a].token = t
    <3>1. CASE t = k
      BY <1>7, <1>8, <1>9, <1>6, <3>1
    <3>2. CASE t # k
      <4>1. tokens'[t].consumed <=> \E a \in DOMAIN agents : agents[a].token = t
        BY <1>9, <3>2 DEF AccountsInv, TokenBehind
      <4>2. (\E a \in DOMAIN agents : agents[a].token = t) <=> \E a \in DOMAIN agents' : agents'[a].token = t
        BY <1>6, <1>7, <1>8, <3>2
      <4>3. QED
        BY <4>1, <4>2
    <3>3. QED
      BY <3>1, <3>2
  <2>2. ASSUME NEW a \in DOMAIN agents', NEW b \in DOMAIN agents', agents'[a].token = agents'[b].token PROVE a = b
    <3>1. a \in 1 .. n \/ a = n + 1
      BY <1>6, <1>8
    <3>2. b \in 1 .. n \/ b = n + 1
      BY <1>6, <1>8
    <3>3. QED
      BY <1>6, <1>7, <1>8, <1>13, <2>2, <3>1, <3>2 DEF AccountsInv, TokenBehind
  <2>3. ASSUME NEW a \in DOMAIN agents' PROVE agents'[a].enrolled < tokens'[agents'[a].token].expires
    <3>1. CASE a \in 1 .. n
      <4>1. agents'[a] = agents[a] /\ agents[a].token \in DOMAIN tokens \ {k}
        BY <1>6, <1>8, <1>13, <3>1 DEF AgentRow
      <4>2. QED
        BY <1>6, <1>9, <3>1, <4>1 DEF AccountsInv, TokenBehind
    <3>2. CASE a = n + 1
      BY <1>3, <1>7, <1>8, <1>9, <3>2
    <3>3. QED
      BY <1>6, <1>8, <3>1, <3>2
  <2>4. QED
    BY <2>1, <2>2, <2>3 DEF TokenBehind
<1>15. \A d \in Caller \ {c} : Enrolling(d) =>
         tokens'[call[d].key].consumed = tokens[call[d].key].consumed /\ tokens'[call[d].key].expires = tokens[call[d].key].expires
  <2>1. \A d \in Caller : Enrolling(d) => call[d].key \in DOMAIN tokens
    BY TypeParts DEF AccountsInv, Enrolling, Keys
  <2>2. \A d \in Caller \ {c} : Enrolling(d) => call[d].key # k
    BY <1>3 DEF AccountsInv, OneEnrolls
  <2>3. QED
    BY <1>9, <2>1, <2>2
<1> HIDE DEF k, n, m
<1>16. QED
  BY <1>1, <1>2, <1>9, <1>10, <1>11, <1>12, <1>14, <1>15, CommitMoves

\* A row of an agent changes, but not how it was enrolled.
LEMMA AgentChanges ==
  ASSUME AccountsInv, NEW i \in DOMAIN agents, NEW row \in AgentRow,
         row.token = agents[i].token, row.enrolled = agents[i].enrolled,
         agents' = [agents EXCEPT ![i] = row], UNCHANGED <<profile, admins, sessions, tokens, leased>>, time' \in 0 .. MaxTime
  PROVE  TablesTyped' /\ DOMAIN agents' = DOMAIN agents /\ TokenBehind'
<1>1. TablesTyped /\ agents \in Seq(AgentRow) /\ i \in 1 .. Len(agents)
  BY TypeParts, RowNumbers DEF AccountsInv, TablesTyped
<1>2. agents' \in Seq(AgentRow)
  BY <1>1, ExceptSeq
<1>3. /\ DOMAIN agents' = DOMAIN agents
      /\ \A a \in DOMAIN agents : agents'[a].token = agents[a].token /\ agents'[a].enrolled = agents[a].enrolled
  OBVIOUS
<1>4. TablesTyped'
  BY <1>1, <1>2, <1>3 DEF TablesTyped, AgentRow
<1>5. TokenBehind'
  BY <1>3 DEF AccountsInv, TokenBehind
<1>6. QED
  BY <1>3, <1>4, <1>5

LEMMA HeartbeatKeeps ==
  ASSUME AccountsInv, NEW c \in Caller, UpdateHeartbeat(c)
  PROVE  AccountsInv'
<1> DEFINE k == call[c].key
<1>1. TablesTyped /\ call[c] \in Call /\ k \in DOMAIN agents
  BY TypeParts DEF AccountsInv, UpdateHeartbeat, At, Keys
<1>2. CASE agents[k].revoked
  BY <1>2, ReplyKeeps, AnswerTypes DEF UpdateHeartbeat, accountTables
<1>3. CASE ~ agents[k].revoked
  <2> DEFINE row == [agents[k] EXCEPT !.seen = time, !.kinds = call[c].kinds]
  <2>1. row \in AgentRow /\ row.token = agents[k].token /\ row.enrolled = agents[k].enrolled
    <3>1. time \in Nat /\ call[c].kinds \in SUBSET Kind /\ agents[k] \in AgentRow
      BY <1>1, RowNumbers, AccountsAssumption DEF TablesTyped, Call
    <3> HIDE DEF k
    <3>2. QED
      BY <3>1 DEF AgentRow
  <2>2. /\ "204" \in ReplyCode /\ ReplyCommitted(c, "204")
        /\ agents' = [agents EXCEPT ![k] = row]
        /\ UNCHANGED <<profile, time, admins, sessions, tokens, leased>>
    BY <1>1, <1>3, AnswerTypes DEF UpdateHeartbeat
  <2> HIDE DEF row, k
  <2>3. time' \in 0 .. MaxTime
    BY <1>1, <2>2 DEF TablesTyped
  <2>4. TablesTyped' /\ DOMAIN agents' = DOMAIN agents /\ TokenBehind'
    BY <1>1, <2>1, <2>2, <2>3, AgentChanges
  <2>5. OneAdmin'
    BY <2>2 DEF AccountsInv, OneAdmin
  <2>6. QED
    BY <2>2, <2>4, <2>5, CommitMoves
<1>4. QED
  BY <1>2, <1>3

LEMMA ClaimKeeps ==
  ASSUME AccountsInv, NEW c \in Caller, NEW w \in WaitingRun, ClaimProbe(c, w)
  PROVE  AccountsInv'
<1>1. TablesTyped /\ call[c].key \in DOMAIN agents
  BY TypeParts DEF AccountsInv, ClaimProbe, At, Keys
<1>2. /\ "200" \in ReplyCode /\ ReplyCommitted(c, "200")
      /\ leased' = [leased EXCEPT ![w] = call[c].key]
      /\ UNCHANGED <<profile, time, admins, sessions, tokens, agents>>
  BY AnswerTypes DEF ClaimProbe
<1>3. TablesTyped'
  BY <1>1, <1>2 DEF TablesTyped, AgentRow
<1>4. OneAdmin' /\ TokenBehind'
  BY <1>2 DEF AccountsInv, OneAdmin, TokenBehind
<1>5. QED
  BY <1>2, <1>3, <1>4, CommitMoves

\* Nobody's call: an operator revokes an agent, time passes.
LEMMA CallsStay ==
  ASSUME AccountsInv, UNCHANGED <<profile, call, admins, sessions, tokens>>, TablesTyped',
         DOMAIN agents' = DOMAIN agents, TokenBehind'
  PROVE  AccountsInv'
<1>1. AccountsTypeOK'
  <2>1. call' \in [Caller -> Call] /\ \A c \in Caller : (call[c].key \in Keys(call[c].op))'
    BY TypeParts DEF AccountsInv, Keys
  <2>2. QED
    BY <2>1 DEF AccountsTypeOK, TablesTyped, TokenRow, AgentRow
<1>2. OneAdmin' /\ \A c \in Caller : EnrollFits(c)' /\ BootstrapFits(c)'
  BY DEF AccountsInv, OneAdmin, EnrollFits, BootstrapFits, Enrolling, At
<1>3. OneEnrolls' /\ OneWrites'
  BY DEF AccountsInv, OneEnrolls, OneWrites, Enrolling, Holds, At
<1>4. QED
  BY <1>1, <1>2, <1>3 DEF AccountsInv

LEMMA RevokeKeeps ==
  ASSUME AccountsInv, NEW i \in DOMAIN agents, Revoke(i)
  PROVE  AccountsInv'
<1> DEFINE row == [agents[i] EXCEPT !.revoked = TRUE]
<1>1. TablesTyped
  BY TypeParts DEF AccountsInv
<1>2. row \in AgentRow /\ row.token = agents[i].token /\ row.enrolled = agents[i].enrolled
  BY <1>1, RowNumbers DEF AgentRow
<1>3. agents' = [agents EXCEPT ![i] = row] /\ UNCHANGED <<profile, time, admins, sessions, tokens, leased, call>>
  BY DEF Revoke
<1> HIDE DEF row
<1>4. time' \in 0 .. MaxTime
  BY <1>1, <1>3 DEF TablesTyped
<1>5. QED
  BY <1>2, <1>3, <1>4, AgentChanges, CallsStay

LEMMA PassKeeps == ASSUME AccountsInv, Pass PROVE AccountsInv'
<1>1. TablesTyped /\ time' \in 0 .. MaxTime /\ UNCHANGED <<profile, admins, sessions, tokens, agents, leased, call>>
  BY TypeParts, AccountsAssumption DEF AccountsInv, TablesTyped, Pass, accountTables
<1>2. TablesTyped' /\ TokenBehind'
  BY <1>1 DEF AccountsInv, TablesTyped, AgentRow, TokenBehind
<1>3. QED
  BY <1>1, <1>2, CallsStay

-----------------------------------------------------------------------------
LEMMA AccountsInvInit == AccountsInit => AccountsInv
<1> SUFFICES ASSUME AccountsInit PROVE AccountsInv
  OBVIOUS
<1>1. AccountsTypeOK
  <2>1. 0 \in 0 .. MaxTime
    BY AccountsAssumption
  <2>2. TablesTyped
    BY <2>1, EmptySeq DEF AccountsInit, TablesTyped
  <2>3. call \in [Caller -> Call] /\ \A c \in Caller : call[c].key \in Keys(call[c].op)
    BY NoCallType DEF AccountsInit, Keys, NoCall
  <2>4. QED
    BY <2>2, <2>3, TypeParts
<1>2. \A c \in Caller : EnrollFits(c) /\ BootstrapFits(c) /\ ~ Enrolling(c) /\ ~ Holds(c)
  BY DEF AccountsInit, NoCall, EnrollFits, BootstrapFits, Enrolling, Holds, At
<1>3. OneEnrolls /\ OneWrites
  BY <1>2 DEF OneEnrolls, OneWrites
<1>4. OneAdmin /\ TokenBehind
  BY DEF AccountsInit, OneAdmin, TokenBehind
<1>5. QED
  BY <1>1, <1>2, <1>3, <1>4 DEF AccountsInv

LEMMA AsksKeep ==
  ASSUME AccountsInv, NEW c \in Caller, Asks(c)
  PROVE  AccountsInv'
<1>1. /\ {"bootstrap", "login", "issue", "enroll", "heartbeat", "lease"} \subseteq Operation
      /\ {"count", "find", "authenticate", "consume"} \subseteq Progress \ {"create", "commit"}
  BY DEF Operation, Progress
<1>2. ASSUME NEW email \in Email, StartBootstrap(c, email) \/ StartLogin(c, email) PROVE AccountsInv'
  <2>1. email \in Keys("bootstrap") /\ email \in Keys("login") /\ {} \in SUBSET Kind
    BY DEF Keys
  <2>2. QED
    BY <1>1, <1>2, <2>1, BeginKeeps DEF StartBootstrap, StartLogin
<1>3. ASSUME NEW s \in DOMAIN sessions, StartIssue(c, s) PROVE AccountsInv'
  <2>1. s \in Keys("issue") /\ {} \in SUBSET Kind
    BY DEF Keys
  <2>2. QED
    BY <1>1, <1>3, <2>1, BeginKeeps DEF StartIssue
<1>4. ASSUME NEW t \in DOMAIN tokens, NEW kinds \in SUBSET Kind, StartEnroll(c, t, kinds) PROVE AccountsInv'
  <2>1. t \in Keys("enroll")
    BY DEF Keys
  <2>2. QED
    BY <1>1, <1>4, <2>1, BeginKeeps DEF StartEnroll
<1>5. ASSUME NEW a \in DOMAIN agents, NEW kinds \in SUBSET Kind, StartHeartbeat(c, a, kinds) \/ StartLease(c, a, kinds)
      PROVE  AccountsInv'
  <2>1. a \in Keys("heartbeat") /\ a \in Keys("lease")
    BY DEF Keys
  <2>2. QED
    BY <1>1, <1>5, <2>1, BeginKeeps DEF StartHeartbeat, StartLease
<1>6. QED
  BY <1>2, <1>3, <1>4, <1>5 DEF Asks

LEMMA ServeKeeps ==
  ASSUME AccountsInv, NEW c \in Caller, Serve(c)
  PROVE  AccountsInv'
BY ReadsKeep, CountKeeps, CreateAdminKeeps, CommitAdminKeeps, CreateSessionKeeps, CreateTokenKeeps, ConsumeKeeps,
   CreateAgentKeeps, CommitAgentKeeps, HeartbeatKeeps, ClaimKeeps DEF Serve

LEMMA AccountsInvStep == AccountsInv /\ [AccountsNext]_accountVars => AccountsInv'
<1> SUFFICES ASSUME AccountsInv, [AccountsNext]_accountVars PROVE AccountsInv'
  OBVIOUS
<1>1. CASE UNCHANGED accountVars
  <2>1. UNCHANGED <<profile, time, admins, sessions, tokens, agents, leased, call>>
    BY <1>1 DEF accountVars, accountTables
  <2>2. TablesTyped' /\ TokenBehind'
    BY <2>1, TypeParts DEF AccountsInv, TablesTyped, AgentRow, TokenBehind
  <2>3. QED
    BY <2>1, <2>2, CallsStay
<1>2. ASSUME NEW c \in Caller, Asks(c) \/ Serve(c) \/ Fail(c) PROVE AccountsInv'
  BY <1>2, AsksKeep, ServeKeeps, ReadsKeep
<1>3. ASSUME NEW a \in DOMAIN agents, Revoke(a) PROVE AccountsInv'
  BY <1>3, RevokeKeeps
<1>4. QED
  BY <1>1, <1>2, <1>3, PassKeeps DEF AccountsNext

\* AccountsInv is inductive: the keys of PostgreSQL, the lock of SQLite and its
\* refusal of an old snapshot are enough for what follows.
THEOREM AccountsInvariance == AccountsSpec => []AccountsInv
<1>1. QED
  BY AccountsInvInit, AccountsInvStep, PTL DEF AccountsSpec

\* Rows and calls stay well-formed: every credential and every token in use
\* names a row, for none is ever deleted.
THEOREM AccountsTypes == AccountsSpec => []AccountsTypeOK
<1>1. AccountsInv => AccountsTypeOK
  BY DEF AccountsInv
<1>2. QED
  BY <1>1, AccountsInvariance, PTL

\* On the profiles with serial transactions any number of bootstrap commands
\* create one administrator at most (BootstrapAdmin counts and creates in one
\* transaction, which SQLite refuses to let write from an old snapshot).
THEOREM AccountsSingleAdministrator == AccountsSpec => []SingleAdministrator
<1>1. AccountsInv => SingleAdministrator
  <2> SUFFICES ASSUME AccountsInv, profile = "sqlite" PROVE Cardinality(admins) <= 1
    BY DEF SingleAdministrator
  <2>1. CASE admins = {}
    BY <2>1, FS_EmptySet
  <2>2. CASE admins # {}
    <3>1. PICK e \in admins : admins = {e}
      BY <2>2 DEF AccountsInv, OneAdmin
    <3>2. QED
      BY <3>1, FS_Singleton, SMTT(30)
  <2>3. QED
    BY <2>1, <2>2
<1>2. QED
  BY <1>1, AccountsInvariance, PTL

\* A token is behind one agent exactly when it is consumed, and was valid when
\* the enrollment began, on both profiles (Consume and Create are in one
\* transaction; the UPDATE of a token excludes others of it).
THEOREM AccountsEnrolledOnce == AccountsSpec => []EnrolledOnce
<1>1. AccountsInv => EnrolledOnce
  <2> SUFFICES ASSUME AccountsInv PROVE EnrolledOnce
    OBVIOUS
  <2>1. ASSUME NEW t \in DOMAIN tokens
        PROVE  Cardinality({a \in DOMAIN agents : agents[a].token = t}) = (IF tokens[t].consumed THEN 1 ELSE 0)
    <3> DEFINE behind == {a \in DOMAIN agents : agents[a].token = t}
    <3>1. CASE tokens[t].consumed
      <4>1. PICK a \in DOMAIN agents : agents[a].token = t
        BY <3>1 DEF AccountsInv, TokenBehind
      <4>2. behind = {a}
        BY <4>1 DEF AccountsInv, TokenBehind
      <4>3. QED
        BY <3>1, <4>2, FS_Singleton
    <3>2. CASE ~ tokens[t].consumed
      <4>1. behind = {}
        BY <3>2 DEF AccountsInv, TokenBehind
      <4>2. QED
        BY <3>2, <4>1, FS_EmptySet
    <3>3. QED
      BY <3>1, <3>2
  <2>2. QED
    BY <2>1 DEF EnrolledOnce, AccountsInv, TokenBehind
<1>2. QED
  BY <1>1, AccountsInvariance, PTL

\* What a call may still do for a revoked agent: nothing, whatever it read
\* before (the guards of the UPDATE of a heartbeat and of the claim).
THEOREM AccountsNothingAfterRevocation == AccountsSpec => NothingAfterRevocation
<1> DEFINE Unmoved == \A a \in DOMAIN agents :
                     agents[a].revoked => /\ agents'[a] = agents[a]
                                          /\ \A w \in WaitingRun : leased'[w] = a => leased[w] = a
<1>1. ASSUME AccountsInv, AccountsNext PROVE Unmoved
  <2>1. agents \in Seq(AgentRow) /\ DOMAIN agents = 1 .. Len(agents) /\ Len(agents) \in Nat
        /\ leased \in [WaitingRun -> {0} \cup DOMAIN agents]
    BY <1>1, TypeParts, RowNumbers DEF AccountsInv, TablesTyped
  <2>2. CASE UNCHANGED <<agents, leased>>
    BY <2>2
  <2>3. ASSUME NEW c \in Caller, CommitAgent(c) PROVE Unmoved
    <3>1. leased' = leased /\ \A a \in DOMAIN agents : agents'[a] = agents[a]
      BY <2>1, <2>3 DEF CommitAgent
    <3>2. QED
      BY <3>1
  <2>4. ASSUME NEW c \in Caller, UpdateHeartbeat(c) PROVE Unmoved
    BY <2>4 DEF UpdateHeartbeat
  <2>5. ASSUME NEW c \in Caller, NEW w \in WaitingRun, ClaimProbe(c, w) PROVE Unmoved
    BY <2>1, <2>5 DEF ClaimProbe, ClaimantActive
  <2>6. ASSUME NEW i \in DOMAIN agents, Revoke(i) PROVE Unmoved
    BY <2>6 DEF Revoke
  <2>7. ASSUME NEW c \in Caller, Asks(c) \/ Fail(c) PROVE UNCHANGED <<agents, leased>>
    BY <2>7
       DEF Asks, Fail, Begin, StartBootstrap, StartLogin, StartIssue, StartEnroll, StartHeartbeat, StartLease, accountTables
  <2>8. ASSUME NEW c \in Caller, Serve(c)
        PROVE  \/ UNCHANGED <<agents, leased>>
               \/ CommitAgent(c) \/ UpdateHeartbeat(c) \/ \E w \in WaitingRun : ClaimProbe(c, w)
    BY <2>8
       DEF Serve, CountAdmins, CreateAdmin, CommitAdmin, FindAdmin, CreateSession, AuthenticateSession, FindLocation,
           CreateEnrollmentToken, ConsumeToken, CreateAgent, Authenticate, OldGeneration, LoadAgent, NoWork, accountTables
  <2>9. Pass => UNCHANGED <<agents, leased>>
    BY DEF Pass, accountTables
  <2> HIDE DEF Unmoved
  <2>10. QED
    BY <1>1, <2>2, <2>3, <2>4, <2>5, <2>6, <2>7, <2>8, <2>9 DEF AccountsNext
<1>2. AccountsInv /\ [AccountsNext]_accountVars => [Unmoved]_accountVars
  BY <1>1
<1>3. QED
  BY <1>2, AccountsInvariance, PTL DEF AccountsSpec, NothingAfterRevocation

-----------------------------------------------------------------------------
(***************************************************************************)
(* Configuration, for texts of any length.                                 *)
(***************************************************************************)
\* A text without blanks at its ends.
Trimmed(text) == text = <<>> \/ (text[1] # " " /\ text[Len(text)] # " ")

LEMMA TrimmedIsTrim ==
  ASSUME NEW text \in Text, Trimmed(text)
  PROVE  Trim(text) = text
<1> DEFINE solid == {i \in DOMAIN text : text[i] # " "}
<1>0. Len(text) \in Nat /\ DOMAIN text = 1 .. Len(text)
  BY LenProperties DEF Text
<1>1. CASE text = <<>>
  <2>1. solid = {}
    BY <1>1
  <2>2. QED
    BY <1>1, <2>1 DEF Trim
<1>2. CASE text # <<>>
  <2>1. Len(text) # 0
    BY <1>2, EmptySeq DEF Text
  <2>2. 1 \in solid /\ Len(text) \in solid /\ \A i \in solid : i \in 1 .. Len(text)
    <3>1. 1 \in 1 .. Len(text) /\ Len(text) \in 1 .. Len(text)
      BY <1>0, <2>1
    <3>2. text[1] # " " /\ text[Len(text)] # " "
      BY <1>2 DEF Trimmed
    <3>3. QED
      BY <1>0, <3>1, <3>2, Zenon
  <2> HIDE DEF solid
  <2>3. (CHOOSE i \in solid : \A j \in solid : i <= j) = 1
    BY <1>0, <2>2
  <2>4. (CHOOSE i \in solid : \A j \in solid : i >= j) = Len(text)
    BY <1>0, <2>2
  <2>5. Trim(text) = SubSeq(text, 1, Len(text))
    BY <2>2, <2>3, <2>4 DEF Trim, solid
  <2>6. QED
    BY <2>5, <1>0, SubSeqFull DEF Text
<1>3. QED
  BY <1>1, <1>2

\* The part of a sequence between two of its elements.
LEMMA PartOfSeq ==
  ASSUME NEW S, NEW s \in Seq(S), NEW first \in Int, NEW last \in Int,
         1 <= first, first <= last, last <= Len(s)
  PROVE  /\ SubSeq(s, first, last) \in Seq(S)
         /\ Len(SubSeq(s, first, last)) = last - first + 1
         /\ SubSeq(s, first, last)[1] = s[first]
         /\ SubSeq(s, first, last)[last - first + 1] = s[last]
<1>0. Len(s) \in Nat
  BY LenProperties
<1>1. \A i \in first .. last : i \in 1 .. Len(s)
  BY <1>0
<1>2. \A i \in first .. last : s[i] \in S
  BY <1>1, ElementOfSeq
<1>3. /\ SubSeq(s, first, last) \in Seq(S)
      /\ Len(SubSeq(s, first, last)) = IF first <= last THEN last - first + 1 ELSE 0
      /\ \A i \in 1 .. last - first + 1 : SubSeq(s, first, last)[i] = s[first + i - 1]
  BY <1>2, SubSeqProperties
<1>4. QED
  BY <1>3

LEMMA PartOfText ==
  ASSUME NEW text \in Text, NEW first \in Int, NEW last \in Int,
         1 <= first, first <= last, last <= Len(text)
  PROVE  /\ SubSeq(text, first, last) \in Text
         /\ Len(SubSeq(text, first, last)) = last - first + 1
         /\ SubSeq(text, first, last)[1] = text[first]
         /\ SubSeq(text, first, last)[last - first + 1] = text[last]
BY PartOfSeq, ZenonT(30) DEF Text

\* A length that is neither nothing nor one.
LEMMA AtLeastTwo ==
  ASSUME NEW n \in Nat, n # 0, n # 1
  PROVE  n > 1 /\ 1 \in Int /\ n - 1 \in Int /\ 1 <= n - 1 /\ n - 1 <= n /\ n - 1 - 1 + 1 = n - 1
OBVIOUS

LEMMA TrimTrims ==
  ASSUME NEW text \in Text
  PROVE  Trim(text) \in Text /\ Trimmed(Trim(text))
<1> DEFINE solid == {i \in DOMAIN text : text[i] # " "}
<1>0. Len(text) \in Nat /\ DOMAIN text = 1 .. Len(text)
  BY LenProperties DEF Text
<1>1. CASE solid = {}
  <2>1. Trim(text) = <<>>
    BY <1>1 DEF Trim
  <2>2. <<>> \in Text
    BY EmptySeq DEF Text
  <2>3. QED
    BY <2>1, <2>2 DEF Trimmed
<1>2. CASE solid # {}
  <2> DEFINE first == CHOOSE i \in solid : \A j \in solid : i <= j
  <2> DEFINE last == CHOOSE i \in solid : \A j \in solid : i >= j
  <2> DEFINE m == Len(text)
  <2>0. solid \subseteq 1 .. m
    BY <1>0, Zenon
  <2>1. \A i \in solid : text[i] # " "
    OBVIOUS
  <2>2. m \in Nat
    BY <1>0
  <2>3. Trim(text) = SubSeq(text, first, last)
    BY <1>2 DEF Trim
  <2> HIDE DEF solid, m
  <2>4. solid \subseteq Nat /\ \A i \in solid : i <= m
    BY <2>0, <2>2
  <2>5. first \in solid /\ \A j \in solid : first <= j
    <3>1. \E i \in solid : \A j \in solid : i <= j
      BY <1>2, <2>4, LeastNatural
    <3>2. QED
      BY <3>1
  <2>6. last \in solid
    <3>1. \E i \in solid : \A j \in solid : i >= j
      <4>1. PICK i \in solid : \A j \in solid : j <= i
        BY <1>2, <2>2, <2>4, GreatestNatural
      <4>2. QED
        BY <2>4, <4>1
    <3>2. QED
      BY <3>1
  <2> HIDE DEF first, last
  <2>7. first \in 1 .. m /\ last \in first .. m /\ first \in Int /\ last \in Int /\ first <= last
    BY <2>0, <2>2, <2>4, <2>5, <2>6
  <2>8. text[first] # " " /\ text[last] # " "
    BY <2>1, <2>5, <2>6
  <2>9. 1 <= first /\ last <= Len(text)
    BY <2>2, <2>7 DEF m
  <2> DEFINE part == SubSeq(text, first, last)
  <2>10. part \in Text /\ Len(part) = last - first + 1 /\ part[1] = text[first] /\ part[last - first + 1] = text[last]
    BY <2>7, <2>9, PartOfText, Zenon
  <2> HIDE DEF part
  <2>11. Trimmed(part)
    BY <2>8, <2>10, Zenon DEF Trimmed
  <2>12. QED
    BY <2>3, <2>10, <2>11 DEF part
<1>3. QED
  BY <1>1, <1>2

-----------------------------------------------------------------------------
\* A trimmed text without its final dot is trimmed once more by nothing, unless
\* it ended in two dots or in a dot after a blank.
LEMMA SettledIsNormal ==
  ASSUME NEW asked \in Text, Settles(asked)
  PROVE  NormalizeDNSName(NormalizeDNSName(asked)) = NormalizeDNSName(asked)
<1> DEFINE t == Trim(asked)
<1> DEFINE n == SubSeq(t, 1, Len(t) - 1)
<1>0. t \in Text /\ Trimmed(t) /\ Len(t) \in Nat
  BY TrimTrims, LenProperties DEF Text
<1>1. ~ (Len(t) > 1 /\ t[Len(t)] = "." /\ t[Len(t) - 1] \in {".", " "})
  BY DEF Settles
<1>2. NormalizeDNSName(asked) = TrimDot(t)
  BY DEF NormalizeDNSName
<1> HIDE DEF t
<1>3. CASE ~ (t # <<>> /\ t[Len(t)] = ".")
  <2>1. TrimDot(t) = t
    BY <1>3 DEF TrimDot
  <2>2. Trim(t) = t
    BY <1>0, TrimmedIsTrim
  <2>3. QED
    BY <1>2, <2>1, <2>2 DEF NormalizeDNSName
<1>4. CASE t # <<>> /\ t[Len(t)] = "."
  <2>0. Len(t) # 0
    BY <1>0, <1>4, EmptySeq DEF Text
  <2>1. TrimDot(t) = n
    BY <1>4 DEF TrimDot
  <2>2. CASE Len(t) = 1
    <3>1. n = <<>>
      BY <2>2, SubSeqEmpty
    <3>2. Trim(<<>>) = <<>> /\ TrimDot(<<>>) = <<>>
      <4>1. <<>> \in Text
        BY EmptySeq DEF Text
      <4>2. QED
        BY <4>1, TrimmedIsTrim DEF Trimmed, TrimDot
    <3> HIDE DEF n
    <3>3. QED
      BY <1>2, <2>1, <3>1, <3>2 DEF NormalizeDNSName
  <2>3. CASE Len(t) # 1
    <3>1. 1 \in Int /\ Len(t) - 1 \in Int /\ 1 <= Len(t) - 1 /\ Len(t) - 1 <= Len(t)
      BY <1>0, <2>0, <2>3, AtLeastTwo, Zenon
    <3> DEFINE last == Len(t) - 1
    <3>a. last \in Int /\ 1 <= last /\ last <= Len(t) /\ 1 \in Int /\ 1 <= 1
      BY <3>1
    <3> HIDE DEF last
    <3>b. /\ SubSeq(t, 1, last) \in Text
          /\ Len(SubSeq(t, 1, last)) = last - 1 + 1
          /\ SubSeq(t, 1, last)[1] = t[1]
          /\ SubSeq(t, 1, last)[last - 1 + 1] = t[last]
      BY <1>0, <3>a, PartOfText, Zenon
    <3>2. n \in Text /\ Len(n) = last - 1 + 1 /\ n[1] = t[1] /\ n[last - 1 + 1] = t[Len(t) - 1]
      BY <3>b, Zenon DEF last
    <3>3. Len(t) > 1
      BY <1>0, <2>0, <2>3, AtLeastTwo, Zenon
    <3>4. t[Len(t) - 1] # "." /\ t[Len(t) - 1] # " " /\ t[1] # " "
      <4>1. t[Len(t) - 1] \notin {".", " "}
        BY <1>1, <1>4, <3>3, Zenon
      <4>2. t[1] # " "
        BY <1>0, <1>4, Zenon DEF Trimmed
      <4>3. QED
        BY <4>1, <4>2, Zenon
    <3> HIDE DEF n
    <3>5. Trimmed(n)
      BY <3>2, <3>4, Zenon DEF Trimmed
    <3>6. Trim(n) = n
      BY <3>2, <3>5, TrimmedIsTrim
    <3>7. TrimDot(n) = n
      BY <3>2, <3>4, Zenon DEF TrimDot
    <3>8. QED
      BY <1>2, <2>1, <3>6, <3>7 DEF NormalizeDNSName
  <2>4. QED
    BY <2>2, <2>3
<1>5. QED
  BY <1>3, <1>4

LEMMA TrimOnce ==
  ASSUME NEW text \in Text
  PROVE  Trim(Trim(text)) = Trim(text)
BY TrimTrims, TrimmedIsTrim

\* What the constructor makes, field by field.
RowOf(kind, name, asked, interval, timeout, failures, recoveries, secret) ==
  [kind |-> kind, name |-> name, target |-> asked, interval |-> interval, timeout |-> timeout,
   failures |-> failures, recoveries |-> recoveries, secret |-> secret]

LEMMA NormalizedFields ==
  ASSUME NEW kind, NEW name, NEW asked, NEW interval, NEW timeout, NEW failures, NEW recoveries, NEW secret,
         NEW host, host = IF kind = "http" THEN asked ELSE NormalizeDNSName(asked)
  PROVE  Normalized(RowOf(kind, name, asked, interval, timeout, failures, recoveries, secret))
         = RowOf(kind, Trim(name), host, interval, timeout, failures, recoveries, secret)
<1> DEFINE q == RowOf(kind, name, asked, interval, timeout, failures, recoveries, secret)
<1> DEFINE n == Trim(name)
<1> DEFINE p == [q EXCEPT !.name = n]
<1>1. q = [kind |-> kind, name |-> name, target |-> asked, interval |-> interval, timeout |-> timeout,
           failures |-> failures, recoveries |-> recoveries, secret |-> secret]
  BY DEF RowOf
<1>2. q.name = name /\ q.kind = kind /\ q.target = asked
  BY DEF RowOf
<1> HIDE DEF q
<1>3. Normalized(q) = [q EXCEPT !.name = n, !.target = host]
  BY <1>2 DEF Normalized
<1> HIDE DEF n
<1>4. p = [kind |-> kind, name |-> n, target |-> asked, interval |-> interval, timeout |-> timeout,
           failures |-> failures, recoveries |-> recoveries, secret |-> secret]
  BY <1>1
<1>5. [q EXCEPT !.name = n, !.target = host] = [p EXCEPT !.target = host]
  OBVIOUS
<1> HIDE DEF p
<1>6. [p EXCEPT !.target = host] = RowOf(kind, n, host, interval, timeout, failures, recoveries, secret)
  BY <1>4 DEF RowOf
<1>7. QED
  BY <1>3, <1>5, <1>6, Zenon DEF q, n

\* The constructor accepts what it made, and makes the same of it.
LEMMA NormalizedOnce ==
  ASSUME NEW q \in Request, ValidMonitor(q), q.kind = "http" \/ Settles(q.target)
  PROVE  Readable(Normalized(q)) /\ Read(Normalized(q)) = Normalized(q)
<1>0. q \in [kind : {"http", "tcp", "dns"}, name : Text, target : Text, interval : Nat, timeout : Nat,
             failures : Nat, recoveries : Nat, secret : BOOLEAN]
  BY RequestAssumption
<1>1. PICK kind, name, asked, interval, timeout, failures, recoveries, secret :
        /\ name \in Text /\ asked \in Text
        /\ q = [kind |-> kind, name |-> name, target |-> asked, interval |-> interval, timeout |-> timeout,
                failures |-> failures, recoveries |-> recoveries, secret |-> secret]
  BY <1>0
<1> DEFINE host == IF kind = "http" THEN asked ELSE NormalizeDNSName(asked)
<1> DEFINE m == RowOf(kind, Trim(name), host, interval, timeout, failures, recoveries, secret)
<1>2. Normalized(q) = m
  <2>1. q = RowOf(kind, name, asked, interval, timeout, failures, recoveries, secret)
    BY <1>1 DEF RowOf
  <2>2. host = IF kind = "http" THEN asked ELSE NormalizeDNSName(asked)
    OBVIOUS
  <2> HIDE DEF host
  <2>3. Normalized(RowOf(kind, name, asked, interval, timeout, failures, recoveries, secret)) = m
    BY <2>2, NormalizedFields
  <2>4. QED
    BY <2>1, <2>3
<1>3. Trim(Trim(name)) = Trim(name)
  BY <1>1, TrimOnce
<1>4. kind # "http" => NormalizeDNSName(host) = host
  <2>1. SUFFICES ASSUME kind # "http" PROVE NormalizeDNSName(host) = host
    OBVIOUS
  <2>2. Settles(asked)
    BY <1>1, <2>1
  <2>3. host = NormalizeDNSName(asked)
    BY <2>1
  <2> HIDE DEF host
  <2>4. QED
    BY <1>1, <2>2, <2>3, SettledIsNormal
<1>5. /\ Trim(name) # <<>> /\ (kind # "http" => host # <<>>)
      /\ 0 < timeout /\ timeout < interval * 1000 /\ failures > 0 /\ recoveries > 0
  BY <1>1 DEF ValidMonitor
<1> HIDE DEF host
<1>6. Readable(m)
  BY <1>3, <1>4, <1>5 DEF Readable, ValidMonitor, RowOf
<1>7. Read(m) = m
  <2>1. host = IF kind = "http" THEN host ELSE NormalizeDNSName(host)
    BY <1>4
  <2>2. Normalized(m) = RowOf(kind, Trim(Trim(name)), host, interval, timeout, failures, recoveries, secret)
    BY <2>1, NormalizedFields
  <2>3. QED
    BY <1>3, <2>2 DEF Read
<1>8. QED
  BY <1>2, <1>6, <1>7

\* Every row is what the constructor made of an accepted request.
RowsAreMade ==
  /\ monitors \in Seq([row : {Normalized(q) : q \in Request}, due : BOOLEAN, asked : Text])
  /\ \A i \in DOMAIN monitors :
       \E q \in Request : ValidMonitor(q) /\ monitors[i].row = Normalized(q) /\ monitors[i].asked = q.target

Stored(q) == [row |-> Normalized(q), due |-> TRUE, asked |-> q.target]

LEMMA RowsAreMadeInductive ==
  ASSUME RowsAreMade, [ConfigurationNext]_configurationVars
  PROVE  RowsAreMade'
<1> DEFINE Row == [row : {Normalized(q) : q \in Request}, due : BOOLEAN, asked : Text]
<1>0. monitors \in Seq(Row) /\ Len(monitors) \in Nat /\ DOMAIN monitors = 1 .. Len(monitors)
  BY LenProperties DEF RowsAreMade
<1>1. CASE monitors' = monitors
  BY <1>1 DEF RowsAreMade
<1>2. ASSUME NEW q \in Request, ValidMonitor(q), monitors' = Append(monitors, Stored(q)) PROVE RowsAreMade'
  <2>1. Stored(q) \in Row
    <3>1. q.target \in Text
      BY RequestAssumption
    <3>2. QED
      BY <3>1 DEF Stored
  <2> HIDE DEF Row
  <2>2. monitors' \in Seq(Row) /\ Len(monitors') = Len(monitors) + 1
        /\ (\A i \in 1 .. Len(monitors) : monitors'[i] = monitors[i]) /\ monitors'[Len(monitors) + 1] = Stored(q)
    BY <1>0, <1>2, <2>1, AppendProperties
  <2>3. DOMAIN monitors' = 1 .. Len(monitors')
    BY <2>2, LenProperties
  <2>4. ASSUME NEW i \in DOMAIN monitors'
        PROVE  \E r \in Request : ValidMonitor(r) /\ monitors'[i].row = Normalized(r) /\ monitors'[i].asked = r.target
    <3>1. CASE i = Len(monitors) + 1
      BY <1>2, <2>2, <3>1 DEF Stored
    <3>2. CASE i # Len(monitors) + 1
      <4>1. i \in 1 .. Len(monitors)
        BY <1>0, <2>2, <2>3, <3>2
      <4>2. QED
        BY <1>0, <2>2, <4>1 DEF RowsAreMade
    <3>3. QED
      BY <3>1, <3>2
  <2>5. QED
    BY <2>2, <2>4 DEF RowsAreMade, Row
\* A step that only changes what is due.
<1>3. ASSUME DOMAIN monitors' = DOMAIN monitors, monitors' \in Seq(Row),
             \A i \in DOMAIN monitors : monitors'[i].row = monitors[i].row /\ monitors'[i].asked = monitors[i].asked
      PROVE  RowsAreMade'
  BY <1>3 DEF RowsAreMade
<1>4. ASSUME NEW name, CreateLocation(name) PROVE RowsAreMade'
  BY <1>1, <1>4 DEF CreateLocation
<1>5. ASSUME NEW request \in Request, CreateMonitor(request) PROVE RowsAreMade'
  <2>1. \/ UNCHANGED monitors
        \/ ValidMonitor(request) /\ monitors' = Append(monitors, Stored(request))
    BY <1>5 DEF CreateMonitor, Stored
  <2>2. QED
    BY <1>1, <1>2, <2>1
<1>6. ASSUME NEW i, GetMonitor(i) PROVE RowsAreMade'
  BY <1>1, <1>6 DEF GetMonitor
<1>7. ASSUME NEW T, NEW v \in BOOLEAN,
             monitors' = [i \in DOMAIN monitors |->
                            IF i \in T THEN [monitors[i] EXCEPT !.due = v] ELSE monitors[i]]
      PROVE  RowsAreMade'
  <2>1. ASSUME NEW i \in DOMAIN monitors
        PROVE  /\ [monitors[i] EXCEPT !.due = v] \in Row /\ monitors[i] \in Row
               /\ [monitors[i] EXCEPT !.due = v].row = monitors[i].row
               /\ [monitors[i] EXCEPT !.due = v].asked = monitors[i].asked
    <3>1. monitors[i] \in Row
      BY <1>0, <2>1, ElementOfSeq
    <3>2. QED
      BY <3>1
  <2> HIDE DEF Row
  <2>2. monitors' \in [1 .. Len(monitors) -> Row]
    BY <1>0, <1>7, <2>1
  <2>3. monitors' \in Seq(Row)
    BY <1>0, <2>2, SeqDef
  <2>4. QED
    BY <1>3, <1>7, <2>1, <2>3
<1>8. ASSUME NEW i \in DOMAIN monitors, IntervalPasses(i) PROVE RowsAreMade'
  <2>1. monitors' = [j \in DOMAIN monitors |->
                       IF j \in {i} THEN [monitors[j] EXCEPT !.due = TRUE] ELSE monitors[j]]
    BY <1>8 DEF IntervalPasses
  <2>2. QED
    BY <1>7, <2>1
<1>9. CASE EnqueueDue
  <2>1. monitors' = [j \in DOMAIN monitors |->
                       IF j \in DOMAIN monitors THEN [monitors[j] EXCEPT !.due = FALSE] ELSE monitors[j]]
    BY <1>9 DEF EnqueueDue
  <2>2. QED
    BY <1>7, <2>1
<1>10. CASE UNCHANGED configurationVars
  BY <1>1, <1>10 DEF configurationVars
<1>11. QED
  BY <1>4, <1>5, <1>6, <1>8, <1>9, <1>10 DEF ConfigurationNext

\* Whatever is created, updated, enabled and read: every stored monitor is what
\* NewMonitor made of an accepted request.
THEOREM ConfigurationInvariance == ConfigurationSpec => []RowsAreMade
<1>1. ConfigurationInit => RowsAreMade
  BY EmptySeq DEF ConfigurationInit, RowsAreMade
<1>2. RowsAreMade /\ [ConfigurationNext]_configurationVars => RowsAreMade'
  BY RowsAreMadeInductive
<1>3. QED
  BY <1>1, <1>2, PTL DEF ConfigurationSpec

\* So what POST answered is what every later read gives, for a host of any length
\* with at most one trailing dot (monitorFromProbe runs the constructor again).
THEOREM ConfigurationCreatedIsRead == ConfigurationSpec => []CreatedIsRead
<1>1. RowsAreMade => CreatedIsRead
  <2>1. SUFFICES ASSUME RowsAreMade, NEW i \in DOMAIN monitors,
                        monitors[i].row.kind = "http" \/ Settles(monitors[i].asked)
                 PROVE  Readable(monitors[i].row) /\ Read(monitors[i].row) = monitors[i].row
    BY DEF CreatedIsRead
  <2>2. PICK q \in Request : ValidMonitor(q) /\ monitors[i].row = Normalized(q) /\ monitors[i].asked = q.target
    BY <2>1 DEF RowsAreMade
  <2>3. q.kind = Normalized(q).kind
    BY RequestAssumption DEF Normalized
  <2>4. QED
    BY <2>1, <2>2, <2>3, NormalizedOnce
<1>2. QED
  BY <1>1, ConfigurationInvariance, PTL

-----------------------------------------------------------------------------
(***************************************************************************)
(* Backup.                                                                 *)
(***************************************************************************)
BackingUp == {"open", "step", "restrict", "sync"}
BackupStage == BackingUp \cup {"idle", "exists", "failed", "not removed", "killed", "succeeded"}

(* The rows of the two tables.                                             *)
BackupFile == [by : Copier \cup {"nobody", "operator"}, content : Int,
               whole : BOOLEAN, synced : BOOLEAN, private : BOOLEAN]
BackupRow == [pc : BackupStage, reserved : Nat, copied : Nat, from : Int]

BackupTypeOK == source \in Nat /\ file \in BackupFile /\ copying \in [Copier -> BackupRow]

\* A command at work has the destination for itself, and what it copies is the
\* source as it was at one moment since it reserved it.
AtWork(k, c) ==
  /\ k.reserved <= source
  /\ k.pc \in BackingUp => file.by = c
  /\ k.pc = "step" => k.from \in k.reserved .. source
  /\ k.pc \in {"restrict", "sync"} => file.whole /\ file.content \in k.reserved .. source
  /\ k.pc = "sync" => file.private

BackupInv == BackupTypeOK /\ \A c \in Copier : AtWork(copying[c], c)

LEMMA BackupValues == Absent \in BackupFile /\ Kept \in BackupFile /\ Idle \in BackupRow
<1>1. -1 \in Int /\ 0 \in Nat /\ 0 \in Int
  OBVIOUS
<1>2. QED
  BY <1>1 DEF Absent, Kept, Idle, BackupFile, BackupRow, BackupStage, BackingUp

LEMMA BackupInvInit == BackupInit => BackupInv
BY BackupValues DEF BackupInit, BackupInv, BackupTypeOK, AtWork, Idle, BackingUp

\* A step changes the row of one command.  The others keep what they have when
\* the source only grows and the file stays, or is not theirs.
LEMMA BackupOthers ==
  ASSUME BackupInv, BackupTypeOK',
         NEW c \in Copier, copying' = [copying EXCEPT ![c] = copying'[c]],
         source' = source, AtWork(copying[c], c)',
         file' = file \/ file = Absent \/ file.by = c
  PROVE  BackupInv'
<1>1. ASSUME NEW d \in Copier PROVE AtWork(copying[d], d)'
  <2>1. CASE d = c
    BY <2>1
  <2>2. CASE d # c
    <3>1. copying'[d] = copying[d] /\ AtWork(copying[d], d)
      BY <2>2 DEF BackupInv, BackupTypeOK
    <3>2. file' # file => copying[d].pc \notin BackingUp
      BY <2>2, <3>1, BackupAssumption DEF AtWork, Absent
    <3>3. QED
      BY <3>1, <3>2 DEF AtWork, BackingUp
  <2>3. QED
    BY <2>1, <2>2
<1>2. QED
  BY <1>1 DEF BackupInv

\* The invariant, one command and step at a time.
LEMMA BackupStep == BackupInv /\ [BackupNext]_backupVars => BackupInv'
<1> SUFFICES ASSUME BackupInv, [BackupNext]_backupVars PROVE BackupInv'
  OBVIOUS
<1>0. /\ source \in Nat /\ source \in Int /\ file \in BackupFile /\ copying \in [Copier -> BackupRow]
      /\ \A c \in Copier : copying[c] \in BackupRow /\ AtWork(copying[c], c)
  BY DEF BackupInv, BackupTypeOK
<1>2. ASSUME NEW c \in Copier, NewBackup(c) PROVE BackupInv'
  <2> DEFINE k == [copying[c] EXCEPT !.pc = "step", !.from = source]
  <2>1. k \in BackupRow /\ file' \in BackupFile
    BY <1>2, <1>0 DEF NewBackup, Copying, BackupRow, BackupFile, BackupStage, BackingUp, AtWork
  <2>2. copying' = [copying EXCEPT ![c] = k] /\ copying'[c] = k
    BY <1>2, <1>0 DEF NewBackup, Proceed
  <2>3. AtWork(copying[c], c)'
    BY <1>2, <1>0, <2>2 DEF NewBackup, Copying, AtWork, BackupRow, BackupFile, BackingUp
  <2>4. BackupTypeOK' /\ source' = source
    BY <1>2, <1>0, <2>1, <2>2 DEF NewBackup, BackupTypeOK
  <2>5. file' = file \/ file = Absent \/ file.by = c
    BY <1>2, <1>0 DEF NewBackup, Copying, AtWork, BackingUp
  <2>6. QED
    BY <2>2, <2>3, <2>4, <2>5, BackupOthers
<1>3. ASSUME NEW c \in Copier, Step(c) PROVE BackupInv'
  <2> DEFINE n == IF copying[c].from = source THEN copying[c].copied + 1 ELSE 1
  <2> DEFINE k == [copying[c] EXCEPT !.from = source, !.copied = n]
  <2>0. n \in Nat
    BY <1>0 DEF BackupRow
  <2>1. k \in BackupRow /\ file' \in BackupFile
    BY <1>3, <1>0, <2>0 DEF Step, Copying, BackupRow, BackupFile, BackupStage, BackingUp, AtWork
  <2>2. copying' = [copying EXCEPT ![c] = k] /\ copying'[c] = k
    BY <1>3, <1>0 DEF Step, Proceed
  <2>3. AtWork(copying[c], c)'
    BY <1>3, <1>0, <2>2 DEF Step, Copying, AtWork, BackupRow, BackupFile, BackingUp
  <2>4. BackupTypeOK' /\ source' = source
    BY <1>3, <1>0, <2>1, <2>2 DEF Step, BackupTypeOK
  <2>5. file' = file \/ file = Absent \/ file.by = c
    BY <1>3, <1>0 DEF Step, Copying, AtWork, BackingUp
  <2>6. QED
    BY <2>2, <2>3, <2>4, <2>5, BackupOthers
<1>4. ASSUME NEW c \in Copier, FinishBackup(c) PROVE BackupInv'
  <2> DEFINE k == [copying[c] EXCEPT !.pc = "restrict"]
  <2>1. k \in BackupRow /\ file' \in BackupFile
    BY <1>4, <1>0 DEF FinishBackup, Copying, BackupRow, BackupFile, BackupStage, BackingUp, AtWork
  <2>2. copying' = [copying EXCEPT ![c] = k] /\ copying'[c] = k
    BY <1>4, <1>0 DEF FinishBackup, Proceed
  <2>3. AtWork(copying[c], c)'
    BY <1>4, <1>0, <2>2 DEF FinishBackup, Copying, AtWork, BackupRow, BackupFile, BackingUp
  <2>4. BackupTypeOK' /\ source' = source
    BY <1>4, <1>0, <2>1, <2>2 DEF FinishBackup, BackupTypeOK
  <2>5. file' = file \/ file = Absent \/ file.by = c
    BY <1>4, <1>0 DEF FinishBackup, Copying, AtWork, BackingUp
  <2>6. QED
    BY <2>2, <2>3, <2>4, <2>5, BackupOthers
<1>5. ASSUME NEW c \in Copier, MakePrivate(c) PROVE BackupInv'
  <2> DEFINE k == [copying[c] EXCEPT !.pc = "sync"]
  <2>1. k \in BackupRow /\ file' \in BackupFile
    BY <1>5, <1>0 DEF MakePrivate, Copying, BackupRow, BackupFile, BackupStage, BackingUp, AtWork
  <2>2. copying' = [copying EXCEPT ![c] = k] /\ copying'[c] = k
    BY <1>5, <1>0 DEF MakePrivate, Proceed
  <2>3. AtWork(copying[c], c)'
    BY <1>5, <1>0, <2>2 DEF MakePrivate, Copying, AtWork, BackupRow, BackupFile, BackingUp
  <2>4. BackupTypeOK' /\ source' = source
    BY <1>5, <1>0, <2>1, <2>2 DEF MakePrivate, BackupTypeOK
  <2>5. file' = file \/ file = Absent \/ file.by = c
    BY <1>5, <1>0 DEF MakePrivate, Copying, AtWork, BackingUp
  <2>6. QED
    BY <2>2, <2>3, <2>4, <2>5, BackupOthers
<1>6. ASSUME NEW c \in Copier, Sync(c) PROVE BackupInv'
  <2> DEFINE k == [copying[c] EXCEPT !.pc = "succeeded"]
  <2>1. k \in BackupRow /\ file' \in BackupFile
    BY <1>6, <1>0 DEF Sync, Copying, BackupRow, BackupFile, BackupStage, BackingUp, AtWork
  <2>2. copying' = [copying EXCEPT ![c] = k] /\ copying'[c] = k
    BY <1>6, <1>0 DEF Sync, Proceed
  <2>3. AtWork(copying[c], c)'
    BY <1>6, <1>0, <2>2 DEF Sync, Copying, AtWork, BackupRow, BackupFile, BackingUp
  <2>4. BackupTypeOK' /\ source' = source
    BY <1>6, <1>0, <2>1, <2>2 DEF Sync, BackupTypeOK
  <2>5. file' = file \/ file = Absent \/ file.by = c
    BY <1>6, <1>0 DEF Sync, Copying, AtWork, BackingUp
  <2>6. QED
    BY <2>2, <2>3, <2>4, <2>5, BackupOthers
<1>8. ASSUME NEW c \in Copier, Killed(c) PROVE BackupInv'
  <2> DEFINE k == [copying[c] EXCEPT !.pc = "killed"]
  <2>1. k \in BackupRow /\ file' \in BackupFile
    BY <1>8, <1>0 DEF Killed, Copying, BackupRow, BackupFile, BackupStage, BackingUp, AtWork
  <2>2. copying' = [copying EXCEPT ![c] = k] /\ copying'[c] = k
    BY <1>8, <1>0 DEF Killed, Proceed
  <2>3. AtWork(copying[c], c)'
    BY <1>8, <1>0, <2>2 DEF Killed, Copying, AtWork, BackupRow, BackupFile, BackingUp
  <2>4. BackupTypeOK' /\ source' = source
    BY <1>8, <1>0, <2>1, <2>2 DEF Killed, BackupTypeOK
  <2>5. file' = file \/ file = Absent \/ file.by = c
    BY <1>8, <1>0 DEF Killed, Copying, AtWork, BackingUp
  <2>6. QED
    BY <2>2, <2>3, <2>4, <2>5, BackupOthers
<1>1. ASSUME NEW c \in Copier, Reserve(c) PROVE BackupInv'
  <2>1. CASE ~ Exclusive
    <3> DEFINE k == [copying[c] EXCEPT !.pc = "exists"]
    <3>1. k \in BackupRow
      BY <1>0 DEF BackupRow, BackupStage
    <3>2. copying' = [copying EXCEPT ![c] = k] /\ copying'[c] = k /\ file' = file /\ source' = source
      BY <1>1, <1>0, <2>1 DEF Reserve, Proceed
    <3>3. AtWork(copying[c], c)'
      BY <1>0, <3>2 DEF AtWork, BackupRow, BackingUp
    <3>4. QED
      BY <1>0, <3>1, <3>2, <3>3, BackupOthers DEF BackupTypeOK
  <2>2. CASE Exclusive
    <3> DEFINE k == [copying[c] EXCEPT !.pc = "open", !.reserved = source]
    <3>0. file' = [Absent EXCEPT !.by = c, !.private = TRUE]
      BY <1>1, <2>2 DEF Reserve
    <3>1. k \in BackupRow /\ file' \in BackupFile /\ file'.by = c
      BY <1>0, <3>0, BackupValues DEF BackupRow, BackupFile, BackupStage, BackingUp
    <3>2. copying' = [copying EXCEPT ![c] = k] /\ copying'[c] = k /\ file = Absent /\ source' = source
      BY <1>1, <1>0, <2>2 DEF Reserve, Exclusive
    <3>3. AtWork(copying[c], c)'
      BY <1>0, <3>1, <3>2 DEF AtWork, BackupRow, BackingUp
    <3>4. QED
      BY <1>0, <3>1, <3>2, <3>3, BackupOthers DEF BackupTypeOK
  <2>3. QED
    BY <2>1, <2>2
<1>7. ASSUME NEW c \in Copier, CreateFails(c) PROVE BackupInv'
  <2> DEFINE k(pc) == [copying[c] EXCEPT !.pc = pc]
  <2>1. PICK pc \in {"failed", "not removed"} :
          /\ copying' = [copying EXCEPT ![c] = k(pc)] /\ copying'[c] = k(pc)
          /\ file' \in {file, Absent} /\ source' = source
    BY <1>7, <1>0 DEF CreateFails, Proceed
  <2>2. k(pc) \in BackupRow
    BY <1>0 DEF BackupRow, BackupStage
  <2>3. file.by = c
    BY <1>7, <1>0 DEF CreateFails, AtWork, BackingUp
  <2>4. AtWork(copying[c], c)'
    BY <1>0, <2>1 DEF AtWork, BackupRow, BackingUp
  <2>5. QED
    BY <1>0, <2>1, <2>2, <2>3, <2>4, BackupOthers, BackupValues DEF BackupTypeOK
<1>9. ASSUME NEW c \in Copier, Ended(c) PROVE BackupInv'
  <2>1. copying' = [copying EXCEPT ![c] = Idle] /\ copying'[c] = Idle /\ file' = file /\ source' = source
    BY <1>9, <1>0 DEF Ended
  <2>2. AtWork(copying[c], c)'
    BY <1>0, <2>1 DEF AtWork, Idle, BackingUp
  <2>3. QED
    BY <1>0, <2>1, <2>2, BackupOthers, BackupValues DEF BackupTypeOK
<1>10. CASE CleanUp
  <2>1. source' = source /\ copying' = copying /\ file' = Absent /\ \A c \in Copier : copying[c].pc = "idle"
    BY <1>10 DEF CleanUp, Copying
  <2>2. \A c \in Copier : AtWork(copying[c], c)'
    BY <1>0, <2>1 DEF AtWork, BackingUp
  <2>3. QED
    BY <1>0, <2>1, <2>2, BackupValues DEF BackupInv, BackupTypeOK
<1>11. CASE WriteSource
  <2>1. source' = source + 1 /\ copying' = copying /\ file' = file
    BY <1>11 DEF WriteSource
  <2>2. ASSUME NEW c \in Copier PROVE AtWork(copying[c], c)'
    BY <1>0, <2>1 DEF AtWork, BackupRow, BackupFile
  <2>3. QED
    BY <1>0, <2>1, <2>2 DEF BackupInv, BackupTypeOK
<1>12. CASE UNCHANGED backupVars
  BY <1>12 DEF backupVars, BackupInv, BackupTypeOK, AtWork
<1>13. QED
  BY <1>1, <1>2, <1>3, <1>4, <1>5, <1>6, <1>7, <1>8, <1>9, <1>10, <1>11, <1>12 DEF BackupNext

\* Every backup that runs keeps its file to itself, and its copy recent.
THEOREM BackupInvariance == BackupSpec => []BackupInv
BY BackupInvInit, BackupStep, PTL DEF BackupSpec

\* A step ends at most one command, by the two ways there are to end well.
LEMMA BackupStepIsWhole ==
  BackupInv /\ [BackupNext]_backupVars
    => [(file.by = "operator" => file' = file) /\ \A c \in Copier : EndsWhole(c)]_backupVars
<1> DEFINE Left == file.by = "operator" => file' = file
<1> SUFFICES ASSUME BackupInv, BackupNext PROVE Left /\ \A d \in Copier : EndsWhole(d)
  OBVIOUS
<1>0. /\ source \in Nat /\ file \in BackupFile /\ copying \in [Copier -> BackupRow]
      /\ \A c \in Copier : copying[c] \in BackupRow /\ AtWork(copying[c], c) /\ c \notin {"nobody", "operator"}
  BY BackupAssumption DEF BackupInv, BackupTypeOK
<1>1. ASSUME NEW c \in Copier, copying' = [copying EXCEPT ![c] = copying'[c]],
             file' = file \/ file = Absent \/ (file.by = c /\ (file'.by = c \/ copying'[c].pc \notin BackingUp)),
             copying'[c].pc \notin {"succeeded", "failed"}
      PROVE  Left /\ \A d \in Copier : EndsWhole(d)
  <2>1. Left
    BY <1>0, <1>1 DEF Absent
  <2>2. ASSUME NEW d \in Copier PROVE EndsWhole(d)
    <3>1. copying'[d] = IF d = c THEN copying'[c] ELSE copying[d]
      BY <1>0, <1>1
    <3>2. file.by = d /\ file'.by # d => d = c /\ copying'[c].pc \notin BackingUp
      BY <1>0, <1>1 DEF Absent
    <3>3. QED
      BY <1>1, <3>1, <3>2 DEF EndsWhole, Copying, BackingUp
  <2>3. QED
    BY <2>1, <2>2
<1>2. ASSUME NEW c \in Copier, Reserve(c) PROVE Left /\ \A d \in Copier : EndsWhole(d)
  BY <1>0, <1>1, <1>2 DEF Reserve, Exclusive, Proceed, BackupRow
<1>3. ASSUME NEW c \in Copier, NewBackup(c) PROVE Left /\ \A d \in Copier : EndsWhole(d)
  BY <1>0, <1>1, <1>3 DEF NewBackup, Proceed, Copying, BackupRow, BackupFile, AtWork, BackingUp
<1>4. ASSUME NEW c \in Copier, Step(c) PROVE Left /\ \A d \in Copier : EndsWhole(d)
  BY <1>0, <1>1, <1>4 DEF Step, Proceed, Copying, BackupRow, BackupFile, AtWork, BackingUp
<1>5. ASSUME NEW c \in Copier, FinishBackup(c) PROVE Left /\ \A d \in Copier : EndsWhole(d)
  BY <1>0, <1>1, <1>5 DEF FinishBackup, Proceed, Copying, BackupRow, BackupFile, AtWork, BackingUp
<1>6. ASSUME NEW c \in Copier, MakePrivate(c) PROVE Left /\ \A d \in Copier : EndsWhole(d)
  BY <1>0, <1>1, <1>6 DEF MakePrivate, Proceed, Copying, BackupRow, BackupFile, AtWork, BackingUp
<1>7. ASSUME NEW c \in Copier, Killed(c) PROVE Left /\ \A d \in Copier : EndsWhole(d)
  BY <1>0, <1>1, <1>7 DEF Killed, Proceed, Copying, BackupRow, BackupFile, AtWork, BackingUp
<1>8. ASSUME NEW c \in Copier, Sync(c) PROVE Left /\ \A d \in Copier : EndsWhole(d)
  <2>1. /\ copying[c].pc = "sync" /\ copying' = [copying EXCEPT ![c].pc = "succeeded"]
        /\ file' = [file EXCEPT !.synced = TRUE] /\ source' = source
    BY <1>8 DEF Sync, Copying, Proceed
  <2>2. /\ file.by = c /\ file'.by = c /\ file'.whole /\ file'.synced /\ file'.private
        /\ file'.content \in copying[c].reserved .. source
    BY <1>0, <2>1 DEF AtWork, BackingUp, BackupFile
  <2>3. ASSUME NEW d \in Copier PROVE EndsWhole(d)
    <3>1. CASE d = c
      BY <1>0, <2>1, <2>2, <3>1 DEF EndsWhole, Copying, BackupRow
    <3>2. CASE d # c
      BY <1>0, <2>1, <2>2, <3>2 DEF EndsWhole, Copying
    <3>3. QED
      BY <3>1, <3>2
  <2>4. QED
    BY <1>0, <2>2, <2>3
<1>9. ASSUME NEW c \in Copier, CreateFails(c) PROVE Left /\ \A d \in Copier : EndsWhole(d)
  <2>1. copying[c].pc \in BackingUp /\ file.by = c /\ source' = source
    BY <1>0, <1>9 DEF CreateFails, AtWork, BackingUp
  <2>2. CASE file' = Absent /\ copying' = [copying EXCEPT ![c].pc = "failed"]
    BY <1>0, <2>1, <2>2 DEF EndsWhole, Copying, BackupRow, BackingUp
  <2>3. CASE file' = file /\ copying' = [copying EXCEPT ![c].pc = "not removed"]
    BY <1>0, <1>1, <2>3 DEF BackupRow
  <2>4. QED
    BY <1>9, <2>2, <2>3 DEF CreateFails, Proceed
<1>10. ASSUME NEW c \in Copier, Ended(c) PROVE Left /\ \A d \in Copier : EndsWhole(d)
  BY <1>0, <1>1, <1>10 DEF Ended, Idle
<1>11. CASE CleanUp
  BY <1>0, <1>11 DEF CleanUp, EndsWhole, Copying
<1>12. CASE WriteSource
  BY <1>0, <1>12 DEF WriteSource, EndsWhole, Copying
<1>13. QED
  BY <1>2, <1>3, <1>4, <1>5, <1>6, <1>7, <1>8, <1>9, <1>10, <1>11, <1>12 DEF BackupNext

\* For any number of commands, pages and writes of the server: a backup that is
\* reported done is the whole source as it was at one moment, and a file that
\* was there before is never touched.
THEOREM BackupWholeOrNothing == BackupSpec => WholeOrNothing
BY BackupInvariance, BackupStepIsWhole, PTL DEF BackupSpec, WholeOrNothing
-----------------------------------------------------------------------------
(***************************************************************************)
(* Lifecycle.  Where serveCommand and run are tells what is still open.    *)
(***************************************************************************)
LifecycleTypeOK ==
  /\ signalled \in BOOLEAN /\ overdue \in BOOLEAN
  /\ command \in {"open", "ready", "start", "serve", "shutdown", "wait", "close", "ended"}
  /\ database \in {"closed", "open"}
  /\ loops \in [Loop -> {"none", "tick", "wait", "ended"}]
  /\ server \in {"new", "listening", "failed", "shut"} /\ running \subseteq Handler
  /\ lifecycle \in 0 .. 2 /\ run \in {"listen", "claim", "serve", "wait", "failed", "ended"}
  /\ stopper \in {"wait", "withdrawn", "draining", "done"} /\ uiServer \in {"new", "listening", "shut"}

\* The loops run only while the command serves or waits for them, and then the
\* database is open.
LoopsMeetDatabase ==
  /\ command \notin {"open", "ended"} => database = "open"
  /\ \A l \in Loop : loops[l] \in {"tick", "wait"} => command \in {"serve", "shutdown", "wait"}

\* Handlers need a listener that was there; behind Shutdown only late ones run.
HandlersMeetServer ==
  /\ command \in {"open", "ready", "start"} => server = "new"
  /\ running # {} => server \in {"listening", "shut"}
  /\ command \in {"wait", "close", "ended"} => server # "listening" /\ (running = {} \/ overdue)

\* What the goroutine of the UI has done.
StopperHasDone ==
  /\ stopper # "wait" => lifecycle = 2
  /\ lifecycle = 2 => stopper # "wait"
  /\ stopper \in {"draining", "done"} => uiServer = "shut"

LifecycleInv == LifecycleTypeOK /\ LoopsMeetDatabase /\ HandlersMeetServer /\ StopperHasDone

LEMMA LifecycleInvInit == LifecycleInit => LifecycleInv
<1> SUFFICES ASSUME LifecycleInit PROVE LifecycleInv
  OBVIOUS
<1>1. LifecycleTypeOK
  <2>1. loops \in [Loop -> {"none", "tick", "wait", "ended"}]
    BY DEF LifecycleInit
  <2>2. lifecycle \in 0 .. 2
    BY DEF LifecycleInit
  <2>3. signalled \in BOOLEAN /\ overdue \in BOOLEAN /\ running \subseteq Handler
    BY Zenon DEF LifecycleInit
  <2>4. QED
    BY <2>1, <2>2, <2>3 DEF LifecycleInit, LifecycleTypeOK
<1>2. LoopsMeetDatabase
  BY DEF LifecycleInit, LoopsMeetDatabase
<1>3. HandlersMeetServer /\ StopperHasDone
  BY DEF LifecycleInit, HandlersMeetServer, StopperHasDone
<1>4. QED
  BY <1>1, <1>2, <1>3 DEF LifecycleInv

\* The control plane's half.
LEMMA ServeStep ==
  ASSUME LifecycleInv, UNCHANGED uiVars,
         \/ Signal \/ OpenDatabase \/ CheckReady \/ StartLoops \/ ListenAndServe
         \/ StopServing \/ Shutdown \/ ShutdownReturns \/ WaitForLoops \/ CloseDatabase
         \/ \E l \in Loop : RunLoop(l)
         \/ \E h \in Handler : Handle(h)
  PROVE  /\ LifecycleInv'
         /\ \A l \in Loop : loops[l] = "tick" => database = "open"
         /\ database = "open" /\ database' = "closed" => running = {} \/ overdue
<1> USE DEF LifecycleInv, LifecycleTypeOK, LoopsMeetDatabase, HandlersMeetServer, StopperHasDone,
            uiVars, controlPlaneVars
<1>0. \A l \in Loop : loops[l] = "tick" => database = "open"
  OBVIOUS
<1>1. CASE Signal
  BY <1>0, <1>1 DEF Signal
<1>2. CASE OpenDatabase \/ CheckReady
  BY <1>0, <1>2 DEF OpenDatabase, CheckReady
<1>3. CASE StartLoops
  BY <1>0, <1>3 DEF StartLoops
<1>4. CASE ListenAndServe \/ StopServing
  BY <1>0, <1>4 DEF ListenAndServe, StopServing
<1>5. CASE Shutdown \/ ShutdownReturns
  BY <1>0, <1>5, ZenonT(30) DEF Shutdown, ShutdownReturns
<1>6. CASE WaitForLoops \/ CloseDatabase
  BY <1>0, <1>6 DEF WaitForLoops, CloseDatabase, LoopsEnded
<1>7. ASSUME NEW l \in Loop, RunLoop(l)
      PROVE  LifecycleInv' /\ database' = database
  BY <1>7 DEF RunLoop
<1>8. ASSUME NEW h \in Handler, Handle(h)
      PROVE  LifecycleInv' /\ database' = database
  BY <1>8 DEF Handle
<1>9. QED
  BY <1>0, <1>1, <1>2, <1>3, <1>4, <1>5, <1>6, <1>7, <1>8

\* The UI's half.
LEMMA RunStep ==
  ASSUME LifecycleInv, Listen \/ ClaimReady \/ ServeUI \/ StopUI \/ EndUI
  PROVE  /\ LifecycleInv'
         /\ lifecycle = 2 => lifecycle' = 2
         /\ run = "wait" /\ run' = "ended" => uiServer = "shut"
<1> USE DEF LifecycleInv, LifecycleTypeOK, LoopsMeetDatabase, HandlersMeetServer, StopperHasDone,
            controlPlaneVars
<1>1. CASE Listen
  BY <1>1 DEF Listen
<1>2. CASE ClaimReady
  BY <1>2 DEF ClaimReady, SwapReady
<1>3. CASE ServeUI
  BY <1>3 DEF ServeUI
<1>4. CASE StopUI
  BY <1>4 DEF StopUI
<1>5. CASE EndUI
  BY <1>5 DEF EndUI
<1>6. QED
  BY <1>1, <1>2, <1>3, <1>4, <1>5

LEMMA LifecycleStep ==
  LifecycleInv /\ [LifecycleNext]_lifecycleVars
    => /\ LifecycleInv'
       /\ [/\ \A l \in Loop : loops[l] = "tick" => database = "open"
           /\ database = "open" /\ database' = "closed" => running = {} \/ overdue
           /\ lifecycle = 2 => lifecycle' = 2
           /\ run = "wait" /\ run' = "ended" => uiServer = "shut"]_lifecycleVars
<1> SUFFICES ASSUME LifecycleInv, [LifecycleNext]_lifecycleVars
             PROVE  /\ LifecycleInv'
                    /\ \A l \in Loop : loops[l] = "tick" => database = "open"
                    /\ database = "open" /\ database' = "closed" => running = {} \/ overdue
                    /\ lifecycle = 2 => lifecycle' = 2
                    /\ run = "wait" /\ run' = "ended" => uiServer = "shut"
  OBVIOUS
<1>1. \A l \in Loop : loops[l] = "tick" => database = "open"
  BY DEF LifecycleInv, LoopsMeetDatabase
<1>2. CASE /\ UNCHANGED uiVars
           /\ \/ Signal \/ OpenDatabase \/ CheckReady \/ StartLoops \/ ListenAndServe
              \/ StopServing \/ Shutdown \/ ShutdownReturns \/ WaitForLoops \/ CloseDatabase
              \/ \E l \in Loop : RunLoop(l)
              \/ \E h \in Handler : Handle(h)
  BY <1>2, ServeStep DEF uiVars
<1>3. CASE Listen \/ ClaimReady \/ ServeUI \/ StopUI \/ EndUI
  <2>1. UNCHANGED controlPlaneVars
    BY <1>3 DEF Listen, ClaimReady, ServeUI, StopUI, EndUI
  <2>2. QED
    BY <1>1, <1>3, <2>1, RunStep DEF controlPlaneVars
<1>4. CASE UNCHANGED lifecycleVars
  <2>1. LifecycleTypeOK'
    BY <1>4 DEF lifecycleVars, controlPlaneVars, uiVars, LifecycleInv, LifecycleTypeOK
  <2>2. LoopsMeetDatabase' /\ HandlersMeetServer' /\ StopperHasDone'
    BY <1>4 DEF lifecycleVars, controlPlaneVars, uiVars, LifecycleInv, LoopsMeetDatabase, HandlersMeetServer,
                StopperHasDone
  <2>3. QED
    BY <1>1, <1>4, <2>1, <2>2 DEF lifecycleVars, controlPlaneVars, uiVars, LifecycleInv
<1>5. QED
  BY <1>2, <1>3, <1>4
     DEF LifecycleNext, Signal, OpenDatabase, CheckReady, StartLoops, ListenAndServe, StopServing, Shutdown,
         ShutdownReturns, WaitForLoops, CloseDatabase, RunLoop, Handle

\* What is open and running follows from where serveCommand and run are.
THEOREM LifecycleInvariance == LifecycleSpec => []LifecycleInv
BY LifecycleInvInit, LifecycleStep, PTL DEF LifecycleSpec

\* Both servers stop in order, for any number of requests in progress.
THEOREM ServersStopInOrder == LifecycleSpec => StopsInOrder
BY LifecycleInvariance, LifecycleStep, PTL DEF LifecycleSpec, StopsInOrder

-----------------------------------------------------------------------------
(***************************************************************************)
(* Migration, for any number of commands.                                  *)
(***************************************************************************)
\* One statement more of a file that was run as far as before.
Further(steps, n, before) ==
  IF Len(before) = n /\ Runs(steps[n], before[n]) THEN Append(before, After(steps[n], before[n])) ELSE before

\* The m schemas s: each is what a statement makes of the one before, and the
\* statement after the last, if there is one, fails.
Listing(s, m) == s = [n \in 1 .. m |-> s[n]]
Chain(steps, m, s) == \A n \in 1 .. m - 1 : Runs(steps[n], s[n]) /\ s[n + 1] = After(steps[n], s[n])
RunsAs(steps, in, m, s) ==
  /\ m \in 1 .. Len(steps) + 1 /\ Listing(s, m) /\ s[1] = in
  /\ Chain(steps, m, s)
  /\ m <= Len(steps) => ~ Runs(steps[m], s[m])

LEMMA OneElement ==
  ASSUME NEW T, NEW x \in T
  PROVE  <<x>> \in Seq(T) /\ Len(<<x>>) = 1 /\ <<x>>[1] = x
OBVIOUS

LEMMA ThroughIs ==
  ASSUME NEW version, NEW in, NEW m, NEW s, Len(File(version)) \in Nat, RunsAs(File(version), in, m, s)
  PROVE  Through(version, in) = s /\ Len(s) = m
<1> DEFINE steps == File(version)
           N == Len(steps)
           at == CHOOSE f : f = [n \in 0 .. N |-> IF n = 0 THEN <<in>> ELSE Further(steps, n, f[n - 1])]
           g == [n \in 0 .. N |-> SubSeq(s, 1, IF n < Len(s) THEN n + 1 ELSE Len(s))]
<1>1. Through(version, in) = at[N]
  BY DEF Through, Further
<1> DEFINE T == {s[n] : n \in 1 .. m}
<1>0. /\ N \in Nat /\ s \in Seq(T) /\ Len(s) \in 1 .. N + 1 /\ s[1] = in /\ Len(s) = m
      /\ \A n \in 1 .. Len(s) - 1 : Runs(steps[n], s[n]) /\ s[n + 1] = After(steps[n], s[n])
      /\ Len(s) <= N => ~ Runs(steps[Len(s)], s[Len(s)])
  <2>1. /\ N \in Nat /\ m \in 1 .. N + 1 /\ s = [n \in 1 .. m |-> s[n]] /\ s[1] = in
        /\ \A n \in 1 .. m - 1 : Runs(steps[n], s[n]) /\ s[n + 1] = After(steps[n], s[n])
        /\ m <= N => ~ Runs(steps[m], s[m])
    BY DEF RunsAs, Listing, Chain
  <2>2. \A n \in 1 .. m : s[n] \in T
    OBVIOUS
  <2> HIDE DEF T, steps, N
  <2>3. s \in Seq(T) /\ Len(s) = m
    BY <2>1, <2>2
  <2>4. QED
    BY <2>1, <2>3
<1> HIDE DEF steps, N, T
<1>2. \A n \in 1 .. Len(s) : /\ SubSeq(s, 1, n) \in Seq(T) /\ Len(SubSeq(s, 1, n)) = n
                             /\ \A k \in 1 .. n : SubSeq(s, 1, n)[k] = s[k]
  BY <1>0, SubSeqProperties
<1>3. SubSeq(s, 1, Len(s)) = s
  BY <1>0, <1>2, SeqEqual
<1>4. SubSeq(s, 1, 1) = <<in>>
  <2>1. in \in T /\ 1 \in 1 .. Len(s)
    BY <1>0
  <2>2. <<in>> \in Seq(T) /\ Len(<<in>>) = 1 /\ <<in>>[1] = in
    BY <2>1, OneElement, Zenon
  <2>3. \A k \in 1 .. 1 : SubSeq(s, 1, 1)[k] = <<in>>[k]
    BY <1>0, <1>2, <2>1, <2>2
  <2>4. QED
    <3>1. SubSeq(s, 1, 1) \in Seq(T) /\ Len(SubSeq(s, 1, 1)) = 1
      BY <1>2, <2>1
    <3>2. QED
      BY <3>1, <2>2, <2>3, SeqEqual, Zenon
<1>5. ASSUME NEW n \in 1 .. N PROVE g[n] = Further(steps, n, g[n - 1])
  <2>1. n \in Nat /\ n >= 1 /\ Len(s) \in Nat /\ n - 1 \in 0 .. N
    BY <1>0
  <2>2. CASE n < Len(s)
    <3>1. g[n] = SubSeq(s, 1, n + 1) /\ g[n - 1] = SubSeq(s, 1, n)
      BY <2>1, <2>2
    <3>2. Len(SubSeq(s, 1, n)) = n /\ SubSeq(s, 1, n)[n] = s[n]
      BY <1>2, <2>1, <2>2
    <3>3. SubSeq(s, 1, n + 1) = Append(SubSeq(s, 1, n), s[n + 1])
      <4>1. /\ SubSeq(s, 1, n) \in Seq(T) /\ SubSeq(s, 1, n + 1) \in Seq(T)
            /\ s[n + 1] \in T
        BY <1>0, <1>2, <2>1, <2>2
      <4>2. \A k \in 1 .. n : SubSeq(s, 1, n + 1)[k] = s[k] /\ SubSeq(s, 1, n)[k] = s[k]
        BY <1>2, <2>1, <2>2
      <4>3. SubSeq(s, 1, n + 1)[n + 1] = s[n + 1] /\ Len(SubSeq(s, 1, n + 1)) = n + 1
        BY <1>2, <2>1, <2>2
      <4>4. QED
        BY <2>1, <3>2, <4>1, <4>2, <4>3, SeqEqual, AppendProperties
    <3>4. Runs(steps[n], s[n]) /\ s[n + 1] = After(steps[n], s[n])
      BY <1>0, <2>1, <2>2
    <3>5. QED
      BY <3>1, <3>2, <3>3, <3>4 DEF Further
  <2>3. CASE ~ n < Len(s)
    <3>1. g[n] = s /\ g[n - 1] = s
      <4>1. /\ n \in 0 .. N /\ ~ (n < Len(s))
            /\ (IF n - 1 < Len(s) THEN (n - 1) + 1 ELSE Len(s)) = Len(s)
        BY <2>1, <2>3
      <4>2. QED
        BY <1>3, <2>1, <4>1
    <3>2. ~ (Len(s) = n /\ Runs(steps[n], s[n]))
      BY <1>0, <2>1
    <3>3. QED
      BY <3>1, <3>2 DEF Further
  <2>4. QED
    BY <2>2, <2>3
<1>6. g[0] = <<in>> /\ g[N] = s
  <2>1. /\ 0 \in 0 .. N /\ N \in 0 .. N /\ 0 < Len(s)
        /\ (IF N < Len(s) THEN N + 1 ELSE Len(s)) = Len(s)
    BY <1>0
  <2>2. QED
    BY <1>3, <1>4, <2>1
<1>7. g = [n \in 0 .. N |-> IF n = 0 THEN <<in>> ELSE Further(steps, n, g[n - 1])]
  <2>1. \A n \in 0 .. N : g[n] = IF n = 0 THEN <<in>> ELSE Further(steps, n, g[n - 1])
    <3>1. \A n \in 0 .. N : n = 0 \/ n \in 1 .. N
      BY <1>0
    <3> HIDE DEF g
    <3>2. QED
      BY <1>5, <1>6, <3>1
  <2>2. g = [n \in 0 .. N |-> g[n]]
    BY Zenon
  <2> HIDE DEF g
  <2>3. QED
    BY <2>1, <2>2, Zenon
<1> HIDE DEF g
<1>8. at = [n \in 0 .. N |-> IF n = 0 THEN <<in>> ELSE Further(steps, n, at[n - 1])]
  BY <1>7
<1> HIDE DEF at
<1> DEFINE Wrong == {n \in 0 .. N : at[n] # g[n]}
<1>9. ASSUME Wrong # {} PROVE FALSE
  <2>1. PICK n \in Wrong : \A k \in Wrong : n <= k
    <3>1. Wrong \subseteq Nat
      BY <1>0
    <3> HIDE DEF Wrong
    <3>2. QED
      BY <1>9, <3>1, LeastNatural
  <2>2. n # 0
    BY <1>0, <1>6, <1>8
  <2>3. n - 1 \in 0 .. N /\ n - 1 \notin Wrong
    BY <1>0, <2>1, <2>2
  <2>4. QED
    BY <1>5, <1>8, <2>2, <2>3
<1>10. at[N] = g[N]
  BY <1>0, <1>9
<1>11. QED
  BY <1>0, <1>1, <1>6, <1>10

-----------------------------------------------------------------------------
\* What the database contains after k statements of the second SQLite file, and
\* with each version.
Column == <<"probe_kind", "observed_values_json", "tls_not_after", "protocol_timings_json", "monitor_schedule">>
Old(object, u) == IF u THEN {object} ELSE {}

Halfway(k, u) ==
  CASE k = 0 -> {"tables", "monitors", "http_json"} \cup Old("rows", u)
    [] k = 1 -> {"tables", "monitors", "http_json", "monitors_v2"} \cup Old("rows", u)
    [] k = 2 -> {"tables", "monitors", "http_json", "monitors_v2"} \cup Old("rows", u) \cup Old("copies", u)
    [] k = 3 -> {"tables", "monitors_v2"} \cup Old("copies", u)
    [] OTHER -> {"tables", "monitors", "probe_json"} \cup Old("rows", u) \cup {Column[i] : i \in 1 .. k - 4}

Contents(v, u) ==
  CASE v = 0 -> {}
    [] v = 1 -> Halfway(0, u)
    [] v = 2 -> Halfway(9, u)
    [] OTHER -> Halfway(9, u) \cup {"stale_at", "due_location_health"}

LEMMA CreateIs ==
  ASSUME NEW object, NEW in, NEW s, s = Create(object)
  PROVE  /\ Runs(s, in) <=> object \notin in
         /\ After(s, in) = in \cup {object}
BY DEF Runs, After, Create, Statement

\* A statement with one pair.
Second(a, b, in) == IF a \in in THEN {b} ELSE {}

LEMMA PairIs ==
  ASSUME NEW a, NEW b, NEW in, NEW s, s.pairs = {<<a, b>>}
  PROVE  After(s, in) = (in \ s.drops) \cup s.creates \cup Second(a, b, in)
<1>1. {p[2] : p \in {q \in s.pairs : q[1] \in in}} = IF a \in in THEN {b} ELSE {}
  <2>1. ASSUME a \in in PROVE {p[2] : p \in {q \in s.pairs : q[1] \in in}} = {b}
    <3>1. \A q : q \in {x \in s.pairs : x[1] \in in} <=> q = <<a, b>>
      BY <2>1
    <3>2. <<a, b>>[2] = b
      OBVIOUS
    <3>3. QED
      BY <3>1, <3>2
  <2>2. ASSUME a \notin in PROVE {p[2] : p \in {q \in s.pairs : q[1] \in in}} = {}
    <3>1. {q \in s.pairs : q[1] \in in} = {}
      BY <2>2
    <3>2. QED
      BY <3>1
  <2>3. QED
    BY <2>1, <2>2
<1>2. QED
  BY <1>1, Zenon DEF After, Second

Joins(f, s, t) == f = s \o t

LEMMA JoinsIs ==
  ASSUME NEW S, NEW s \in Seq(S), NEW t \in Seq(S), NEW f, Joins(f, s, t)
  PROVE  /\ Len(f) = Len(s) + Len(t)
         /\ \A k \in 1 .. Len(s) + Len(t) : f[k] = IF k <= Len(s) THEN s[k] ELSE t[k - Len(s)]
BY ConcatProperties DEF Joins

LEMMA SecondFile ==
  /\ dbProfile # "postgres" =>
       /\ Len(File(2)) = 9
       /\ \A k \in 1 .. 4 : File(2)[k] = ReplaceMonitors[k]
       /\ \A k \in 5 .. 9 : File(2)[k] = Create(Column[k - 4])
  /\ dbProfile = "postgres" =>
       /\ Len(File(2)) = 6
       /\ File(2)[1] = Statement({"http_json"}, {}, {"http_json"}, {}, {"probe_json"})
       /\ \A k \in 2 .. 6 : File(2)[k] = Create(Column[k - 1])
<1>1. File(2) = ProtocolBreadth
  BY DEF File
<1>2. Len(Columns) = 5 /\ \A k \in 1 .. 5 : Columns[k] = Create(Column[k])
  <2>1. \A k \in 1 .. 5 : k = 1 \/ k = 2 \/ k = 3 \/ k = 4 \/ k = 5
    OBVIOUS
  <2>2. QED
    BY <2>1 DEF Columns, Column
<1> DEFINE T == {ReplaceMonitors[k] : k \in 1 .. 4} \cup {Columns[k] : k \in 1 .. 5}
<1>3. Columns \in Seq(T)
  <2>1. Columns = [k \in 1 .. 5 |-> Columns[k]]
    BY DEF Columns
  <2>2. \A k \in 1 .. 5 : Columns[k] \in T
    OBVIOUS
  <2> HIDE DEF T
  <2>3. QED
    BY <2>1, <2>2
<1>4. ReplaceMonitors \in Seq(T) /\ Len(ReplaceMonitors) = 4
  <2>1. ReplaceMonitors = [k \in 1 .. 4 |-> ReplaceMonitors[k]]
    BY DEF ReplaceMonitors
  <2>2. \A k \in 1 .. 4 : ReplaceMonitors[k] \in T
    OBVIOUS
  <2> HIDE DEF T
  <2>3. QED
    BY <2>1, <2>2
<1> HIDE DEF T
<1>5. CASE dbProfile # "postgres"
  <2>1. Joins(File(2), ReplaceMonitors, Columns)
    BY <1>1, <1>5 DEF ProtocolBreadth, Joins
  <2>2. /\ Len(File(2)) = 4 + 5
        /\ \A k \in 1 .. 4 + 5 : File(2)[k] = IF k <= 4 THEN ReplaceMonitors[k] ELSE Columns[k - 4]
    <3>1. Len(Columns) = 5
      BY <1>2
    <3>2. Len(ReplaceMonitors) = 4
      BY <1>4
    <3>3. /\ Len(File(2)) = Len(ReplaceMonitors) + Len(Columns)
          /\ \A k \in 1 .. Len(ReplaceMonitors) + Len(Columns) :
               File(2)[k] = IF k <= Len(ReplaceMonitors) THEN ReplaceMonitors[k] ELSE Columns[k - Len(ReplaceMonitors)]
      BY <1>3, <1>4, <2>1, JoinsIs, Zenon
    <3>4. QED
      BY <3>1, <3>2, <3>3
  <2>3. QED
    BY <1>2, <1>5, <2>2
<1>6. CASE dbProfile = "postgres"
  <2> DEFINE x == Statement({"http_json"}, {}, {"http_json"}, {}, {"probe_json"})
  <2>1. Joins(File(2), <<x>>, Columns)
    BY <1>1, <1>6 DEF ProtocolBreadth, Joins
  <2> HIDE DEF x
  <2> DEFINE U == T \cup {x}
  <2>2. Columns \in Seq(U)
    BY <1>3
  <2>3. <<x>> \in Seq(U) /\ Len(<<x>>) = 1 /\ <<x>>[1] = x
    BY OneElement
  <2> HIDE DEF U
  <2>4. /\ Len(File(2)) = 1 + 5
        /\ \A k \in 1 .. 1 + 5 : File(2)[k] = IF k <= 1 THEN <<x>>[k] ELSE Columns[k - 1]
    <3>1. Len(Columns) = 5
      BY <1>2
    <3>2. /\ Len(File(2)) = Len(<<x>>) + Len(Columns)
          /\ \A k \in 1 .. Len(<<x>>) + Len(Columns) :
               File(2)[k] = IF k <= Len(<<x>>) THEN <<x>>[k] ELSE Columns[k - Len(<<x>>)]
      BY <2>1, <2>2, <2>3, JoinsIs, Zenon
    <3>3. QED
      BY <2>3, <3>1, <3>2
  <2>5. QED
    BY <1>2, <1>6, <2>3, <2>4 DEF x
<1>7. QED
  BY <1>5, <1>6

Others == {"tables", "monitors", "probe_json", "rows", "copies", "http_json", "monitors_v2", "stale_at",
           "due_location_health"}

LEMMA ColumnsDiffer ==
  \A i \in 1 .. 5 : /\ Column[i] \notin Others
                    /\ \A j \in 1 .. 5 : Column[i] = Column[j] => i = j
<1>1. /\ Column[1] = "probe_kind" /\ Column[2] = "observed_values_json" /\ Column[3] = "tls_not_after"
      /\ Column[4] = "protocol_timings_json" /\ Column[5] = "monitor_schedule"
  BY DEF Column
<1>2. \A i \in 1 .. 5 : i = 1 \/ i = 2 \/ i = 3 \/ i = 4 \/ i = 5
  OBVIOUS
<1>3. \A i \in 1 .. 5 : Column[i] \notin Others
  BY <1>1, <1>2 DEF Others
<1>4. \A i, j \in 1 .. 5 : Column[i] = Column[j] => i = j
  BY <1>1, <1>2
<1>5. QED
  BY <1>3, <1>4

\* What is there after k statements.
LEMMA HalfwayHolds ==
  ASSUME NEW u \in BOOLEAN, NEW k \in 0 .. 9
  PROVE  /\ "tables" \in Halfway(k, u)
         /\ "http_json" \in Halfway(k, u) <=> k <= 2
         /\ "monitors_v2" \in Halfway(k, u) <=> k \in 1 .. 3
         /\ "monitors" \in Halfway(k, u) <=> k # 3
         /\ "copies" \in Halfway(k, u) <=> u /\ k \in 2 .. 3
         /\ "rows" \in Halfway(k, u) <=> u /\ k # 3
         /\ "stale_at" \notin Halfway(k, u) /\ "due_location_health" \notin Halfway(k, u)
         /\ \A i \in 1 .. 5 : Column[i] \in Halfway(k, u) <=> i + 4 <= k
<1>1. k = 0 \/ k = 1 \/ k = 2 \/ k = 3 \/ k >= 4
  OBVIOUS
<1>2. CASE k < 4
  <2>1. Halfway(k, u) \subseteq Others
    BY <1>1, <1>2 DEF Halfway, Old, Others
  <2>2. \A i \in 1 .. 5 : Column[i] \notin Halfway(k, u) /\ ~ (i + 4 <= k)
    BY <1>2, <2>1, ColumnsDiffer
  <2>4. CASE k = 0
    BY <2>1, <2>2, <2>4 DEF Halfway, Old
  <2>5. CASE k = 1
    BY <2>1, <2>2, <2>5 DEF Halfway, Old
  <2>6. CASE k = 2
    BY <2>1, <2>2, <2>6 DEF Halfway, Old
  <2>7. CASE k = 3
    BY <2>1, <2>2, <2>7 DEF Halfway, Old
  <2>8. QED
    BY <1>1, <1>2, <2>4, <2>5, <2>6, <2>7
<1>3. CASE k >= 4
  <2> DEFINE Made == {Column[i] : i \in 1 .. k - 4}
  <2>1. Halfway(k, u) = {"tables", "monitors", "probe_json"} \cup Old("rows", u) \cup Made
    BY <1>3 DEF Halfway
  <2>2. 1 .. k - 4 \subseteq 1 .. 5 /\ \A i \in 1 .. 5 : i \in 1 .. k - 4 <=> i + 4 <= k
    BY <1>3
  <2>3. /\ Made \cap Others = {}
        /\ \A i \in 1 .. 5 : Column[i] \in Made <=> i + 4 <= k
    BY <2>2, ColumnsDiffer
  <2> HIDE DEF Made
  <2>4. \A i \in 1 .. 5 : Column[i] \in Halfway(k, u) <=> i + 4 <= k
    BY <2>1, <2>3, ColumnsDiffer DEF Old, Others
  <2>5. /\ "tables" \in Halfway(k, u) /\ "http_json" \notin Halfway(k, u) /\ "monitors_v2" \notin Halfway(k, u)
        /\ "monitors" \in Halfway(k, u) /\ "copies" \notin Halfway(k, u)
        /\ "stale_at" \notin Halfway(k, u) /\ "due_location_health" \notin Halfway(k, u)
    BY <2>1, <2>3 DEF Old, Others
  <2>6. "rows" \in Halfway(k, u) <=> u
    BY <2>1, <2>3 DEF Old, Others
  <2>7. ~ k <= 2 /\ k \notin 1 .. 3 /\ k # 3 /\ k \notin 2 .. 3
    BY <1>3
  <2>8. QED
    BY <2>4, <2>5, <2>6, <2>7
<1>4. QED
  BY <1>1, <1>2, <1>3

LEMMA ColumnNext ==
  ASSUME NEW u \in BOOLEAN, NEW k \in 4 .. 8
  PROVE  Column[k - 3] \notin Halfway(k, u) /\ Halfway(k, u) \cup {Column[k - 3]} = Halfway(k + 1, u)
<1>1. k - 3 \in 1 .. 5 /\ ~ ((k - 3) + 4 <= k) /\ k \in 0 .. 9
  OBVIOUS
<1>2. /\ Halfway(k, u) = {"tables", "monitors", "probe_json"} \cup Old("rows", u) \cup {Column[i] : i \in 1 .. k - 4}
      /\ Halfway(k + 1, u)
           = {"tables", "monitors", "probe_json"} \cup Old("rows", u) \cup {Column[i] : i \in 1 .. (k + 1) - 4}
  BY DEF Halfway
<1>3. \A i : i \in 1 .. (k + 1) - 4 <=> i \in 1 .. k - 4 \/ i = k - 3
  OBVIOUS
<1>4. Halfway(k, u) \cup {Column[k - 3]} = Halfway(k + 1, u)
  BY <1>2, <1>3
<1>5. QED
  BY <1>1, <1>4, HalfwayHolds

\* One statement more of the second SQLite file, with or without a monitors_v2
\* that a later command left.
LEMMA HalfwayNext ==
  ASSUME dbProfile # "postgres", NEW u \in BOOLEAN, NEW k \in 0 .. 8
  PROVE  Runs(File(2)[k + 1], Halfway(k, u)) /\ After(File(2)[k + 1], Halfway(k, u)) = Halfway(k + 1, u)
<1>1. k = 0 \/ k = 1 \/ k = 2 \/ k = 3 \/ k >= 4
  OBVIOUS
<1>2. CASE k = 0
  <2>1. File(2)[k + 1] = Create("monitors_v2")
    BY <1>2, SecondFile DEF ReplaceMonitors
  <2>2. "monitors_v2" \notin Halfway(k, u)
    BY HalfwayHolds, <1>2
  <2>3. Halfway(k, u) \cup {"monitors_v2"} = Halfway(k + 1, u)
    BY <1>2 DEF Halfway
  <2>4. QED
    BY <2>1, <2>2, <2>3, CreateIs
<1>3. CASE k = 1
  <2>1. File(2)[k + 1] = Statement({"http_json", "monitors_v2"}, {"copies"}, {}, {<<"rows", "copies">>}, {})
    BY <1>3, SecondFile DEF ReplaceMonitors
  <2>2. "monitors_v2" \in Halfway(k, u) /\ "http_json" \in Halfway(k, u) /\ "copies" \notin Halfway(k, u)
        /\ ("rows" \in Halfway(k, u) <=> u)
    BY HalfwayHolds, <1>3
  <2>3. Halfway(k + 1, u) = Halfway(k, u) \cup Old("copies", u)
    BY <1>3 DEF Halfway
  <2> DEFINE s == File(2)[k + 1]
             x == "rows"
             y == "copies"
  <2>4. s.needs = {"http_json", "monitors_v2"} /\ s.clashes = {"copies"} /\ s.drops = {} /\ s.creates = {}
        /\ s.pairs = {<<x, y>>}
    BY <2>1 DEF Statement
  <2> HIDE DEF s, x, y
  <2>5. After(s, Halfway(k, u)) = (Halfway(k, u) \ s.drops) \cup s.creates
                                    \cup Second(x, y, Halfway(k, u))
    BY <2>4, PairIs
  <2>6. After(s, Halfway(k, u)) = Halfway(k + 1, u)
    BY <2>2, <2>3, <2>4, <2>5 DEF Old, Second, x, y
  <2>7. Runs(s, Halfway(k, u))
    BY <2>2, <2>4 DEF Runs
  <2>8. QED
    BY <2>6, <2>7 DEF s
<1>4. CASE k = 2
  <2>1. File(2)[k + 1] = Statement({"monitors"}, {}, {"monitors", "http_json", "rows", "monitor_schedule"}, {}, {})
    BY <1>4, SecondFile DEF ReplaceMonitors
  <2>2. "monitors" \in Halfway(k, u)
    BY HalfwayHolds, <1>4
  <2>3. Halfway(k, u) \ {"monitors", "http_json", "rows", "monitor_schedule"} = Halfway(k + 1, u)
    BY <1>4 DEF Halfway, Old
  <2>4. QED
    BY <2>1, <2>2, <2>3 DEF Runs, After, Statement
<1>5. CASE k = 3
  <2>1. File(2)[k + 1] = Statement({"monitors_v2"}, {"monitors"}, {"monitors_v2", "copies"}, {<<"copies", "rows">>},
                                   {"monitors", "probe_json"})
    BY <1>5, SecondFile DEF ReplaceMonitors
  <2>2. "monitors_v2" \in Halfway(k, u) /\ "monitors" \notin Halfway(k, u) /\ ("copies" \in Halfway(k, u) <=> u)
    BY HalfwayHolds, <1>5
  <2>3. Halfway(k, u) = {"tables", "monitors_v2"} \cup Old("copies", u)
    BY <1>5 DEF Halfway
  <2>4. Halfway(k + 1, u) = {"tables", "monitors", "probe_json"} \cup Old("rows", u)
    BY <1>5 DEF Halfway
  <2> DEFINE s == File(2)[k + 1]
             x == "copies"
             y == "rows"
  <2>5. s.needs = {"monitors_v2"} /\ s.clashes = {"monitors"} /\ s.drops = {"monitors_v2", "copies"}
        /\ s.creates = {"monitors", "probe_json"} /\ s.pairs = {<<x, y>>}
    BY <2>1 DEF Statement
  <2> HIDE DEF s, x, y
  <2>6. After(s, Halfway(k, u)) = (Halfway(k, u) \ s.drops) \cup s.creates
                                    \cup Second(x, y, Halfway(k, u))
    BY <2>5, PairIs
  <2>7. Second(x, y, Halfway(k, u)) = Old("rows", u)
    BY <2>2 DEF Old, Second, x, y
  <2>8. (Halfway(k, u) \ {"monitors_v2", "copies"}) \cup {"monitors", "probe_json"} \cup Old("rows", u) = Halfway(k + 1, u)
    BY <2>3, <2>4 DEF Old
  <2>9. After(s, Halfway(k, u)) = Halfway(k + 1, u)
    BY <2>5, <2>6, <2>7, <2>8
  <2>10. Runs(s, Halfway(k, u))
    BY <2>2, <2>5 DEF Runs
  <2>11. QED
    BY <2>9, <2>10 DEF s
<1>6. CASE k >= 4
  <2>1. File(2)[k + 1] = Create(Column[k - 3])
    <3>1. k + 1 \in 5 .. 9 /\ (k + 1) - 4 = k - 3
      BY <1>6
    <3>2. QED
      BY <3>1, SecondFile
  <2>2. Column[k - 3] \notin Halfway(k, u) /\ Halfway(k, u) \cup {Column[k - 3]} = Halfway(k + 1, u)
    BY <1>6, ColumnNext
  <2>3. QED
    BY <2>1, <2>2, CreateIs, ZenonT(30)
<1>7. QED
  BY <1>1, <1>2, <1>3, <1>4, <1>5, <1>6

LEMMA HalfwayNextBeside ==
  ASSUME dbProfile # "postgres", NEW u \in BOOLEAN, NEW k \in 4 .. 8, NEW in, in = Halfway(k, u) \cup {"monitors_v2"}
  PROVE  Runs(File(2)[k + 1], in) /\ After(File(2)[k + 1], in) = Halfway(k + 1, u) \cup {"monitors_v2"}
<1>1. File(2)[k + 1] = Create(Column[k - 3])
  <2>1. k + 1 \in 5 .. 9 /\ (k + 1) - 4 = k - 3
    OBVIOUS
  <2>2. QED
    BY <2>1, SecondFile
<1>2. k \in 0 .. 8 /\ k - 3 \in 1 .. 5
  OBVIOUS
<1>3. Column[k - 3] \notin Halfway(k, u) /\ Halfway(k, u) \cup {Column[k - 3]} = Halfway(k + 1, u)
  BY ColumnNext
<1>4. Column[k - 3] # "monitors_v2"
  BY <1>2, ColumnsDiffer DEF Others
<1>5. Column[k - 3] \notin in /\ in \cup {Column[k - 3]} = Halfway(k + 1, u) \cup {"monitors_v2"}
  BY <1>3, <1>4
<1>6. QED
  BY <1>1, <1>5, CreateIs

-----------------------------------------------------------------------------
\* Whole files: one fails at its first statement, or runs to its end.
LEMMA FileFails ==
  ASSUME NEW v, NEW in, Len(File(v)) \in Nat \ {0}, ~ Runs(File(v)[1], in)
  PROVE  ~ Succeeds(v, in)
<1> DEFINE s == [n \in 1 .. 1 |-> in]
<1>1. Listing(s, 1) /\ s[1] = in
  BY DEF Listing
<1> HIDE DEF s
<1>2. RunsAs(File(v), in, 1, s)
  BY <1>1 DEF RunsAs, Chain
<1>3. Through(v, in) = s /\ Len(s) = 1
  BY <1>2, ThroughIs
<1>4. QED
  BY <1>3 DEF Succeeds

RunsWhole(v, m, s) ==
  m \in Nat \ {0} /\ Len(File(v)) = m - 1 /\ Listing(s, m) /\ Chain(File(v), m, s)

LEMMA FileSucceeds ==
  ASSUME NEW v, NEW m, NEW s, RunsWhole(v, m, s)
  PROVE  Succeeds(v, s[1]) /\ Result(v, s[1]) = s[m]
<1>1. RunsAs(File(v), s[1], m, s) /\ Len(File(v)) \in Nat /\ Len(File(v)) + 1 = m
  BY DEF RunsAs, RunsWhole
<1>2. Through(v, s[1]) = s /\ Len(s) = m
  BY <1>1, ThroughIs
<1>3. QED
  BY <1>1, <1>2 DEF Succeeds, Result

LEMMA FirstFile ==
  /\ \A in : in \cap {"tables", "monitors"} # {} => ~ Succeeds(1, in)
  /\ Succeeds(1, {}) /\ Result(1, {}) = Halfway(0, FALSE)
<1>1. Len(File(1)) = 1 /\ File(1)[1] = Statement({}, {"tables", "monitors"}, {}, {}, {"tables", "monitors", "http_json"})
  BY DEF File, Initial
<1>2. \A in : /\ Runs(File(1)[1], in) <=> in \cap {"tables", "monitors"} = {}
              /\ After(File(1)[1], in) = in \cup {"tables", "monitors", "http_json"}
  BY <1>1 DEF Runs, After, Statement
<1>3. \A in : in \cap {"tables", "monitors"} # {} => ~ Succeeds(1, in)
  BY <1>1, <1>2, FileFails
<1> DEFINE s == [n \in 1 .. 2 |-> IF n = 1 THEN {} ELSE Halfway(0, FALSE)]
<1>4. Listing(s, 2) /\ s[1] = {} /\ s[2] = Halfway(0, FALSE)
  BY DEF Listing
<1> HIDE DEF s
<1>5. Halfway(0, FALSE) = {} \cup {"tables", "monitors", "http_json"}
  BY DEF Halfway, Old
<1>6. Chain(File(1), 2, s)
  <2>1. Runs(File(1)[1], s[1]) /\ s[2] = After(File(1)[1], s[1])
    BY <1>2, <1>4, <1>5
  <2>2. \A n \in 1 .. 2 - 1 : n = 1
    OBVIOUS
  <2>3. QED
    BY <2>1, <2>2 DEF Chain
<1>7. Succeeds(1, s[1]) /\ Result(1, s[1]) = s[2]
  <2>1. RunsWhole(1, 2, s)
    BY <1>1, <1>4, <1>6 DEF RunsWhole
  <2>2. QED
    BY <2>1, FileSucceeds
<1>8. QED
  BY <1>3, <1>4, <1>7

LEMMA ThirdFile ==
  ASSUME NEW in
  PROVE  /\ "stale_at" \in in => ~ Succeeds(3, in)
         /\ "stale_at" \notin in /\ "due_location_health" \notin in
              => Succeeds(3, in) /\ Result(3, in) = in \cup {"stale_at", "due_location_health"}
<1>1. Len(File(3)) = 2 /\ File(3)[1] = Create("stale_at") /\ File(3)[2] = Create("due_location_health")
  BY DEF File, Staleness
<1>2. ASSUME "stale_at" \in in PROVE ~ Succeeds(3, in)
  BY <1>1, <1>2, CreateIs, FileFails
<1>3. ASSUME "stale_at" \notin in, "due_location_health" \notin in
      PROVE  Succeeds(3, in) /\ Result(3, in) = in \cup {"stale_at", "due_location_health"}
  <2> DEFINE next == in \cup {"stale_at"}
             last == in \cup {"stale_at", "due_location_health"}
             s == [n \in 1 .. 3 |-> IF n = 1 THEN in ELSE IF n = 2 THEN next ELSE last]
  <2>1. Listing(s, 3) /\ s[1] = in /\ s[2] = next /\ s[3] = last
    BY DEF Listing
  <2>2. /\ Runs(File(3)[1], in) /\ After(File(3)[1], in) = next
        /\ Runs(File(3)[2], next) /\ After(File(3)[2], next) = last
    <3>1. next \cup {"due_location_health"} = last /\ "due_location_health" \notin next
      BY <1>3
    <3>2. Runs(File(3)[1], in) /\ After(File(3)[1], in) = next
      BY <1>1, <1>3, CreateIs
    <3> HIDE DEF next, last
    <3>3. Runs(File(3)[2], next) /\ After(File(3)[2], next) = last
      BY <1>1, <3>1, CreateIs
    <3>4. QED
      BY <3>2, <3>3
  <2> HIDE DEF s, next, last
  <2>3. Chain(File(3), 3, s)
    <3>1. \A n \in 1 .. 3 - 1 : n = 1 \/ n = 2
      OBVIOUS
    <3>2. QED
      BY <2>1, <2>2, <3>1 DEF Chain
  <2>4. Succeeds(3, s[1]) /\ Result(3, s[1]) = s[3]
    <3>1. RunsWhole(3, 3, s)
      BY <1>1, <2>1, <2>3 DEF RunsWhole
    <3>2. QED
      BY <3>1, FileSucceeds
  <2>5. QED
    BY <2>1, <2>4 DEF last
<1>4. QED
  BY <1>2, <1>3

LEMMA SecondWhole ==
  ASSUME NEW u \in BOOLEAN, dbProfile = "postgres" => u = FALSE
  PROVE  Succeeds(2, Halfway(0, u)) /\ Result(2, Halfway(0, u)) = Halfway(9, u)
<1>1. CASE dbProfile # "postgres"
  <2> DEFINE s == [n \in 1 .. 10 |-> Halfway(n - 1, u)]
  <2>1. Listing(s, 10) /\ s[1] = Halfway(0, u) /\ s[10] = Halfway(9, u)
    BY DEF Listing
  <2>2. Chain(File(2), 10, s)
    <3> SUFFICES ASSUME NEW n \in 1 .. 10 - 1
                 PROVE  Runs(File(2)[n], s[n]) /\ s[n + 1] = After(File(2)[n], s[n])
      BY DEF Chain
    <3>1. n - 1 \in 0 .. 8 /\ (n - 1) + 1 = n /\ s[n] = Halfway(n - 1, u) /\ s[n + 1] = Halfway(n, u)
      OBVIOUS
    <3> HIDE DEF s
    <3>2. Runs(File(2)[(n - 1) + 1], Halfway(n - 1, u)) /\ After(File(2)[(n - 1) + 1], Halfway(n - 1, u)) = Halfway((n - 1) + 1, u)
      BY <1>1, <3>1, HalfwayNext, Zenon
    <3>3. QED
      BY <3>1, <3>2
  <2> HIDE DEF s
  <2>3. RunsWhole(2, 10, s)
    BY <1>1, <2>1, <2>2, SecondFile DEF RunsWhole
  <2>4. Succeeds(2, s[1]) /\ Result(2, s[1]) = s[10]
    BY <2>3, FileSucceeds
  <2>5. QED
    BY <2>1, <2>4
<1>2. CASE dbProfile = "postgres"
  <2> DEFINE s == [n \in 1 .. 7 |-> IF n = 1 THEN Halfway(0, FALSE) ELSE Halfway(n + 2, FALSE)]
  <2>1. Listing(s, 7) /\ s[1] = Halfway(0, FALSE) /\ s[2] = Halfway(4, FALSE) /\ s[7] = Halfway(9, FALSE)
        /\ \A n \in 2 .. 7 : s[n] = Halfway(n + 2, FALSE)
    BY DEF Listing
  <2> HIDE DEF s
  <2>2. Runs(File(2)[1], s[1]) /\ s[2] = After(File(2)[1], s[1])
    <3>1. File(2)[1] = Statement({"http_json"}, {}, {"http_json"}, {}, {"probe_json"})
      BY <1>2, SecondFile
    <3>2. Halfway(0, FALSE) = {"tables", "monitors", "http_json"}
      BY DEF Halfway, Old
    <3>3. Halfway(4, FALSE) = {"tables", "monitors", "probe_json"}
      BY DEF Halfway, Old
    <3>4. (Halfway(0, FALSE) \ {"http_json"}) \cup {"probe_json"} = Halfway(4, FALSE) /\ "http_json" \in Halfway(0, FALSE)
      BY <3>2, <3>3
    <3> DEFINE first == File(2)[1]
    <3>5. first.needs = {"http_json"} /\ first.clashes = {} /\ first.drops = {"http_json"} /\ first.pairs = {}
          /\ first.creates = {"probe_json"}
      BY <3>1 DEF Statement
    <3> HIDE DEF first
    <3>6. Runs(first, s[1])
      BY <2>1, <3>4, <3>5 DEF Runs
    <3>7. After(first, s[1]) = (s[1] \ {"http_json"}) \cup {"probe_json"}
      BY <3>5 DEF After
    <3>8. QED
      BY <2>1, <3>4, <3>6, <3>7 DEF first
  <2>3. ASSUME NEW n \in 2 .. 6 PROVE Runs(File(2)[n], s[n]) /\ s[n + 1] = After(File(2)[n], s[n])
    <3>1. n + 2 \in 4 .. 8 /\ (n + 2) - 3 = n - 1 /\ (n + 1) + 2 = (n + 2) + 1 /\ n \in 2 .. 7 /\ n + 1 \in 2 .. 7
      OBVIOUS
    <3>2. File(2)[n] = Create(Column[n - 1])
      BY <1>2, SecondFile
    <3>3. Column[n - 1] \notin Halfway(n + 2, FALSE) /\ Halfway(n + 2, FALSE) \cup {Column[n - 1]} = Halfway((n + 2) + 1, FALSE)
      BY <3>1, ColumnNext
    <3>4. s[n] = Halfway(n + 2, FALSE) /\ s[n + 1] = Halfway((n + 2) + 1, FALSE)
      BY <2>1, <3>1
    <3>5. Column[n - 1] \notin s[n] /\ s[n] \cup {Column[n - 1]} = s[n + 1]
      BY <3>3, <3>4
    <3>6. /\ Runs(File(2)[n], s[n]) <=> Column[n - 1] \notin s[n]
          /\ After(File(2)[n], s[n]) = s[n] \cup {Column[n - 1]}
      BY <3>2, CreateIs
    <3>7. QED
      BY <3>5, <3>6
  <2>4. Chain(File(2), 7, s)
    <3>1. \A n \in 1 .. 7 - 1 : n = 1 \/ n \in 2 .. 6
      OBVIOUS
    <3>2. QED
      BY <2>2, <2>3, <3>1 DEF Chain
  <2>5. RunsWhole(2, 7, s)
    BY <1>2, <2>1, <2>4, SecondFile DEF RunsWhole
  <2>6. Succeeds(2, s[1]) /\ Result(2, s[1]) = s[7]
    BY <2>5, FileSucceeds
  <2>7. u = FALSE
    BY <1>2
  <2>8. QED
    BY <2>1, <2>6, <2>7
<1>3. QED
  BY <1>1, <1>2

\* The second file copies a column that is gone once it was applied.
LEMMA SecondAgain ==
  ASSUME NEW in, "http_json" \notin in
  PROVE  ~ Succeeds(2, in)
<1>1. CASE dbProfile = "postgres"
  <2>1. Len(File(2)) = 6 /\ File(2)[1] = Statement({"http_json"}, {}, {"http_json"}, {}, {"probe_json"})
    BY <1>1, SecondFile
  <2>2. ~ Runs(File(2)[1], in)
    BY <2>1 DEF Runs, Statement
  <2>3. QED
    BY <2>1, <2>2, FileFails
<1>2. CASE dbProfile # "postgres"
  <2>1. /\ Len(File(2)) = 9 /\ File(2)[1] = Create("monitors_v2")
        /\ File(2)[2] = Statement({"http_json", "monitors_v2"}, {"copies"}, {}, {<<"rows", "copies">>}, {})
    BY <1>2, SecondFile DEF ReplaceMonitors
  <2>2. CASE "monitors_v2" \in in
    <3>1. ~ Runs(File(2)[1], in)
      BY <2>1, <2>2, CreateIs
    <3>2. QED
      BY <2>1, <3>1, FileFails
  <2>3. CASE "monitors_v2" \notin in
    <3> DEFINE next == in \cup {"monitors_v2"}
               s == [n \in 1 .. 2 |-> IF n = 1 THEN in ELSE next]
    <3>1. Listing(s, 2) /\ s[1] = in /\ s[2] = next
      BY DEF Listing
    <3>2. Runs(File(2)[1], in) /\ After(File(2)[1], in) = next
      BY <2>1, <2>3, CreateIs
    <3>3. ~ Runs(File(2)[2], next)
      BY <2>1 DEF Runs, Statement
    <3> HIDE DEF s, next
    <3>4. Chain(File(2), 2, s)
      <4>1. \A n \in 1 .. 2 - 1 : n = 1
        OBVIOUS
      <4>2. QED
        BY <3>1, <3>2, <4>1 DEF Chain
    <3>5. RunsAs(File(2), in, 2, s)
      BY <2>1, <3>1, <3>3, <3>4 DEF RunsAs
    <3>6. Len(File(2)) \in Nat
      BY <2>1
    <3>7. Through(2, in) = s /\ Len(s) = 2
      BY <3>5, <3>6, ThroughIs, Zenon
    <3>8. QED
      BY <2>1, <3>7, SMTT(30) DEF Succeeds
  <2>4. QED
    BY <2>2, <2>3
<1>3. QED
  BY <1>1, <1>2

\* The schema of each version, written out.
ProfileOK == upgraded \in BOOLEAN /\ dbProfile \in {"sqlite", "turso-cloud", "postgres"} /\ (upgraded => dbProfile = "sqlite")

LEMMA ContentsNext ==
  ASSUME ProfileOK
  PROVE  /\ Succeeds(1, Contents(0, upgraded)) /\ Result(1, Contents(0, upgraded)) = Contents(1, FALSE)
         /\ Succeeds(2, Contents(1, upgraded)) /\ Result(2, Contents(1, upgraded)) = Contents(2, upgraded)
         /\ Succeeds(3, Contents(2, upgraded)) /\ Result(3, Contents(2, upgraded)) = Contents(3, upgraded)
<1>1. /\ Contents(0, upgraded) = {} /\ Contents(1, FALSE) = Halfway(0, FALSE)
      /\ Contents(1, upgraded) = Halfway(0, upgraded) /\ Contents(2, upgraded) = Halfway(9, upgraded)
      /\ Contents(3, upgraded) = Halfway(9, upgraded) \cup {"stale_at", "due_location_health"}
  BY DEF Contents
<1>2. upgraded \in BOOLEAN /\ (dbProfile = "postgres" => upgraded = FALSE)
  BY DEF ProfileOK
<1>3. "stale_at" \notin Halfway(9, upgraded) /\ "due_location_health" \notin Halfway(9, upgraded)
  BY <1>2, HalfwayHolds
<1>4. Succeeds(2, Halfway(0, upgraded)) /\ Result(2, Halfway(0, upgraded)) = Halfway(9, upgraded)
  BY <1>2, SecondWhole
<1>5. /\ Succeeds(3, Halfway(9, upgraded))
      /\ Result(3, Halfway(9, upgraded)) = Halfway(9, upgraded) \cup {"stale_at", "due_location_health"}
  BY <1>3, ThirdFile
<1>6. QED
  BY <1>1, <1>4, <1>5, FirstFile

LEMMA ShapeIs ==
  ASSUME ProfileOK
  PROVE  \A v \in 0 .. 3 : Shape(v) = Contents(v, upgraded)
<1> DEFINE Next(v, before) == Result(v, before) \cup (IF v = 1 /\ upgraded THEN {"rows"} ELSE {})
           at == CHOOSE f : f = [v \in 0 .. 3 |-> IF v = 0 THEN {} ELSE Next(v, f[v - 1])]
           g == [v \in 0 .. 3 |-> Contents(v, upgraded)]
<1>1. \A v : Shape(v) = at[v]
  BY DEF Shape, LatestVersion
<1>2. /\ Contents(1, upgraded) = Next(1, Contents(0, upgraded))
      /\ Contents(2, upgraded) = Next(2, Contents(1, upgraded))
      /\ Contents(3, upgraded) = Next(3, Contents(2, upgraded))
  <2>1. Contents(1, upgraded) = Contents(1, FALSE) \cup (IF upgraded THEN {"rows"} ELSE {})
    BY DEF Contents, Halfway, Old
  <2>2. QED
    BY <2>1, ContentsNext
<1>3. Contents(0, upgraded) = {}
  BY DEF Contents
<1> HIDE DEF Next
<1>4. g = [v \in 0 .. 3 |-> IF v = 0 THEN {} ELSE Next(v, g[v - 1])]
  <2>1. \A v \in 0 .. 3 : g[v] = IF v = 0 THEN {} ELSE Next(v, g[v - 1])
    <3>1. \A v \in 0 .. 3 : v = 0 \/ v = 1 \/ v = 2 \/ v = 3
      OBVIOUS
    <3>2. QED
      BY <1>2, <1>3, <3>1
  <2>2. g = [v \in 0 .. 3 |-> g[v]]
    BY Zenon
  <2> HIDE DEF g
  <2>3. QED
    BY <2>1, <2>2, Zenon
<1> HIDE DEF g
<1>5. at = [v \in 0 .. 3 |-> IF v = 0 THEN {} ELSE Next(v, at[v - 1])]
  BY <1>4
<1> HIDE DEF at
<1>6. at[0] = g[0] /\ at[1] = g[1] /\ at[2] = g[2] /\ at[3] = g[3]
  <2>1. at[0] = {} /\ at[1] = Next(1, at[0]) /\ at[2] = Next(2, at[1]) /\ at[3] = Next(3, at[2])
    BY <1>5
  <2>2. g[0] = {} /\ g[1] = Next(1, g[0]) /\ g[2] = Next(2, g[1]) /\ g[3] = Next(3, g[2])
    BY <1>4
  <2>3. QED
    BY <2>1, <2>2
<1>7. \A v \in 0 .. 3 : at[v] = g[v] /\ (v = 0 \/ v = 1 \/ v = 2 \/ v = 3)
  <2>1. \A v \in 0 .. 3 : v = 0 \/ v = 1 \/ v = 2 \/ v = 3
    OBVIOUS
  <2>2. QED
    BY <1>6, <2>1
<1>8. QED
  BY <1>1, <1>7 DEF g

-----------------------------------------------------------------------------
\* The rows of schema_migrations.
Recordings == {r \in Seq(Nat) : r = [v \in 1 .. Len(r) |-> v] /\ Len(r) \in 0 .. 3}
VersionOf(r) == IF r = <<>> THEN 0 ELSE r[Len(r)]
MigrateRow == [pc : {"idle", "read", "apply"}, next : 0 .. 4, statement : 0 .. 10]

\* A command has not changed the schema, or has only made a monitors_v2 that it
\* cannot fill.
BehindIn(row, db) ==
  row.pc = "apply" /\ row.next = 2 => row.statement = 1 \/ (row.statement = 2 /\ "http_json" \notin db)

\* The schema is that of a version or of a part of the second file, but for a
\* monitors_v2 that is left.
Left == {"monitors_v2"}
WholeIn(db, v) ==
  db = Contents(v, upgraded) \/ (dbProfile = "sqlite" /\ v >= 2 /\ db = Contents(v, upgraded) \cup Left)
PartIn(db, k) == db = Halfway(k, upgraded) \/ (k >= 4 /\ db = Halfway(k, upgraded) \cup Left)

\* One command at most is ahead of the others, at the statement that the schema
\* waits for.
AheadIn(rows, db, k) ==
  /\ \A c \in Command : BehindIn(rows[c], db) \/ rows[c].statement = k + 1
  /\ \A c, d \in Command : ~ BehindIn(rows[c], db) /\ ~ BehindIn(rows[d], db) => c = d

SchemaFits(rows, db, v) ==
  \/ WholeIn(db, v) /\ (dbProfile = "sqlite" => \A c \in Command : BehindIn(rows[c], db))
  \/ dbProfile = "sqlite" /\ v = 1 /\ \E k \in 1 .. 9 : PartIn(db, k) /\ AheadIn(rows, db, k)

NextIn(row, v) == row \in MigrateRow /\ (row.pc = "apply" => row.next \in 1 .. v + 1)

MigrationInv ==
  /\ ProfileOK
  /\ recorded \in Recordings /\ (upgraded => recorded # <<>>)
  /\ migrating = [c \in Command |-> migrating[c]] /\ \A c \in Command : NextIn(migrating[c], Version)
  /\ SchemaFits(migrating, schema, Version)

\* Rows appended in order.
LEMMA Recorded ==
  ASSUME NEW r \in Seq(Nat), r = [v \in 1 .. Len(r) |-> v]
  PROVE  /\ VersionOf(r) = Len(r)
         /\ Append(r, Len(r) + 1) = [v \in 1 .. Len(Append(r, Len(r) + 1)) |-> v]
         /\ Append(r, Len(r) + 1) \in Seq(Nat) /\ Len(Append(r, Len(r) + 1)) = Len(r) + 1
<1> DEFINE m == Len(r)
           a == Append(r, m + 1)
<1>1. m \in Nat /\ \A v \in 1 .. m : r[v] = v
  OBVIOUS
<1>2. a \in Seq(Nat) /\ Len(a) = m + 1 /\ a[m + 1] = m + 1 /\ \A v \in 1 .. m : a[v] = r[v]
  BY <1>1, AppendProperties
<1>3. VersionOf(r) = m
  <2>1. CASE r = <<>>
    BY <2>1 DEF VersionOf
  <2>2. CASE r # <<>>
    <3>1. m # 0
      BY <2>2, EmptySeq
    <3>2. QED
      BY <1>1, <2>2, <3>1 DEF VersionOf
  <2>3. QED
    BY <2>1, <2>2
<1> HIDE DEF a, m
<1>4. \A v \in 1 .. m + 1 : a[v] = v
  BY <1>1, <1>2
<1>5. a = [v \in 1 .. Len(a) |-> v]
  BY <1>1, <1>2, <1>4
<1>6. QED
  BY <1>2, <1>3, <1>5 DEF a, m

LEMMA VersionIs ==
  ASSUME NEW r \in Recordings
  PROVE  /\ VersionOf(r) \in 0 .. 3 /\ (VersionOf(r) = 0 <=> r = <<>>)
         /\ r = [v \in 1 .. Len(r) |-> v]
         /\ VersionOf(r) < 3 => /\ Append(r, VersionOf(r) + 1) \in Recordings
                                /\ VersionOf(Append(r, VersionOf(r) + 1)) = VersionOf(r) + 1
<1>1. r \in Seq(Nat) /\ r = [v \in 1 .. Len(r) |-> v] /\ Len(r) \in 0 .. 3
  BY DEF Recordings
<1>2. VersionOf(r) = Len(r)
  BY <1>1, Recorded
<1> DEFINE a == Append(r, Len(r) + 1)
<1>3. a = [v \in 1 .. Len(a) |-> v] /\ a \in Seq(Nat) /\ Len(a) = Len(r) + 1
  BY <1>1, Recorded
<1>4. VersionOf(a) = Len(r) + 1
  BY <1>3, Recorded
<1>5. Len(r) = 0 <=> r = <<>>
  BY <1>1, EmptySeq
<1> HIDE DEF a
<1>6. ASSUME Len(r) < 3 PROVE a \in Recordings
  <2>1. Len(a) \in 0 .. 3
    BY <1>1, <1>3, <1>6
  <2>2. QED
    BY <1>3, <2>1, Zenon DEF Recordings
<1>7. QED
  BY <1>1, <1>2, <1>4, <1>5, <1>6 DEF a

LEMMA MigrationInvInit == MigrationInit => MigrationInv
<1> SUFFICES ASSUME MigrationInit PROVE MigrationInv
  OBVIOUS
<1>1. ProfileOK
  BY DEF MigrationInit, ProfileOK
<1>2. recorded = IF upgraded THEN <<1>> ELSE <<>>
  BY DEF MigrationInit
<1>3. recorded \in Recordings /\ (upgraded => recorded # <<>>)
  BY <1>2 DEF Recordings
<1>4. Version = VersionOf(recorded) /\ Version \in 0 .. 3
  BY <1>3, VersionIs DEF Version, VersionOf
<1>5. schema = Contents(Version, upgraded)
  BY <1>1, <1>4, ShapeIs DEF MigrationInit
<1>6. \A c \in Command : migrating[c] = NoCommand
  BY DEF MigrationInit
<1>7. NextIn(NoCommand, Version) /\ BehindIn(NoCommand, schema)
  BY DEF NextIn, BehindIn, NoCommand, MigrateRow
<1>8. SchemaFits(migrating, schema, Version)
  BY <1>5, <1>6, <1>7 DEF SchemaFits, WholeIn
<1>9. migrating = [c \in Command |-> migrating[c]]
  BY DEF MigrationInit
<1>10. QED
  BY <1>1, <1>3, <1>6, <1>7, <1>8, <1>9 DEF MigrationInv

\* What the invariant says.
LEMMA MigrationMatches == MigrationInv => SchemaMatchesVersion
<1> SUFFICES ASSUME MigrationInv PROVE SchemaMatchesVersion
  OBVIOUS
<1>1. ProfileOK /\ upgraded \in BOOLEAN /\ recorded \in Recordings
  BY DEF MigrationInv, ProfileOK
<1>2. Version = VersionOf(recorded) /\ Version \in 0 .. 3 /\ recorded = [v \in 1 .. Len(recorded) |-> v]
  BY <1>1, VersionIs DEF Version, VersionOf
<1>3. upgraded => Version # 0
  BY <1>1, <1>2, VersionIs DEF MigrationInv
<1>4. /\ Contents(0, upgraded) = {} /\ Contents(1, upgraded) = Halfway(0, upgraded)
      /\ Contents(2, upgraded) = Halfway(9, upgraded)
      /\ Contents(3, upgraded) = Halfway(9, upgraded) \cup {"stale_at", "due_location_health"}
  BY DEF Contents
<1>5. \A v \in 0 .. 3 : /\ "monitors_v2" \notin Contents(v, upgraded)
                        /\ upgraded /\ v # 0 => "rows" \in Contents(v, upgraded)
  <2>1. \A v \in 0 .. 3 : v = 0 \/ v = 1 \/ v = 2 \/ v = 3
    OBVIOUS
  <2>2. /\ "monitors_v2" \notin Halfway(0, upgraded) /\ "monitors_v2" \notin Halfway(9, upgraded)
        /\ upgraded => "rows" \in Halfway(0, upgraded) /\ "rows" \in Halfway(9, upgraded)
    BY <1>1, HalfwayHolds
  <2>3. QED
    BY <1>4, <2>1, <2>2
<1>6. Shape(Version) = Contents(Version, upgraded) /\ Shape(3) = Contents(3, upgraded)
  BY <1>1, <1>2, ShapeIs
<1>7. CASE WholeIn(schema, Version)
  <2>1. /\ schema \ {"monitors_v2"} = Contents(Version, upgraded)
        /\ Contents(Version, upgraded) \subseteq schema
    BY <1>2, <1>5, <1>7 DEF WholeIn, Left
  <2>2. upgraded => {"rows", "copies"} \cap schema # {}
    BY <1>2, <1>3, <1>5, <2>1
  <2>3. QED
    BY <1>2, <1>6, <2>1, <2>2 DEF SchemaMatchesVersion, Ready, LatestVersion
<1>8. CASE ~ WholeIn(schema, Version)
  <2>1. PICK k \in 1 .. 9 : dbProfile = "sqlite" /\ Version = 1 /\ PartIn(schema, k)
    BY <1>8 DEF MigrationInv, SchemaFits
  <2>2. upgraded => "rows" \in schema \/ "copies" \in schema
    <3>1. upgraded => "rows" \in Halfway(k, upgraded) \/ "copies" \in Halfway(k, upgraded)
      <4>1. CASE k = 3
        <5>1. 3 \in 0 .. 9 /\ 3 \in 2 .. 3
          OBVIOUS
        <5>2. QED
          BY <1>1, <4>1, <5>1, HalfwayHolds
      <4>2. CASE k # 3
        <5>1. k \in 0 .. 9
          OBVIOUS
        <5>2. QED
          BY <1>1, <4>2, <5>1, HalfwayHolds
      <4>3. QED
        BY <4>1, <4>2
    <3>2. QED
      BY <2>1, <3>1 DEF PartIn
  <2>3. upgraded => {"rows", "copies"} \cap schema # {}
    BY <2>2
  <2>4. ~ Ready
    BY <2>1 DEF Ready, LatestVersion
  <2>5. QED
    BY <1>2, <2>1, <2>3, <2>4 DEF SchemaMatchesVersion
<1>9. QED
  BY <1>7, <1>8

-----------------------------------------------------------------------------
LEMMA ContentsHold ==
  ASSUME NEW u \in BOOLEAN, NEW v \in 0 .. 3
  PROVE  /\ v # 0 => "tables" \in Contents(v, u)
         /\ v >= 2 => "http_json" \notin Contents(v, u)
         /\ v = 2 => "stale_at" \notin Contents(v, u) /\ "due_location_health" \notin Contents(v, u)
         /\ v = 3 => "stale_at" \in Contents(v, u)
<1>1. /\ "tables" \in Halfway(0, u) /\ "tables" \in Halfway(9, u) /\ "http_json" \notin Halfway(9, u)
      /\ "stale_at" \notin Halfway(9, u) /\ "due_location_health" \notin Halfway(9, u)
  <2>1. 0 \in 0 .. 9 /\ 9 \in 0 .. 9 /\ ~ (9 <= 2)
    OBVIOUS
  <2>2. QED
    BY <2>1, HalfwayHolds
<1>2. CASE v = 0
  BY <1>2
<1>3. CASE v = 1
  BY <1>1, <1>3 DEF Contents
<1>4. CASE v = 2
  BY <1>1, <1>4 DEF Contents
<1>5. CASE v = 3
  BY <1>1, <1>5 DEF Contents
<1>6. QED
  BY <1>2, <1>3, <1>4, <1>5

LEMMA BehindKept ==
  ASSUME NEW row, NEW db, NEW after, BehindIn(row, db), "http_json" \in after => "http_json" \in db
  PROVE  BehindIn(row, after)
BY DEF BehindIn

\* A step that changes the row of one command, to one that is behind.
Moves(rows, c, row, after) ==
  /\ after = [d \in Command |-> after[d]] /\ after[c] = row
  /\ \A d \in Command \ {c} : after[d] = rows[d]

LEMMA MovesOne ==
  ASSUME NEW c \in Command, NEW row, NEW after, migrating = [d \in Command |-> migrating[d]],
         after = [migrating EXCEPT ![c] = row]
  PROVE  Moves(migrating, c, row, after)
BY DEF Moves

LEMMA SchemaFitsStill ==
  ASSUME NEW c \in Command, NEW rows, NEW row, NEW after, NEW db, NEW v, Moves(rows, c, row, after),
         BehindIn(row, db), SchemaFits(rows, db, v)
  PROVE  SchemaFits(after, db, v)
<1>1. \A d \in Command : after[d] = rows[d] \/ (d = c /\ after[d] = row)
  BY DEF Moves
<1>2. CASE WholeIn(db, v) /\ (dbProfile = "sqlite" => \A d \in Command : BehindIn(rows[d], db))
  <2>1. dbProfile = "sqlite" => \A d \in Command : BehindIn(after[d], db)
    BY <1>1, <1>2
  <2>2. QED
    BY <1>2, <2>1 DEF SchemaFits
<1>3. ASSUME dbProfile = "sqlite", v = 1, NEW k \in 1 .. 9, PartIn(db, k), AheadIn(rows, db, k)
      PROVE  SchemaFits(after, db, v)
  <2>1. \A d \in Command : BehindIn(after[d], db) \/ (~ BehindIn(rows[d], db) /\ after[d] = rows[d])
    BY <1>1
  <2>2. AheadIn(after, db, k)
    BY <1>3, <2>1 DEF AheadIn
  <2>3. QED
    BY <1>3, <2>2 DEF SchemaFits
<1>4. QED
  BY <1>2, <1>3 DEF SchemaFits

\* What is left of the invariant in a step.
LEMMA MigrationKept ==
  ASSUME MigrationInv, NEW c \in Command, NEW row, UNCHANGED <<dbProfile, upgraded>>,
         Moves(migrating, c, row, migrating'),
         recorded' \in Recordings, upgraded => recorded' # <<>>,
         Version' \in Nat, Version' >= Version, NextIn(row, Version'),
         SchemaFits(migrating', schema', Version')
  PROVE  MigrationInv'
<1>1. ProfileOK'
  BY DEF MigrationInv, ProfileOK
<1>2. recorded' \in Recordings' /\ (upgraded' => recorded' # <<>>)
  BY DEF Recordings
<1>3. Version \in Nat
  BY VersionIs DEF MigrationInv, Version, VersionOf
<1>4. \A d \in Command : NextIn(migrating[d], Version')
  BY <1>3 DEF MigrationInv, NextIn, MigrateRow
<1>5. \A d \in Command : NextIn(migrating'[d], Version')
  BY <1>4 DEF Moves
<1>6. migrating' = [d \in Command |-> migrating'[d]]
  BY DEF Moves
<1>7. SchemaFits(migrating, schema, Version)'
  <2>1. CASE WholeIn(schema', Version') /\ (dbProfile = "sqlite" => \A d \in Command : BehindIn(migrating'[d], schema'))
    <3>1. WholeIn(schema, Version)'
      BY <2>1 DEF WholeIn, Left
    <3>2. (dbProfile = "sqlite" => \A d \in Command : BehindIn(migrating[d], schema))'
      BY <2>1 DEF BehindIn
    <3>3. QED
      BY <3>1, <3>2 DEF SchemaFits
  <2>2. ASSUME dbProfile = "sqlite", Version' = 1, NEW k \in 1 .. 9, PartIn(schema', k), AheadIn(migrating', schema', k)
        PROVE  SchemaFits(migrating, schema, Version)'
    <3>1. PartIn(schema, k)'
      BY <2>2 DEF PartIn, Left
    <3>2. AheadIn(migrating, schema, k)'
      BY <2>2 DEF AheadIn, BehindIn
    <3>3. QED
      BY <2>2, <3>1, <3>2 DEF SchemaFits
  <2>3. QED
    BY <2>1, <2>2 DEF SchemaFits
<1>8. QED
  BY <1>1, <1>2, <1>5, <1>6, <1>7 DEF MigrationInv

\* What every step starts from.
LEMMA MigrationNow ==
  ASSUME MigrationInv
  PROVE  /\ upgraded \in BOOLEAN /\ ProfileOK
         /\ recorded \in Recordings /\ (upgraded => recorded # <<>>) /\ (upgraded => Version # 0)
         /\ Version \in 0 .. 3 /\ Version = VersionOf(recorded)
         /\ \A c \in Command : NextIn(migrating[c], Version) /\ migrating[c] \in MigrateRow
         /\ migrating = [c \in Command |-> migrating[c]]
         /\ SchemaFits(migrating, schema, Version)
<1>1. upgraded \in BOOLEAN /\ ProfileOK
  BY DEF MigrationInv, ProfileOK
<1>2. recorded \in Recordings /\ (upgraded => recorded # <<>>)
  BY DEF MigrationInv
<1>3. Version = VersionOf(recorded)
  BY DEF Version, VersionOf
<1>4. Version \in 0 .. 3 /\ (Version = 0 <=> recorded = <<>>)
  BY <1>2, <1>3, VersionIs
<1>5. QED
  BY <1>1, <1>2, <1>3, <1>4 DEF MigrationInv, NextIn

\* A step that changes neither the schema nor the versions.
LEMMA QuietKeeps ==
  ASSUME MigrationInv, NEW c \in Command, NEW row, NextIn(row, Version), BehindIn(row, schema),
         migrating' = [migrating EXCEPT ![c] = row], UNCHANGED <<dbProfile, schema, recorded, upgraded>>
  PROVE  MigrationInv'
<1>1. Moves(migrating, c, row, migrating')
  BY MovesOne, MigrationNow
<1>2. Version' = Version /\ Version \in Nat /\ Version >= Version
  <2>1. Version' = Version
    BY DEF Version
  <2>2. QED
    BY <2>1, MigrationNow
<1>3. SchemaFits(migrating', schema, Version)
  BY <1>1, SchemaFitsStill, MigrationNow
<1>4. QED
  BY <1>1, <1>2, <1>3, MigrationKept, MigrationNow

LEMMA StartMigrateKeeps ==
  ASSUME MigrationInv, NEW c \in Command, StartMigrate(c)
  PROVE  MigrationInv'
<1> DEFINE row == [migrating[c] EXCEPT !.pc = "read"]
<1>1. migrating[c] \in MigrateRow
  BY MigrationNow
<1>2. row \in MigrateRow /\ row.pc = "read"
  BY <1>1 DEF MigrateRow
<1>3. migrating' = [migrating EXCEPT ![c] = row] /\ UNCHANGED <<dbProfile, schema, recorded, upgraded>>
  BY DEF StartMigrate
<1> HIDE DEF row
<1>4. QED
  BY <1>2, <1>3, QuietKeeps DEF NextIn, BehindIn

LEMMA EndMigrateKeeps ==
  ASSUME MigrationInv, NEW c \in Command, EndMigrate(c)
  PROVE  MigrationInv'
<1>1. NextIn(NoCommand, Version) /\ BehindIn(NoCommand, schema)
  BY DEF NextIn, BehindIn, NoCommand, MigrateRow
<1>2. migrating' = [migrating EXCEPT ![c] = NoCommand] /\ UNCHANGED <<dbProfile, schema, recorded, upgraded>>
  BY DEF EndMigrate
<1>3. QED
  BY <1>1, <1>2, QuietKeeps

LEMMA ReadVersionKeeps ==
  ASSUME MigrationInv, NEW c \in Command, ReadVersion(c)
  PROVE  MigrationInv'
<1> DEFINE row == [pc |-> "apply", next |-> Version + 1, statement |-> 1]
<1>1. Version \in 0 .. 3
  BY MigrationNow
<1>2. NextIn(row, Version) /\ BehindIn(row, schema)
  BY <1>1 DEF NextIn, BehindIn, MigrateRow
<1>3. migrating' = [migrating EXCEPT ![c] = row] /\ UNCHANGED <<dbProfile, schema, recorded, upgraded>>
  BY DEF ReadVersion
<1> HIDE DEF row
<1>4. QED
  BY <1>2, <1>3, QuietKeeps

\* The next file, for a command that is done with one.
LEMMA NextFileMoves ==
  ASSUME MigrationInv, NEW c \in Command, migrating[c].pc = "apply", migrating[c].next \in 1 .. 3,
         migrating' = NextFile(c)
  PROVE  \E row : /\ Moves(migrating, c, row, migrating')
                  /\ row \in MigrateRow /\ row.pc = "apply" /\ row.statement = 1
                  /\ row.next = migrating[c].next + 1
<1>1. migrating[c] \in MigrateRow /\ migrating = [d \in Command |-> migrating[d]]
  BY MigrationNow
<1> DEFINE half == [migrating[c] EXCEPT !.next = @ + 1]
           row == [half EXCEPT !.statement = 1]
<1>2. migrating[c].next + 1 \in 0 .. 4
  OBVIOUS
<1>3. half \in MigrateRow /\ half.pc = "apply" /\ half.next = migrating[c].next + 1
  BY <1>1, <1>2 DEF MigrateRow
<1> DEFINE first == [migrating EXCEPT ![c].next = @ + 1]
<1>4. first = [migrating EXCEPT ![c] = half]
  OBVIOUS
<1>5. migrating' = [first EXCEPT ![c].statement = 1]
  BY DEF NextFile
<1>6. first[c] = half /\ \A d \in Command \ {c} : first[d] = migrating[d]
  BY <1>1, <1>4
<1>7. first = [d \in Command |-> first[d]]
  BY <1>1
<1> HIDE DEF first, half
<1>8. migrating' = [d \in Command |-> migrating'[d]] /\ migrating'[c] = row
      /\ \A d \in Command \ {c} : migrating'[d] = first[d]
  BY <1>5, <1>6, <1>7
<1>9. row \in MigrateRow /\ row.pc = "apply" /\ row.statement = 1 /\ row.next = half.next
  BY <1>3 DEF MigrateRow
<1> HIDE DEF row
<1>10. Moves(migrating, c, row, migrating')
  BY <1>6, <1>8 DEF Moves
<1>11. QED
  BY <1>3, <1>9, <1>10

\* The version after one more row.
LEMMA VersionNext ==
  ASSUME MigrationInv, Version < 3, recorded' = Append(recorded, Version + 1)
  PROVE  recorded' \in Recordings /\ recorded' # <<>> /\ Version' = Version + 1
<1>1. recorded \in Recordings /\ Version = VersionOf(recorded) /\ Version \in 0 .. 3
  BY MigrationNow
<1>2. recorded' \in Recordings /\ VersionOf(recorded') = Version + 1
  BY <1>1, VersionIs
<1>3. Version' = VersionOf(recorded')
  BY DEF Version, VersionOf
<1>4. recorded' # <<>>
  <2>1. VersionOf(recorded') # 0
    BY <1>1, <1>2
  <2>2. QED
    BY <1>2, <2>1, VersionIs
<1>5. QED
  BY <1>2, <1>3, <1>4

LEMMA RecordVersionKeeps ==
  ASSUME MigrationInv, NEW c \in Command, RecordVersion(c)
  PROVE  MigrationInv'
<1>1. /\ upgraded \in BOOLEAN /\ Version \in 0 .. 3 /\ NextIn(migrating[c], Version)
      /\ SchemaFits(migrating, schema, Version)
  BY MigrationNow
<1>2. /\ dbProfile = "sqlite" /\ migrating[c].next = 2 /\ migrating[c].pc = "apply"
      /\ migrating[c].statement > Len(File(2)) /\ recorded' = Append(recorded, 2)
      /\ migrating' = NextFile(c) /\ UNCHANGED <<dbProfile, schema, upgraded>>
  BY DEF RecordVersion, Pending, Transactional
<1>3. migrating[c].statement = 10
  <2>1. Len(File(2)) = 9
    BY <1>2, SecondFile
  <2>2. migrating[c].statement \in 0 .. 10
    BY <1>1 DEF NextIn, MigrateRow
  <2>3. \A m, n : m \in 0 .. 10 /\ n = 9 /\ m > n => m = 10
    OBVIOUS
  <2>4. QED
    BY <1>2, <2>1, <2>2, <2>3, Zenon
<1>4. ~ BehindIn(migrating[c], schema)
  BY <1>2, <1>3 DEF BehindIn
<1>5. PICK k \in 1 .. 9 : Version = 1 /\ PartIn(schema, k) /\ AheadIn(migrating, schema, k)
  BY <1>1, <1>2, <1>4 DEF SchemaFits
<1>6. k = 9
  BY <1>3, <1>4, <1>5 DEF AheadIn
<1>7. WholeIn(schema, 2)
  <2>1. Contents(2, upgraded) = Halfway(9, upgraded)
    BY DEF Contents
  <2>2. QED
    BY <1>2, <1>5, <1>6, <2>1 DEF PartIn, WholeIn
<1>8. PICK row : /\ Moves(migrating, c, row, migrating') /\ row \in MigrateRow
                 /\ row.pc = "apply" /\ row.next = 3
  <2>1. migrating[c].next \in 1 .. 3 /\ migrating[c].next + 1 = 3
    BY <1>2
  <2>2. QED
    BY <1>2, <2>1, NextFileMoves
<1>9. recorded' \in Recordings /\ recorded' # <<>> /\ Version' = 2
  BY <1>2, <1>5, VersionNext
<1>10. BehindIn(row, schema) /\ NextIn(row, 2)
  BY <1>8 DEF BehindIn, NextIn
<1>11. \A d \in Command : BehindIn(migrating'[d], schema)
  <2>1. \A d \in Command : d # c => BehindIn(migrating[d], schema)
    BY <1>4, <1>5 DEF AheadIn
  <2>2. QED
    BY <1>8, <1>10, <2>1 DEF Moves
<1>12. SchemaFits(migrating', schema', 2)
  BY <1>2, <1>7, <1>11 DEF SchemaFits
<1>13. QED
  BY <1>2, <1>5, <1>8, <1>9, <1>10, <1>12, MigrationKept

\* A file in a transaction is the one after the version.
LEMMA ApplyFileIs ==
  ASSUME MigrationInv, NEW v \in 1 .. 3, v <= Version + 1, Transactional(v), Succeeds(v, schema)
  PROVE  v = Version + 1 /\ WholeIn(schema, Version) /\ (dbProfile = "sqlite" => v # 2)
<1>1. upgraded \in BOOLEAN /\ Version \in 0 .. 3 /\ SchemaFits(migrating, schema, Version)
  BY MigrationNow
<1>2. dbProfile = "sqlite" => v # 2
  BY DEF Transactional
<1>3. CASE WholeIn(schema, Version)
  <2>1. Contents(Version, upgraded) \subseteq schema
    BY <1>3 DEF WholeIn
  <2>2. ASSUME v <= Version PROVE FALSE
    <3>1. CASE v = 1
      <4>1. "tables" \in schema
        BY <1>1, <2>1, <2>2, <3>1, ContentsHold
      <4>2. schema \cap {"tables", "monitors"} # {}
        BY <4>1
      <4>3. QED
        BY <3>1, <4>2, FirstFile
    <3>2. CASE v = 2
      <4>1. "http_json" \notin Contents(Version, upgraded)
        BY <1>1, <2>2, <3>2, ContentsHold
      <4>2. "http_json" \notin schema
        BY <1>3, <4>1 DEF WholeIn, Left
      <4>3. QED
        BY <3>2, <4>2, SecondAgain
    <3>3. CASE v = 3
      <4>1. "stale_at" \in schema
        BY <1>1, <2>1, <2>2, <3>3, ContentsHold
      <4>2. QED
        BY <3>3, <4>1, ThirdFile
    <3>4. v = 1 \/ v = 2 \/ v = 3
      OBVIOUS
    <3>5. QED
      BY <3>1, <3>2, <3>3, <3>4
  <2>3. QED
    BY <1>1, <1>2, <1>3, <2>2
<1>4. CASE ~ WholeIn(schema, Version)
  <2>1. PICK k \in 1 .. 9 : dbProfile = "sqlite" /\ Version = 1 /\ PartIn(schema, k)
    BY <1>1, <1>4 DEF SchemaFits
  <2>2. v = 1
    BY <1>2, <2>1
  <2>3. "tables" \in Halfway(k, upgraded)
    <3>1. k \in 0 .. 9
      OBVIOUS
    <3>2. QED
      BY <1>1, <3>1, HalfwayHolds
  <2>4. schema \cap {"tables", "monitors"} # {}
    BY <2>1, <2>3 DEF PartIn
  <2>5. QED
    BY <2>2, <2>4, FirstFile
<1>5. QED
  BY <1>3, <1>4

\* And makes the contents of that version.
LEMMA ApplyFileMakes ==
  ASSUME MigrationInv, Version < 3, WholeIn(schema, Version)
  PROVE  WholeIn(Result(Version + 1, schema), Version + 1)
<1>1. upgraded \in BOOLEAN /\ ProfileOK /\ Version \in 0 .. 3 /\ (upgraded => Version # 0)
  BY MigrationNow
<1>2. CASE Version = 0
  <2>1. schema = Contents(0, upgraded) /\ upgraded = FALSE
    BY <1>1, <1>2 DEF WholeIn
  <2>2. Result(1, Contents(0, upgraded)) = Contents(1, FALSE)
    BY <1>1, ContentsNext
  <2>3. WholeIn(Result(1, schema), 1)
    BY <2>1, <2>2, Zenon DEF WholeIn
  <2>4. Version + 1 = 1
    BY <1>2
  <2>5. QED
    BY <2>3, <2>4
<1>3. CASE Version = 1
  <2>1. schema = Contents(1, upgraded)
    BY <1>3 DEF WholeIn
  <2>2. Result(2, Contents(1, upgraded)) = Contents(2, upgraded)
    BY <1>1, ContentsNext
  <2>3. QED
    BY <1>3, <2>1, <2>2 DEF WholeIn
<1>4. CASE Version = 2
  <2>1. "stale_at" \notin Contents(2, upgraded) /\ "due_location_health" \notin Contents(2, upgraded)
    BY <1>1, ContentsHold
  <2>2. Contents(3, upgraded) = Contents(2, upgraded) \cup {"stale_at", "due_location_health"}
    BY DEF Contents
  <2>3. "stale_at" \notin schema /\ "due_location_health" \notin schema
    BY <1>4, <2>1 DEF WholeIn, Left
  <2>4. Result(3, schema) = schema \cup {"stale_at", "due_location_health"}
    BY <2>3, ThirdFile
  <2>5. schema = Contents(2, upgraded) \/ (dbProfile = "sqlite" /\ schema = Contents(2, upgraded) \cup Left)
    BY <1>4 DEF WholeIn
  <2>6. Result(3, schema) = Contents(3, upgraded) \/ (dbProfile = "sqlite" /\ Result(3, schema) = Contents(3, upgraded) \cup Left)
    BY <2>2, <2>4, <2>5
  <2>7. QED
    BY <1>4, <2>6 DEF WholeIn
<1>5. QED
  BY <1>1, <1>2, <1>3, <1>4

LEMMA ApplyFileKeeps ==
  ASSUME MigrationInv, NEW c \in Command, ApplyFile(c)
  PROVE  MigrationInv'
<1> DEFINE v == migrating[c].next
<1>1. /\ upgraded \in BOOLEAN /\ Version \in 0 .. 3 /\ NextIn(migrating[c], Version)
      /\ SchemaFits(migrating, schema, Version)
      /\ \A d \in Command : NextIn(migrating[d], Version)
  BY MigrationNow
<1>2. /\ migrating[c].pc = "apply" /\ v <= 3 /\ Transactional(v) /\ Succeeds(v, schema)
      /\ schema' = Result(v, schema) /\ recorded' = Append(recorded, v)
      /\ migrating' = NextFile(c) /\ UNCHANGED <<dbProfile, upgraded>>
  BY DEF ApplyFile, Pending, AppliesWhole, LatestVersion
<1>3. v \in 1 .. 3 /\ v <= Version + 1
  BY <1>1, <1>2 DEF NextIn
<1>4. v = Version + 1 /\ WholeIn(schema, Version) /\ (dbProfile = "sqlite" => v # 2)
  BY <1>2, <1>3, ApplyFileIs
<1>5. Version < 3
  BY <1>1, <1>3, <1>4
<1>6. WholeIn(schema', Version + 1)
  BY <1>2, <1>4, <1>5, ApplyFileMakes
<1>7. recorded' \in Recordings /\ recorded' # <<>> /\ Version' = Version + 1
  BY <1>2, <1>4, <1>5, VersionNext
<1>8. PICK row : /\ Moves(migrating, c, row, migrating') /\ row \in MigrateRow
                 /\ row.pc = "apply" /\ row.statement = 1 /\ row.next = v + 1
  BY <1>2, <1>3, NextFileMoves
<1>9. NextIn(row, Version + 1)
  BY <1>1, <1>4, <1>8 DEF NextIn
<1>10. ASSUME dbProfile = "sqlite" PROVE \A d \in Command : BehindIn(migrating'[d], schema')
  <2>1. BehindIn(row, schema')
    BY <1>8 DEF BehindIn
  <2>2. ASSUME NEW d \in Command PROVE BehindIn(migrating[d], schema')
    <3>1. CASE Version = 0
      <4>1. migrating[d].pc = "apply" => migrating[d].next # 2
        BY <1>1, <3>1 DEF NextIn
      <4>2. QED
        BY <4>1 DEF BehindIn
    <3>2. CASE Version = 2
      <4>1. BehindIn(migrating[d], schema)
        <5>1. ASSUME NEW k \in 1 .. 9, Version = 1 PROVE FALSE
          BY <3>2, <5>1
        <5>2. QED
          BY <1>1, <1>10, <5>1 DEF SchemaFits
      <4>2. "http_json" \notin schema'
        <5>1. "http_json" \notin Contents(3, upgraded)
          BY <1>1, ContentsHold
        <5>2. QED
          BY <1>6, <3>2, <5>1 DEF WholeIn, Left
      <4>3. QED
        BY <4>1, <4>2, BehindKept
    <3>3. Version = 0 \/ Version = 2
      BY <1>1, <1>4, <1>5, <1>10
    <3>4. QED
      BY <3>1, <3>2, <3>3
  <2>3. QED
    BY <1>8, <2>1, <2>2 DEF Moves
<1>11. SchemaFits(migrating', schema', Version + 1)
  BY <1>6, <1>10 DEF SchemaFits
<1>12. Version + 1 \in Nat /\ Version + 1 >= Version
  BY <1>1
<1> HIDE DEF v
<1>13. QED
  BY <1>2, <1>7, <1>8, <1>9, <1>11, <1>12, MigrationKept

\* A statement of the second file that one command runs ahead of the others.
LEMMA NextStatement ==
  ASSUME NEW k \in 1 .. 8, upgraded \in BOOLEAN, dbProfile = "sqlite", PartIn(schema, k),
         NEW after, after = After(File(2)[k + 1], schema)
  PROVE  PartIn(after, k + 1) /\ ("http_json" \in after => "http_json" \in schema)
<1>1. dbProfile # "postgres" /\ k \in 0 .. 8 /\ k \in 0 .. 9 /\ k + 1 \in 0 .. 9
  OBVIOUS
<1>2. "http_json" \in Halfway(k + 1, upgraded) => "http_json" \in Halfway(k, upgraded)
  <2>1. "http_json" \in Halfway(k, upgraded) <=> k <= 2
    BY <1>1, HalfwayHolds
  <2>2. "http_json" \in Halfway(k + 1, upgraded) <=> k + 1 <= 2
    BY <1>1, HalfwayHolds
  <2>3. k + 1 <= 2 => k <= 2
    OBVIOUS
  <2>4. QED
    BY <2>1, <2>2, <2>3
<1>3. CASE schema = Halfway(k, upgraded)
  <2>1. After(File(2)[k + 1], Halfway(k, upgraded)) = Halfway(k + 1, upgraded)
    BY <1>1, HalfwayNext
  <2>2. after = Halfway(k + 1, upgraded)
    BY <1>3, <2>1
  <2>3. QED
    BY <1>2, <1>3, <2>2 DEF PartIn
<1>4. CASE k >= 4 /\ schema = Halfway(k, upgraded) \cup Left
  <2>1. k \in 4 .. 8 /\ k + 1 >= 4
    BY <1>4
  <2>2. schema = Halfway(k, upgraded) \cup {"monitors_v2"}
    BY <1>4 DEF Left
  <2>3. After(File(2)[k + 1], schema) = Halfway(k + 1, upgraded) \cup {"monitors_v2"}
    BY <1>1, <2>1, <2>2, HalfwayNextBeside
  <2>4. after = Halfway(k + 1, upgraded) \cup Left
    BY <2>3 DEF Left
  <2>5. QED
    BY <1>2, <2>1, <2>2, <2>4 DEF PartIn, Left
<1>5. QED
  BY <1>3, <1>4 DEF PartIn

LEMMA ApplyStatementKeeps ==
  ASSUME MigrationInv, NEW c \in Command, ApplyStatement(c)
  PROVE  MigrationInv'
<1> DEFINE n == migrating[c].statement
           row == [migrating[c] EXCEPT !.statement = n + 1]
<1>1. /\ upgraded \in BOOLEAN /\ Version \in 0 .. 3 /\ Version \in Nat
      /\ NextIn(migrating[c], Version) /\ migrating[c] \in MigrateRow
      /\ recorded \in Recordings /\ (upgraded => recorded # <<>>)
      /\ SchemaFits(migrating, schema, Version)
      /\ migrating = [d \in Command |-> migrating[d]]
  BY MigrationNow
<1>2. /\ dbProfile = "sqlite" /\ migrating[c].next = 2 /\ migrating[c].pc = "apply"
      /\ n <= Len(File(2)) /\ Runs(File(2)[n], schema) /\ schema' = After(File(2)[n], schema)
      /\ migrating' = [migrating EXCEPT ![c].statement = n + 1]
      /\ UNCHANGED <<dbProfile, recorded, upgraded>>
  BY DEF ApplyStatement, Pending, Transactional
<1>3. Len(File(2)) = 9 /\ dbProfile # "postgres"
  BY <1>2, SecondFile
<1>4. n \in 0 .. 9 /\ n + 1 \in 0 .. 10
  <2>1. n \in 0 .. 10
    BY <1>1 DEF MigrateRow
  <2>2. n <= 9
    BY <1>2, <1>3
  <2>3. QED
    BY <2>1, <2>2
<1>5. Version >= 1
  <2>1. 2 \in 1 .. Version + 1
    BY <1>1, <1>2 DEF NextIn
  <2>2. QED
    BY <1>1, <2>1
<1>6. row \in MigrateRow /\ row.pc = "apply" /\ row.next = 2 /\ row.statement = n + 1
  BY <1>1, <1>2, <1>4 DEF MigrateRow
<1>7. migrating' = [migrating EXCEPT ![c] = row]
  BY <1>1, <1>2
<1> HIDE DEF row, n
<1>8. Moves(migrating, c, row, migrating')
  BY <1>1, <1>7, MovesOne
<1>9. NextIn(row, Version)
  <2>1. 2 \in 1 .. Version + 1
    BY <1>1, <1>5
  <2>2. QED
    BY <1>6, <2>1 DEF NextIn
<1>10. Version' = Version /\ Version >= Version
  BY <1>1, <1>2 DEF Version
<1>11. \A d \in Command \ {c} : migrating'[d] = migrating[d]
  BY <1>8 DEF Moves
<1>12. migrating'[c] = row
  BY <1>8 DEF Moves
<1>13. CASE BehindIn(migrating[c], schema)
  <2>1. n = 1
    <3>1. n = 1 \/ (n = 2 /\ "http_json" \notin schema)
      BY <1>2, <1>13 DEF BehindIn, n
    <3>2. ASSUME n = 2, "http_json" \notin schema PROVE FALSE
      <4>1. File(2)[2] = Statement({"http_json", "monitors_v2"}, {"copies"}, {}, {<<"rows", "copies">>}, {})
        BY <1>3, SecondFile DEF ReplaceMonitors
      <4>2. ~ Runs(File(2)[2], schema)
        BY <3>2, <4>1 DEF Runs, Statement
      <4>3. QED
        BY <1>2, <3>2, <4>2
    <3>3. QED
      BY <3>1, <3>2
  <2>2. "monitors_v2" \notin schema /\ schema' = schema \cup Left
    <3>1. File(2)[1] = Create("monitors_v2")
      BY <1>3, SecondFile DEF ReplaceMonitors
    <3>2. /\ Runs(File(2)[1], schema) <=> "monitors_v2" \notin schema
          /\ After(File(2)[1], schema) = schema \cup {"monitors_v2"}
      BY <3>1, CreateIs
    <3>3. QED
      BY <1>2, <2>1, <3>2 DEF Left
  <2>3. "http_json" \in schema' => "http_json" \in schema
    BY <2>2 DEF Left
  <2>4. row.statement = 2
    BY <1>6, <2>1
  <2>5. CASE WholeIn(schema, Version)
    <3>1. schema = Contents(Version, upgraded)
      BY <2>2, <2>5 DEF WholeIn, Left
    <3>2. ASSUME NEW d \in Command PROVE BehindIn(migrating[d], schema)
      <4>1. CASE WholeIn(schema, Version) /\ (dbProfile = "sqlite" => \A e \in Command : BehindIn(migrating[e], schema))
        BY <1>2, <4>1
      <4>2. ASSUME NEW k \in 1 .. 9, Version = 1, PartIn(schema, k) PROVE FALSE
        <5>1. Contents(1, upgraded) = Halfway(0, upgraded)
          BY DEF Contents
        <5>2. "monitors_v2" \notin Halfway(k, upgraded) /\ schema = Halfway(k, upgraded)
          BY <2>2, <4>2 DEF PartIn, Left
        <5>3. "http_json" \in Halfway(0, upgraded) <=> 0 <= 2
          <6>1. 0 \in 0 .. 9
            OBVIOUS
          <6>2. QED
            BY <1>1, <6>1, HalfwayHolds
        <5>4. /\ "http_json" \in Halfway(k, upgraded) <=> k <= 2
              /\ "monitors_v2" \in Halfway(k, upgraded) <=> k \in 1 .. 3
          <6>1. k \in 0 .. 9
            OBVIOUS
          <6>2. QED
            BY <1>1, <6>1, HalfwayHolds
        <5>5. "http_json" \in schema
          BY <3>1, <4>2, <5>1, <5>3
        <5>6. QED
          BY <5>2, <5>4, <5>5
      <4>3. QED
        BY <1>1, <4>1, <4>2 DEF SchemaFits
    <3>3. \A d \in Command : BehindIn(migrating[d], schema')
      BY <2>3, <3>2, BehindKept
    <3>4. ASSUME Version = 1 PROVE SchemaFits(migrating', schema', Version)
      <4>1. Contents(1, upgraded) = Halfway(0, upgraded)
        BY DEF Contents
      <4>2. Halfway(0, upgraded) \cup {"monitors_v2"} = Halfway(1, upgraded)
        BY DEF Halfway
      <4>3. PartIn(schema', 1)
        BY <2>2, <3>1, <3>4, <4>1, <4>2 DEF PartIn, Left
      <4>4. /\ \A d \in Command : BehindIn(migrating'[d], schema') \/ migrating'[d].statement = 1 + 1
            /\ \A d \in Command : ~ BehindIn(migrating'[d], schema') => d = c
        BY <1>11, <1>12, <2>4, <3>3
      <4>5. AheadIn(migrating', schema', 1)
        BY <4>4 DEF AheadIn
      <4>6. \E k \in 1 .. 9 : PartIn(schema', k) /\ AheadIn(migrating', schema', k)
        <5>1. 1 \in 1 .. 9
          OBVIOUS
        <5>2. QED
          BY <4>3, <4>5, <5>1, Zenon
      <4>7. QED
        BY <1>2, <3>4, <4>6 DEF SchemaFits
    <3>5. ASSUME Version # 1 PROVE SchemaFits(migrating', schema', Version)
      <4>1. Version >= 2
        BY <1>1, <1>5, <3>5
      <4>2. "http_json" \notin schema
        BY <1>1, <3>1, <4>1, ContentsHold
      <4>3. BehindIn(row, schema')
        BY <2>3, <2>4, <4>2 DEF BehindIn
      <4>4. \A d \in Command : BehindIn(migrating'[d], schema')
        BY <1>11, <1>12, <3>3, <4>3
      <4>5. WholeIn(schema', Version)
        BY <1>2, <2>2, <3>1, <4>1 DEF WholeIn
      <4>6. QED
        BY <4>4, <4>5 DEF SchemaFits
    <3>6. SchemaFits(migrating', schema', Version)
      BY <3>4, <3>5
    <3>7. QED
      BY <1>1, <1>2, <1>8, <1>9, <1>10, <3>6, MigrationKept
  <2>6. ASSUME NEW k \in 1 .. 9, Version = 1, PartIn(schema, k), AheadIn(migrating, schema, k)
        PROVE  SchemaFits(migrating', schema', Version)
    <3>1. schema = Halfway(k, upgraded) /\ "monitors_v2" \notin Halfway(k, upgraded)
      BY <2>2, <2>6 DEF PartIn, Left
    <3>2. k >= 4 /\ "http_json" \notin schema
      <4>1. /\ "http_json" \in Halfway(k, upgraded) <=> k <= 2
            /\ "monitors_v2" \in Halfway(k, upgraded) <=> k \in 1 .. 3
        <5>1. k \in 0 .. 9
          OBVIOUS
        <5>2. QED
          BY <1>1, <5>1, HalfwayHolds
      <4>2. k >= 4
        BY <3>1, <4>1
      <4>3. QED
        BY <3>1, <4>1, <4>2
    <3>3. PartIn(schema', k)
      BY <2>2, <3>1, <3>2 DEF PartIn
    <3>4. BehindIn(row, schema')
      BY <2>3, <2>4, <3>2 DEF BehindIn
    <3>5. \A d \in Command : BehindIn(migrating'[d], schema') \/ (~ BehindIn(migrating[d], schema) /\ migrating'[d] = migrating[d])
      BY <1>11, <1>12, <2>3, <3>4, BehindKept
    <3>6. AheadIn(migrating', schema', k)
      BY <2>6, <3>5 DEF AheadIn
    <3>7. QED
      BY <1>2, <2>6, <3>3, <3>6 DEF SchemaFits
  <2>7. CASE ~ WholeIn(schema, Version)
    <3>1. SchemaFits(migrating', schema', Version)
      BY <1>1, <2>6, <2>7 DEF SchemaFits
    <3>2. QED
      BY <1>1, <1>2, <1>8, <1>9, <1>10, <3>1, MigrationKept
  <2>8. QED
    BY <2>5, <2>7
<1>14. CASE ~ BehindIn(migrating[c], schema)
  <2>1. PICK k \in 1 .. 9 : Version = 1 /\ PartIn(schema, k) /\ AheadIn(migrating, schema, k)
    BY <1>1, <1>2, <1>14 DEF SchemaFits
  <2>2. n = k + 1 /\ \A d \in Command \ {c} : BehindIn(migrating[d], schema)
    BY <1>14, <2>1 DEF AheadIn, n
  <2>3. k \in 1 .. 8 /\ k + 1 \in 1 .. 9
    BY <1>4, <2>2
  <2>4. schema' = After(File(2)[k + 1], schema)
    BY <1>2, <2>2
  <2>5. PartIn(schema', k + 1) /\ ("http_json" \in schema' => "http_json" \in schema)
    BY <1>1, <1>2, <2>1, <2>3, <2>4, NextStatement
  <2>6. \A d \in Command \ {c} : BehindIn(migrating'[d], schema')
    BY <1>11, <2>2, <2>5, BehindKept
  <2>7. migrating'[c].statement = (k + 1) + 1
    BY <1>6, <1>12, <2>2
  <2>8. AheadIn(migrating', schema', k + 1)
    BY <2>6, <2>7 DEF AheadIn
  <2>9. SchemaFits(migrating', schema', Version)
    BY <1>2, <2>1, <2>3, <2>5, <2>8 DEF SchemaFits
  <2>10. QED
    BY <1>1, <1>2, <1>8, <1>9, <1>10, <2>9, MigrationKept
<1>15. QED
  BY <1>13, <1>14

LEMMA MigrationInvNext == MigrationInv /\ [MigrationNext]_migrationVars => MigrationInv'
<1> SUFFICES ASSUME MigrationInv, [MigrationNext]_migrationVars PROVE MigrationInv'
  OBVIOUS
<1>1. ASSUME NEW c \in Command, StartMigrate(c) PROVE MigrationInv'
  BY <1>1, StartMigrateKeeps
<1>2. ASSUME NEW c \in Command, EndMigrate(c) PROVE MigrationInv'
  BY <1>2, EndMigrateKeeps
<1>3. ASSUME NEW c \in Command, ReadVersion(c) PROVE MigrationInv'
  BY <1>3, ReadVersionKeeps
<1>4. ASSUME NEW c \in Command, ApplyFile(c) PROVE MigrationInv'
  BY <1>4, ApplyFileKeeps
<1>5. ASSUME NEW c \in Command, ApplyStatement(c) PROVE MigrationInv'
  BY <1>5, ApplyStatementKeeps
<1>6. ASSUME NEW c \in Command, RecordVersion(c) PROVE MigrationInv'
  BY <1>6, RecordVersionKeeps
<1>7. CASE UNCHANGED migrationVars
  <2>1. ProfileOK'
    BY <1>7 DEF MigrationInv, ProfileOK, migrationVars
  <2>2. recorded' \in Recordings' /\ (upgraded' => recorded' # <<>>)
    BY <1>7 DEF MigrationInv, Recordings, migrationVars
  <2>3. Version' = Version
    BY <1>7 DEF Version, migrationVars
  <2>4. migrating' = [c \in Command |-> migrating'[c]] /\ \A c \in Command : NextIn(migrating'[c], Version')
    BY <1>7, <2>3 DEF MigrationInv, migrationVars
  <2>5. SchemaFits(migrating, schema, Version)'
    BY <1>7, <2>3 DEF MigrationInv, migrationVars, SchemaFits, WholeIn, PartIn, AheadIn, BehindIn, Left
  <2>6. QED
    BY <2>1, <2>2, <2>4, <2>5 DEF MigrationInv
<1>8. QED
  BY <1>1, <1>2, <1>3, <1>4, <1>5, <1>6, <1>7 DEF MigrationNext

\* The schema is that of the last version, or of a part of the second SQLite
\* file at which one command at most still works (Migrate and migrate of the three profiles).
THEOREM MigrationInvariance == MigrationSpec => []MigrationInv
BY MigrationInvInit, MigrationInvNext, PTL DEF MigrationSpec

\* Any number of migration commands, however they interleave, fail or crash,
\* record each version once and in order with the schema it stands for, and keep
\* the monitors of the first release (Ready is what serve asks).
THEOREM MigrationSchemaMatches == MigrationSpec => []SchemaMatchesVersion
<1>1. MigrationInv => SchemaMatchesVersion
  BY MigrationMatches
<1>2. QED
  BY <1>1, MigrationInvariance, PTL
=============================================================================
